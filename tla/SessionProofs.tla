--------------------------- MODULE SessionProofs ----------------------------
(***************************************************************************)
(* Proofs about Session and the parser it reads with, for any commands a   *)
(* client may send, with or without the mistakes msg.go tells apart, each  *)
(* as long as it says: serve keeps its place in the stream, replies belong *)
(* to their commands, and no right command ends the process.               *)
(***************************************************************************)
EXTENDS Session, SequenceTheorems, WellFoundedInduction, TLAPS

\* What a client writes for one command.
Unit(c) == <<c.line>> \o c.contents

-----------------------------------------------------------------------------
(* The stream *)

\* Up to three sequences one after the other.
LEMMA FlattenShort ==
  ASSUME NEW s, NEW n \in {1, 2, 3}, Len(s) = n
  PROVE  FlattenSeq(s) = IF n = 1 THEN s[1]
                         ELSE IF n = 2 THEN s[1] \o s[2]
                         ELSE (s[1] \o s[2]) \o s[3]
<1> DEFINE P(g) == g = [i \in 1..n |-> IF i = 1 THEN s[i] ELSE g[i - 1] \o s[i]]
<1>1. \E g : P(g)
  <2>1. PICK two : two = s[1] \o s[2]
    OBVIOUS
  <2>2. PICK three : three = two \o s[3]
    OBVIOUS
  <2>3. PICK w : w = [i \in 1..n |-> IF i = 1 THEN s[1] ELSE IF i = 2 THEN two ELSE three]
    OBVIOUS
  <2>4. ASSUME NEW i \in 1..n
        PROVE  w[i] = IF i = 1 THEN s[i] ELSE w[i - 1] \o s[i]
    <3>1. CASE i = 1
      BY <2>3, <3>1
    <3>2. CASE i = 2
      <4>1. i - 1 = 1 /\ 1 \in 1..n
        BY <3>2
      <4>2. w[i] = two /\ w[i - 1] = s[1]
        BY <2>3, <3>2, <4>1
      <4> QED
        BY <2>1, <3>2, <4>2
    <3>3. CASE i = 3
      <4>1. i - 1 = 2 /\ 2 \in 1..n
        BY <3>3
      <4>2. w[i] = three /\ w[i - 1] = two
        BY <2>3, <3>3, <4>1
      <4> QED
        BY <2>2, <3>3, <4>2
    <3> QED
      BY <3>1, <3>2, <3>3
  <2>5. [i \in 1..n |-> IF i = 1 THEN s[i] ELSE w[i - 1] \o s[i]] = [i \in 1..n |-> w[i]]
    BY <2>4
  <2>6. w = [i \in 1..n |-> w[i]]
    BY <2>3
  <2> QED
    BY <2>5, <2>6
<1>2. PICK g : g = CHOOSE f : P(f)
  OBVIOUS
<1>3. P(g)
  BY <1>1, <1>2
<1>4. FlattenSeq(s) = g[n]
  BY <1>2 DEF FlattenSeq
<1>5. g[1] = s[1]
  BY <1>3
<1>6. n # 1 => g[2] = s[1] \o s[2]
  <2>1. n # 1 => 2 \in 1..n /\ 2 - 1 = 1
    OBVIOUS
  <2>2. n # 1 => g[2] = g[2 - 1] \o s[2]
    BY <1>3, <2>1
  <2> QED
    BY <1>5, <2>1, <2>2
<1>7. n = 3 => g[3] = (s[1] \o s[2]) \o s[3]
  <2> SUFFICES ASSUME n = 3
               PROVE  g[3] = (s[1] \o s[2]) \o s[3]
    OBVIOUS
  <2>1. 3 \in 1..n /\ 3 # 1
    OBVIOUS
  <2>2. g[3] = g[3 - 1] \o s[3]
    BY <1>3, <2>1
  <2>3. g[3 - 1] = s[1] \o s[2]
    BY <1>6
  <2> QED
    BY <2>2, <2>3
<1> QED
  BY <1>4, <1>5, <1>6, <1>7

LEMMA UnitType ==
  ASSUME NEW c \in Command
  PROVE  Unit(c) \in Seq(Chunks)
<1>1. <<c.line>> \in Seq(Chunks) /\ c.contents \in Seq(Chunks)
  BY CommandAssumption
<1> QED
  BY <1>1, ConcatProperties DEF Unit

\* The streams of one, two and three commands.
LEMMA Streams ==
  ASSUME NEW cs \in Seq(Command)
  PROVE  /\ Len(cs) = 1 => Stream(cs) = Unit(cs[1])
         /\ Len(cs) = 2 => Stream(cs) = Unit(cs[1]) \o Unit(cs[2])
         /\ Len(cs) = 3 => Stream(cs) = (Unit(cs[1]) \o Unit(cs[2])) \o Unit(cs[3])
<1> SUFFICES ASSUME NEW n \in {1, 2, 3}, Len(cs) = n
             PROVE  Stream(cs) = IF n = 1 THEN Unit(cs[1])
                                 ELSE IF n = 2 THEN Unit(cs[1]) \o Unit(cs[2])
                                 ELSE (Unit(cs[1]) \o Unit(cs[2])) \o Unit(cs[3])
  OBVIOUS
<1>1. PICK t : t = [k \in 1..n |-> <<cs[k].line>> \o cs[k].contents]
  OBVIOUS
<1>2. Len(t) = n
  BY <1>1
<1>3. \A k \in 1..n : t[k] = Unit(cs[k])
  BY <1>1 DEF Unit
<1>4. Stream(cs) = FlattenSeq(t)
  BY <1>1 DEF Stream
<1>5. FlattenSeq(t) = IF n = 1 THEN t[1] ELSE IF n = 2 THEN t[1] \o t[2]
                      ELSE (t[1] \o t[2]) \o t[3]
  BY <1>2, FlattenShort
<1> QED
  BY <1>3, <1>4, <1>5

\* What is left of a client's commands after n of them: the next and the rest.
LEMMA Left ==
  ASSUME NEW cs \in Command \X Command \X Command, NEW n \in {0, 1, 2, 3}
  PROVE  /\ Len(cs) = 3 /\ \A k \in 1..3 : cs[k] \in Command
         /\ Stream(SubSeq(cs, n + 1, Len(cs))) \in Seq(Chunks)
         /\ n = 3 => Stream(SubSeq(cs, n + 1, Len(cs))) = <<>>
         /\ n # 3 => Stream(SubSeq(cs, n + 1, Len(cs))) =
                       Unit(cs[n + 1]) \o Stream(SubSeq(cs, n + 2, Len(cs)))
<1>1. Len(cs) = 3 /\ cs[1] \in Command /\ cs[2] \in Command /\ cs[3] \in Command
  OBVIOUS
<1>2. \A k \in 1..3 : cs[k] \in Command
  BY <1>1
<1>3. PICK a \in Seq(Chunks), b \in Seq(Chunks), c \in Seq(Chunks) :
        a = Unit(cs[1]) /\ b = Unit(cs[2]) /\ c = Unit(cs[3])
  BY <1>1, UnitType
<1>4. a \o b \in Seq(Chunks) /\ b \o c \in Seq(Chunks) /\ (a \o b) \o c \in Seq(Chunks)
  <2>1. PICK ab \in Seq(Chunks) : ab = a \o b
    BY ConcatProperties
  <2>2. b \o c \in Seq(Chunks)
    BY ConcatProperties
  <2>3. ab \o c \in Seq(Chunks)
    BY ConcatProperties
  <2> QED
    BY <2>1, <2>2, <2>3
<1>5. (a \o b) \o c = a \o (b \o c)
  BY ConcatAssociative, SMTT(30)
<1>6. c \o <<>> = c /\ <<>> \in Seq(Chunks)
  BY ConcatEmptySeq
<1>7. Stream(SubSeq(cs, 1, 3)) = (a \o b) \o c
  <2>1. PICK s : s = SubSeq(cs, 1, 3)
    OBVIOUS
  <2>2. s \in Seq(Command) /\ Len(s) = 3 /\ s[1] = cs[1] /\ s[2] = cs[2] /\ s[3] = cs[3]
    BY <1>2, <2>1, SubSeqProperties
  <2>3. Stream(s) = (Unit(s[1]) \o Unit(s[2])) \o Unit(s[3])
    BY <2>2, Streams
  <2> QED
    BY <1>3, <2>1, <2>2, <2>3
<1>8. Stream(SubSeq(cs, 2, 3)) = b \o c
  <2>1. PICK s : s = SubSeq(cs, 2, 3)
    OBVIOUS
  <2>2. s \in Seq(Command) /\ Len(s) = 2 /\ s[1] = cs[2] /\ s[2] = cs[3]
    BY <1>2, <2>1, SubSeqProperties
  <2>3. Stream(s) = Unit(s[1]) \o Unit(s[2])
    BY <2>2, Streams
  <2> QED
    BY <1>3, <2>1, <2>2, <2>3
<1>9. Stream(SubSeq(cs, 3, 3)) = c
  <2>1. PICK s : s = SubSeq(cs, 3, 3)
    OBVIOUS
  <2>2. s \in Seq(Command) /\ Len(s) = 1 /\ s[1] = cs[3]
    BY <1>2, <2>1, SubSeqProperties
  <2> QED
    BY <1>3, <2>1, <2>2, Streams
<1>10. Stream(SubSeq(cs, 4, 3)) = <<>>
  <2>1. SubSeq(cs, 4, 3) = <<>>
    BY SubSeqEmpty
  <2> QED
    BY <2>1 DEF Stream, FlattenSeq
<1>11. CASE n = 0
  <2>1. n + 1 = 1 /\ n + 2 = 2 /\ cs[n + 1] = cs[1]
    BY <1>11
  <2>2. Stream(SubSeq(cs, n + 1, Len(cs))) = (a \o b) \o c
    BY <1>1, <1>7, <2>1
  <2>3. Stream(SubSeq(cs, n + 2, Len(cs))) = b \o c
    BY <1>1, <1>8, <2>1
  <2>4. Unit(cs[n + 1]) = a
    BY <1>3, <2>1
  <2>5. Stream(SubSeq(cs, n + 1, Len(cs))) =
          Unit(cs[n + 1]) \o Stream(SubSeq(cs, n + 2, Len(cs)))
    BY <1>5, <2>2, <2>3, <2>4
  <2>6. Stream(SubSeq(cs, n + 1, Len(cs))) \in Seq(Chunks)
    BY <1>4, <2>2
  <2> QED
    BY <1>1, <1>2, <1>11, <2>5, <2>6
<1>12. CASE n = 1
  <2>1. n + 1 = 2 /\ n + 2 = 3 /\ cs[n + 1] = cs[2]
    BY <1>12
  <2>2. Stream(SubSeq(cs, n + 1, Len(cs))) = b \o c
    BY <1>1, <1>8, <2>1
  <2>3. Stream(SubSeq(cs, n + 2, Len(cs))) = c
    BY <1>1, <1>9, <2>1
  <2>4. Unit(cs[n + 1]) = b
    BY <1>3, <2>1
  <2>5. Stream(SubSeq(cs, n + 1, Len(cs))) =
          Unit(cs[n + 1]) \o Stream(SubSeq(cs, n + 2, Len(cs)))
    BY <2>2, <2>3, <2>4
  <2>6. Stream(SubSeq(cs, n + 1, Len(cs))) \in Seq(Chunks)
    BY <1>4, <2>2
  <2> QED
    BY <1>1, <1>2, <1>12, <2>5, <2>6
<1>13. CASE n = 2
  <2>1. n + 1 = 3 /\ n + 2 = 4 /\ cs[n + 1] = cs[3]
    BY <1>13
  <2>2. Stream(SubSeq(cs, n + 1, Len(cs))) = c
    BY <1>1, <1>9, <2>1
  <2>3. Stream(SubSeq(cs, n + 2, Len(cs))) = <<>>
    BY <1>1, <1>10, <2>1
  <2>4. Unit(cs[n + 1]) = c
    BY <1>3, <2>1
  <2>5. Stream(SubSeq(cs, n + 1, Len(cs))) =
          Unit(cs[n + 1]) \o Stream(SubSeq(cs, n + 2, Len(cs)))
    BY <1>6, <2>2, <2>3, <2>4
  <2>6. Stream(SubSeq(cs, n + 1, Len(cs))) \in Seq(Chunks)
    BY <1>4, <2>2
  <2> QED
    BY <1>1, <1>2, <1>13, <2>5, <2>6
<1>14. CASE n = 3
  <2>1. Stream(SubSeq(cs, n + 1, Len(cs))) = <<>>
    BY <1>1, <1>10, <1>14
  <2> QED
    BY <1>1, <1>2, <1>6, <1>14, <2>1
<1> QED
  BY <1>11, <1>12, <1>13, <1>14
-----------------------------------------------------------------------------
(* Bytes *)

\* What Bytes asks of the elements of a stream.
Sized(S) == \A x \in S : x.size \in Nat

\* Induction, over a set of numbers.
LEMMA Induct ==
  ASSUME NEW S, 0 \in S, \A n \in Nat : n \in S => n + 1 \in S
  PROVE  \A n \in Nat : n \in S
<1>1. PICK R : R = OpToRel(<, Nat)
  OBVIOUS
<1>2. IsWellFoundedOn(R, Nat)
  BY <1>1, NatLessThanWellFounded
<1>3. \A x, y \in Nat : x < y => <<x, y>> \in R
  BY <1>1 DEF OpToRel
<1> SUFFICES ASSUME NEW T, T = {n \in Nat : n \notin S}, T # {}
             PROVE  FALSE
  OBVIOUS
<1>4. PICK x \in T : \A y \in T : ~(<<y, x>> \in R)
  BY <1>2, WFMin
<1>5. x \in Nat /\ x # 0 /\ x \notin S
  BY <1>4
<1>6. x - 1 \in Nat /\ x - 1 < x /\ x = (x - 1) + 1
  BY <1>5
<1>7. x - 1 \in S
  BY <1>3, <1>4, <1>5, <1>6
<1> QED
  BY <1>5, <1>6, <1>7

\* Bytes is the sum it is meant to be.
LEMMA BytesAre ==
  ASSUME NEW S, Sized(S), NEW s \in Seq(S), NEW n \in Nat, Len(s) = n
  PROVE  /\ Bytes(s) \in [0..n -> Nat] /\ Bytes(s)[0] = 0
         /\ \A k \in 1..n : Bytes(s)[k] = Bytes(s)[k - 1] + s[k].size + 2
<1>0. PICK z \in [1..n -> Nat] : \A k \in 1..n : z[k] = s[k].size
  <2>1. \A k \in 1..n : s[k].size \in Nat
    <3>1. \A k \in 1..n : s[k] \in S
      BY ElementOfSeq
    <3> QED
      BY <3>1 DEF Sized
  <2>2. [k \in 1..n |-> s[k].size] \in [1..n -> Nat]
    BY <2>1
  <2> QED
    BY <2>2
<1> DEFINE Good(f, m) == /\ f \in [0..m -> Nat] /\ f[0] = 0
                         /\ \A k \in 1..m : f[k] = f[k - 1] + z[k] + 2
           E == {m \in Nat : m <= n => \E f : Good(f, m)}
<1>1. 0 \in E
  <2>1. Good([k \in 0..0 |-> 0], 0)
    OBVIOUS
  <2> QED
    BY <2>1
<1>2. ASSUME NEW m \in Nat, m \in E, m + 1 <= n
      PROVE  \E f : Good(f, m + 1)
  <2>1. PICK f : Good(f, m)
    <3> HIDE DEF Good
    <3> QED
      BY <1>2
  <2>2. f[m] \in Nat /\ m + 1 \in 1..n
    BY <1>2, <2>1
  <2>3. PICK b \in Nat : b = f[m] + z[m + 1] + 2
    BY <1>0, <2>2
  <2>4. PICK g : g = [k \in 0..(m + 1) |-> IF k = m + 1 THEN b ELSE f[k]]
    OBVIOUS
  <2>5. g \in [0..(m + 1) -> Nat] /\ g[0] = 0 /\ g[m + 1] = b
    BY <2>1, <2>3, <2>4
  <2>6. \A k \in 0..m : g[k] = f[k]
    BY <2>4
  <2>7. ASSUME NEW k \in 1..(m + 1)
        PROVE  g[k] = g[k - 1] + z[k] + 2
    <3>1. CASE k = m + 1
      <4>1. k - 1 = m /\ m \in 0..m
        BY <3>1
      <4> QED
        BY <2>3, <2>5, <2>6, <3>1, <4>1
    <3>2. CASE k # m + 1
      <4>1. k \in 1..m /\ k \in 0..m /\ k - 1 \in 0..m
        BY <3>2
      <4> QED
        BY <2>1, <2>6, <4>1
    <3> QED
      BY <3>1, <3>2
  <2> QED
    BY <2>5, <2>7
<1>3. ASSUME NEW m \in Nat, m \in E
      PROVE  m + 1 \in E
  <2>1. m + 1 <= n => \E f : Good(f, m + 1)
    BY <1>2, <1>3
  <2> HIDE DEF Good
  <2> QED
    BY <2>1
<1> HIDE DEF E
<1>4. n \in E
  BY <1>1, <1>3, Induct
<1>5. PICK f : Good(f, n)
  <2> HIDE DEF Good
  <2> QED
    BY <1>4 DEF E
<1> DEFINE P(g) == g = [k \in 0..Len(s) |-> IF k = 0 THEN 0 ELSE g[k - 1] + s[k].size + 2]
<1>6. P(f)
  <2>1. ASSUME NEW k \in 0..n
        PROVE  f[k] = IF k = 0 THEN 0 ELSE f[k - 1] + s[k].size + 2
    <3>1. CASE k = 0
      BY <1>5, <3>1
    <3>2. CASE k # 0
      <4>1. k \in 1..n
        BY <3>2
      <4> QED
        BY <1>0, <1>5, <3>2, <4>1
    <3> QED
      BY <3>1, <3>2
  <2>2. f = [k \in 0..n |-> f[k]]
    BY <1>5
  <2>3. [k \in 0..n |-> f[k]] =
          [k \in 0..n |-> IF k = 0 THEN 0 ELSE f[k - 1] + s[k].size + 2]
    BY <2>1
  <2> QED
    BY <2>2, <2>3
<1>7. PICK g : g = CHOOSE x : P(x)
  OBVIOUS
<1>8. P(g)
  BY <1>6, <1>7
<1>9. Bytes(s) = g
  BY <1>7 DEF Bytes
<1>10. g[0] = 0 /\ \A k \in 1..n : g[k] = g[k - 1] + z[k] + 2
  <2>1. 0 \in 0..n /\ \A k \in 1..n : k \in 0..n /\ k # 0
    OBVIOUS
  <2>2. g[0] = 0 /\ \A k \in 1..n : g[k] = g[k - 1] + s[k].size + 2
    BY <1>8, <2>1
  <2> QED
    BY <1>0, <2>2
<1> HIDE DEF P
<1>11. \A k \in 0..n : g[k] = f[k]
  <2> DEFINE F == {k \in Nat : k <= n => g[k] = f[k]}
  <2>1. 0 \in F
    BY <1>5, <1>10
  <2>2. ASSUME NEW k \in Nat, k \in F
        PROVE  k + 1 \in F
    <3>1. ASSUME k + 1 <= n
          PROVE  g[k + 1] = f[k + 1]
      <4>1. k + 1 \in 1..n /\ (k + 1) - 1 = k /\ k <= n
        BY <2>2, <3>1
      <4>2. k <= n => g[k] = f[k]
        BY <2>2
      <4> QED
        BY <1>5, <1>10, <4>1, <4>2
    <3> QED
      BY <3>1
  <2> HIDE DEF F
  <2>4. \A k \in Nat : k \in F
    BY <2>1, <2>2, Induct
  <2> QED
    BY <2>4 DEF F
<1>12. g \in [0..n -> Nat]
  <2>1. \A k \in 0..n : g[k] \in Nat
    BY <1>5, <1>11
  <2>2. g = [k \in 0..n |-> g[k]]
    BY <1>8 DEF P
  <2> QED
    BY <2>1, <2>2
<1>13. \A k \in 1..n : g[k] = g[k - 1] + s[k].size + 2
  BY <1>0, <1>10
<1> QED
  BY <1>9, <1>10, <1>12, <1>13

\* What comes later in a stream does not matter.
LEMMA BytesAhead ==
  ASSUME NEW S, Sized(S), NEW a \in Seq(S), NEW b \in Seq(S)
  PROVE  \A k \in 0..Len(a) : Bytes(a \o b)[k] = Bytes(a)[k]
<1>1. PICK s \in Seq(S) : s = a \o b
  BY ConcatProperties
<1>2. PICK n \in Nat, p \in Nat : n = Len(a) /\ p = Len(s)
  BY LenProperties
<1>3. n <= p /\ \A k \in 1..n : s[k] = a[k]
  BY <1>1, <1>2, ConcatProperties
<1>4. PICK f, g : f = Bytes(a) /\ g = Bytes(s)
  OBVIOUS
<1>5. f[0] = 0 /\ \A k \in 1..n : f[k] = f[k - 1] + a[k].size + 2
  BY <1>2, <1>4, BytesAre
<1>6. g[0] = 0 /\ \A k \in 1..n : g[k] = g[k - 1] + a[k].size + 2
  <2>1. g[0] = 0 /\ \A k \in 1..p : g[k] = g[k - 1] + s[k].size + 2
    BY <1>2, <1>4, BytesAre
  <2>2. \A k \in 1..n : k \in 1..p
    BY <1>3
  <2> QED
    BY <1>3, <2>1, <2>2
<1> DEFINE E == {k \in Nat : k <= n => g[k] = f[k]}
<1>7. 0 \in E
  BY <1>5, <1>6
<1>8. ASSUME NEW k \in Nat, k \in E
      PROVE  k + 1 \in E
  <2>1. ASSUME k + 1 <= n
        PROVE  g[k + 1] = f[k + 1]
    <3>1. k + 1 \in 1..n /\ (k + 1) - 1 = k /\ g[k] = f[k]
      BY <1>8, <2>1
    <3> QED
      BY <1>5, <1>6, <3>1
  <2> QED
    BY <2>1
<1> HIDE DEF E
<1>9. \A k \in Nat : k \in E
  BY <1>7, <1>8, Induct
<1> QED
  BY <1>1, <1>2, <1>4, <1>9 DEF E

\* Every chunk has bytes.
LEMMA BytesGrow ==
  ASSUME NEW S, Sized(S), NEW s \in Seq(S), NEW i \in 0..Len(s), NEW j \in 0..Len(s), i < j
  PROVE  Bytes(s)[i] \in Nat /\ Bytes(s)[j] \in Nat /\ Bytes(s)[i] < Bytes(s)[j]
<1>1. PICK n \in Nat : n = Len(s)
  BY LenProperties
<1>2. PICK f : f = Bytes(s)
  OBVIOUS
<1>3. f \in [0..n -> Nat] /\ \A k \in 1..n : f[k] > f[k - 1]
  <2>1. f \in [0..n -> Nat] /\ \A k \in 1..n : f[k] = f[k - 1] + s[k].size + 2
    BY <1>1, <1>2, BytesAre
  <2>2. ASSUME NEW k \in 1..n
        PROVE  f[k] > f[k - 1]
    <3>1. s[k].size \in Nat
      <4>1. s[k] \in S
        BY <1>1, ElementOfSeq
      <4> QED
        BY <4>1 DEF Sized
    <3>2. k - 1 \in 0..n /\ f[k - 1] \in Nat
      BY <2>1
    <3>3. PICK x \in Nat, y \in Nat : x = f[k - 1] /\ y = s[k].size
      BY <3>1, <3>2
    <3>4. f[k] = f[k - 1] + s[k].size + 2
      BY <2>1
    <3>5. f[k] = x + y + 2
      BY <3>3, <3>4
    <3>6. x + y + 2 > x
      OBVIOUS
    <3> QED
      BY <3>3, <3>5, <3>6
  <2> QED
    BY <2>1, <2>2
<1> DEFINE E == {k \in Nat : i + 1 + k <= n => f[i] < f[i + 1 + k]}
<1>4. i \in Nat /\ j \in Nat /\ i <= n /\ j <= n
  BY <1>1
<1>5. 0 \in E
  <2>1. ASSUME i + 1 <= n
        PROVE  f[i] < f[i + 1]
    <3>1. i + 1 \in 1..n /\ (i + 1) - 1 = i
      BY <1>4, <2>1
    <3> QED
      BY <1>3, <1>4, <3>1
  <2> QED
    BY <1>4, <2>1
<1>6. ASSUME NEW k \in Nat, k \in E
      PROVE  k + 1 \in E
  <2>1. ASSUME i + 1 + (k + 1) <= n
        PROVE  f[i] < f[i + 1 + (k + 1)]
    <3>1. PICK h \in Nat : h = i + 1 + k
      BY <1>4
    <3>2. /\ h + 1 \in 1..n /\ (h + 1) - 1 = h /\ h \in 0..n /\ i \in 0..n /\ h + 1 \in 0..n
          /\ h + 1 = i + 1 + (k + 1)
      BY <1>4, <2>1, <3>1
    <3>3. f[i] < f[h]
      BY <1>4, <1>6, <3>1, <3>2
    <3>4. f[h + 1] > f[h]
      BY <1>3, <3>2
    <3>5. f[i] \in Nat /\ f[h] \in Nat /\ f[h + 1] \in Nat
      BY <1>3, <3>2
    <3>6. f[i] < f[h + 1]
      BY <3>3, <3>4, <3>5
    <3> QED
      BY <3>2, <3>6
  <2> QED
    BY <2>1
<1> HIDE DEF E
<1>7. \A k \in Nat : k \in E
  BY <1>5, <1>6, Induct
<1>8. PICK k \in Nat : j = i + 1 + k
  <2>1. j - i - 1 \in Nat /\ j = i + 1 + (j - i - 1)
    BY <1>4
  <2> QED
    BY <2>1
<1>9. f[i] < f[j]
  BY <1>4, <1>7, <1>8 DEF E
<1> QED
  BY <1>1, <1>2, <1>3, <1>9

-----------------------------------------------------------------------------
(* The parser *)

\* The rows of Form, as far as the proofs look at them.
LEMMA Forms ==
  /\ DOMAIN Form = {"read", "write", "cas", "delete", "CONTENTS", "OK", "ERR_VERSION",
                    "ERR_FILE_NOT_FOUND", "ERR_CMD_ERR", "ERR_INTERNAL"}
  /\ \A w \in DOMAIN Form : Form[w].min \in Nat
  /\ DOMAIN Announced = {"write", "cas", "CONTENTS"}
  /\ \A w \in DOMAIN Announced :
       /\ Form[w].numbytes = Announced[w] /\ Announced[w] \in {2, 3}
       /\ Form[w].min > Announced[w]
  /\ \A w \in DOMAIN Form :
       Form[w].kind \in {"w", "c", "C"} <=> w \in {"write", "cas", "CONTENTS"}
  BY DEF Form, Announced

\* With such a line the place in the stream is lost.
Lost(line) ==
  \/ Len(line.args) + 1 < Form[line.word].min
  \/ NotANumber(line.args, {Form[line.word].numbytes}, line.word)

\* A message that a line may have.
Reads(m, line) ==
  /\ m.kind = Form[line.word].kind
  /\ m.version = toInt(line.args, Form[line.word].version, line.word)
  /\ m.numbytes = toInt(line.args, Form[line.word].numbytes, line.word)
  /\ m.err = IF NotANumber(line.args, {Form[line.word].version, Form[line.word].exptime},
                           line.word)
               THEN "msg" ELSE "none"

\* What parseFirst makes of a line.
LEMMA FirstFacts ==
  ASSUME NEW line, NEW m, m = parseFirst(line)
  PROVE  \/ m.err = "panic" /\ (line.word = "" \/ line.args = <<>>)
         \/ m.err = "fatal" /\ (line.word \notin DOMAIN Form \/ Lost(line))
         \/ /\ line.word \in DOMAIN Form /\ ~Lost(line) /\ Reads(m, line)
            /\ Form[line.word].response \/ line.args # <<>>
<1>1. CASE line.word = ""
  <2>1. m = Failed("panic")
    BY <1>1, Forms DEF parseFirst
  <2>2. m.err = "panic"
    BY <2>1 DEF Failed
  <2> QED
    BY <1>1, <2>2
<1>2. CASE line.word # "" /\ line.word \notin DOMAIN Form
  <2>1. m = Failed("fatal")
    BY <1>2, Forms DEF parseFirst
  <2>2. m.err = "fatal"
    BY <2>1 DEF Failed
  <2> QED
    BY <1>2, <2>2
<1>3. CASE line.word \in DOMAIN Form /\ Lost(line)
  <2>1. m = Failed("fatal")
    BY <1>3, Forms DEF parseFirst, Lost
  <2>2. m.err = "fatal"
    BY <2>1 DEF Failed
  <2> QED
    BY <1>3, <2>2
<1>4. CASE line.word \in DOMAIN Form /\ ~Lost(line)
  <2>0. line.word # ""
    BY <1>4, Forms
  <2>1. m =
          IF ~Form[line.word].response /\ line.args = <<>> THEN Failed("panic")
          ELSE [kind |-> Form[line.word].kind,
                version |-> toInt(line.args, Form[line.word].version, line.word),
                numbytes |-> toInt(line.args, Form[line.word].numbytes, line.word),
                exptime |-> toInt(line.args, Form[line.word].exptime, line.word),
                err |-> IF NotANumber(line.args, {Form[line.word].version,
                                        Form[line.word].exptime}, line.word)
                          THEN "msg" ELSE "none"]
    BY <1>4, <2>0 DEF parseFirst, Lost, NoName
  <2>2. CASE ~Form[line.word].response /\ line.args = <<>>
    <3>1. m = Failed("panic")
      BY <2>1, <2>2
    <3>2. m.err = "panic"
      BY <3>1 DEF Failed
    <3> QED
      BY <2>2, <3>2
  <2>3. CASE ~(~Form[line.word].response /\ line.args = <<>>)
    <3>1. m = [kind |-> Form[line.word].kind,
               version |-> toInt(line.args, Form[line.word].version, line.word),
               numbytes |-> toInt(line.args, Form[line.word].numbytes, line.word),
               exptime |-> toInt(line.args, Form[line.word].exptime, line.word),
               err |-> IF NotANumber(line.args, {Form[line.word].version,
                                       Form[line.word].exptime}, line.word)
                         THEN "msg" ELSE "none"]
      BY <2>1, <2>3
    <3>2. Reads(m, line)
      BY <3>1 DEF Reads
    <3> QED
      BY <1>4, <2>3, <3>2
  <2> QED
    BY <2>2, <2>3
<1> QED
  BY <1>1, <1>2, <1>3, <1>4

\* A sequence behind one more element.
LEMMA Behind ==
  ASSUME NEW S, NEW x \in S, NEW s \in Seq(S)
  PROVE  <<x>> \o s # <<>> /\ Head(<<x>> \o s) = x /\ Tail(<<x>> \o s) = s
  BY ConcatProperties, HeadTailProperties, SeqEqual

\* A command at the head of a stream.
LEMMA UnitAhead ==
  ASSUME NEW c \in Command, NEW rest \in Seq(Chunks)
  PROVE  /\ Unit(c) \o rest # <<>> /\ Head(Unit(c) \o rest) = c.line
         /\ Tail(Unit(c) \o rest) = c.contents \o rest
         /\ c.line.word \notin DOMAIN Announced => Tail(Unit(c) \o rest) = rest
<1>1. /\ c.line \in Chunks /\ <<c.line>> \in Seq(Chunks) /\ c.contents \in Seq(Chunks)
      /\ c.line.word \notin DOMAIN Announced => c.contents = <<>>
  BY CommandAssumption
<1>2. PICK more \in Seq(Chunks) : more = c.contents \o rest
  BY <1>1, ConcatProperties
<1>3. Unit(c) \o rest = <<c.line>> \o more
  <2>1. PICK u \in Seq(Chunks), d \in Seq(Chunks) : u = <<c.line>> /\ d = c.contents
    BY <1>1
  <2>2. (u \o d) \o rest = u \o (d \o rest)
    BY ConcatAssociative
  <2> QED
    BY <1>2, <2>1, <2>2 DEF Unit
<1>4. /\ Unit(c) \o rest # <<>> /\ Head(Unit(c) \o rest) = c.line
      /\ Tail(Unit(c) \o rest) = more
  BY <1>1, <1>3, Behind
<1>5. c.line.word \notin DOMAIN Announced => more = rest
  BY <1>1, <1>2, ConcatEmptySeq
<1> QED
  BY <1>2, <1>4, <1>5

\* What follows some contents.
LEMMA SkipContents ==
  ASSUME NEW S, NEW a \in Seq(S), NEW b \in Seq(S)
  PROVE  SubSeq(a \o b, Len(a) + 1, Len(a \o b)) = b
<1>1. PICK l \in Nat, p \in Nat : l = Len(a) /\ p = Len(b)
  BY LenProperties
<1>2. Len(a \o b) = l + p
  BY <1>1, ConcatProperties
<1>3. CASE p = 0
  <2>1. b = <<>>
    BY <1>1, <1>3, EmptySeq
  <2>2. SubSeq(a \o b, l + 1, l + p) = <<>>
    BY <1>3, SubSeqEmpty
  <2> QED
    BY <1>1, <1>2, <2>1, <2>2
<1>4. CASE p # 0
  <2>1. l + 1 \in l + 1..l + p /\ l + p \in l + 1..l + p
    BY <1>4
  <2>2. SubSeq(a \o b, l + 1, l + p) = SubSeq(b, (l + 1) - l, (l + p) - l)
    BY <1>1, <2>1, SubSeqOfConcat2
  <2>3. (l + 1) - l = 1 /\ (l + p) - l = p
    OBVIOUS
  <2>4. SubSeq(b, 1, p) = b
    BY <1>1, SubSeqFull
  <2> QED
    BY <1>1, <1>2, <2>2, <2>3, <2>4
<1> QED
  BY <1>3, <1>4

\* The contents of a command, of the length it announces, are taken as a whole,
\* however many lines they are.
LEMMA SecondFacts ==
  ASSUME NEW S, Sized(S), NEW a \in Seq(S), a # <<>>, NEW b \in Seq(S), NEW second,
         second = parseSecond(a \o b, Length(a))
  PROVE  /\ Length(a) \in Nat
         /\ Length(a) > MAX_CONTENT_SIZE => second.err = "fatal"
         /\ Length(a) <= MAX_CONTENT_SIZE => second.err = "none" /\ second.rest = b
<1>1. PICK s \in Seq(S) : s = a \o b
  BY ConcatProperties
<1>2. PICK l \in Nat, p \in Nat : l = Len(a) /\ p = Len(s)
  BY LenProperties
<1>3. l \in 1..p /\ l \in 0..l
  <2>1. l # 0
    BY <1>2, EmptySeq
  <2>2. l <= p
    BY <1>1, <1>2, ConcatProperties
  <2> QED
    BY <2>1, <2>2
<1>4. PICK u : u = Bytes(s)
  OBVIOUS
<1>5. \A i \in 0..p, j \in 0..p : i < j => u[i] \in Nat /\ u[j] \in Nat /\ u[i] < u[j]
  BY <1>2, <1>4, BytesGrow
<1>6. u[l] = Bytes(a)[l]
  BY <1>1, <1>2, <1>3, <1>4, BytesAhead
<1>7. PICK n \in Nat : n = Length(a) /\ n + 2 = u[l]
  <2>1. u \in [0..p -> Nat] /\ \A k \in 1..p : u[k] = u[k - 1] + s[k].size + 2
    BY <1>2, <1>4, BytesAre
  <2>2. u[l - 1] \in Nat /\ u[l] = u[l - 1] + s[l].size + 2
    <3>1. u[l] = u[l - 1] + s[l].size + 2
      BY <1>3, <2>1
    <3>2. l - 1 \in 0..p
      BY <1>3
    <3>3. u[l - 1] \in Nat
      BY <2>1, <3>2
    <3> QED
      BY <3>1, <3>3
  <2>3. s[l].size \in Nat
    <3>1. s[l] \in S
      BY <1>2, <1>3, ElementOfSeq
    <3> QED
      BY <3>1 DEF Sized
  <2>4. PICK x \in Nat, y \in Nat : x = u[l - 1] /\ y = s[l].size
    BY <2>2, <2>3
  <2>5. u[l] = x + y + 2
    BY <2>2, <2>4
  <2>6. Length(a) = u[l] - 2
    BY <1>2, <1>6 DEF Length
  <2>7. x + y \in Nat /\ Length(a) = x + y /\ (x + y) + 2 = u[l]
    BY <2>5, <2>6
  <2> QED
    BY <2>7
<1>8. PICK ends : ends = {k \in 1..p : u[k] = n + 2}
  OBVIOUS
<1>9. ends = {l}
  <2>1. ASSUME NEW k \in 1..p, u[k] = n + 2
        PROVE  k = l
    <3>1. k \in 0..p /\ l \in 0..p
      BY <1>3
    <3>2. k < l => u[k] < u[l] /\ u[k] \in Nat
      BY <1>5, <3>1
    <3>3. l < k => u[l] < u[k] /\ u[k] \in Nat
      BY <1>5, <3>1
    <3>4. ~(k < l) /\ ~(l < k)
      BY <1>7, <2>1, <3>2, <3>3
    <3> QED
      BY <1>3, <3>4
  <2> QED
    BY <1>3, <1>7, <1>8, <2>1
<1>10. ~(u[p] < n + 2)
  <2>1. CASE l = p
    BY <1>7, <2>1
  <2>2. CASE l # p
    <3>1. l \in 0..p /\ p \in 0..p /\ l < p
      BY <1>3, <2>2
    <3>2. u[p] \in Nat /\ u[l] < u[p]
      BY <1>5, <3>1
    <3> QED
      BY <1>7, <3>2
  <2> QED
    BY <2>1, <2>2
<1>11. PICK max \in Nat : max = MAX_CONTENT_SIZE
  BY SizeAssumption
<1>12. PICK err : err = IF n > max THEN "fatal" ELSE "none"
  OBVIOUS
<1>13. second = [err |-> err,
                 rest |-> IF err # "none" THEN s
                          ELSE SubSeq(s, (CHOOSE k \in ends : TRUE) + 1, p)]
  <2>1. second = parseSecond(s, n)
    BY <1>1, <1>7
  <2>2. PICK e : e = CASE n > MAX_CONTENT_SIZE -> "fatal"
                       [] n < -1 -> "panic"
                       [] n \in -1..MAX_CONTENT_SIZE /\ u[p] < n + 2 -> "short"
                       [] OTHER -> IF n = -1 THEN "panic"
                                   ELSE IF ends = {} THEN "fatal" ELSE "none"
    OBVIOUS
  <2>3. ~(n < -1) /\ n # -1 /\ (n \in -1..max <=> ~(n > max))
    OBVIOUS
  <2>4. e = err
    BY <1>9, <1>10, <1>11, <1>12, <2>2, <2>3
  <2>5. second = [err |-> e,
                  rest |-> IF e # "none" THEN s
                           ELSE SubSeq(s, (CHOOSE k \in ends : TRUE) + 1, p)]
    BY <1>2, <1>4, <1>8, <2>1, <2>2 DEF parseSecond
  <2> QED
    BY <2>4, <2>5
<1>14. (CHOOSE k \in ends : TRUE) = l
  BY <1>9
<1>15. SubSeq(s, l + 1, p) = b
  BY <1>1, <1>2, SkipContents
<1>16. second.err = err
  BY <1>13
<1>17. err = "none" => second.rest = b
  <2>1. err = "none" => second = [err |-> err, rest |-> SubSeq(s, l + 1, p)]
    BY <1>13, <1>14
  <2>2. err = "none" => second.rest = SubSeq(s, l + 1, p)
    BY <2>1
  <2> QED
    BY <1>15, <2>2
<1> QED
  BY <1>7, <1>11, <1>12, <1>16, <1>17


\* The rows of Format beside those of Form.
LEMMA Formats ==
  ASSUME NEW w \in Request
  PROVE  /\ w \in {"read", "write", "cas", "delete"} /\ w \in DOMAIN Form /\ w # ""
         /\ ~Form[w].response /\ Form[w].kind \in {"w", "c", "d", "r"}
         /\ Format[w].least \in {1, 2, 3} /\ Format[w].most \in Nat
         /\ Format[w].numbers =
              {Form[w].version, Form[w].numbytes, Form[w].exptime} \ {0}
         /\ \/ Form[w].min = Format[w].least + 1
            \/ Form[w].min = 1 /\ Format[w].least = 1
         /\ w = "cas" => Format[w].most = 4
         /\ {Form[w].version, Form[w].numbytes, Form[w].exptime} \subseteq Nat
<1>1. w \in {"read", "write", "cas", "delete"}
  BY DEF Request, Format
<1>2. CASE w = "read"
  BY <1>2 DEF Form, Format
<1>3. CASE w = "write"
  BY <1>3 DEF Form, Format
<1>4. CASE w = "cas"
  BY <1>4 DEF Form, Format
<1>5. CASE w = "delete"
  BY <1>5 DEF Form, Format
<1> QED
  BY <1>1, <1>2, <1>3, <1>4, <1>5

\* The fields of a line that is not too long are looked at.
LEMMA Numbers ==
  ASSUME NEW c \in Command, c.line.word \in Request
  PROVE  LET w == c.line.word
             places == {Form[w].version, Form[w].numbytes, Form[w].exptime}
         IN /\ NotANumber(c.line.args, places, w) => BadNumber(c)
            /\ BadNumber(c) /\ Len(c.line.args) <= Format[w].most =>
                 NotANumber(c.line.args, places, w)
<1>1. PICK w, args : w = c.line.word /\ args = c.line.args
  OBVIOUS
<1>2. PICK l \in Nat : l = Len(args)
  BY <1>1, CommandAssumption DEF Chunks
<1>3. PICK places : places = {Form[w].version, Form[w].numbytes, Form[w].exptime}
  OBVIOUS
<1>4. places \subseteq Nat /\ Format[w].numbers = places \ {0}
  BY <1>1, <1>3, Formats
<1>5. BadNumber(c) <=> \E p \in places : p # 0 /\ p <= l /\ args[p] = Word
  BY <1>1, <1>2, <1>4 DEF BadNumber
<1>6. NotANumber(args, places, w) <=>
        \E p \in places : p > 0 /\ p <= l /\ (w = "cas" /\ p = 4 => l = 4) /\ args[p] = Word
  BY <1>2 DEF NotANumber, Present
<1>7. ASSUME l <= Format[w].most, NEW p \in places, p # 0, p <= l
      PROVE  p > 0 /\ (w = "cas" /\ p = 4 => l = 4)
  <2>1. p \in Nat /\ p > 0
    BY <1>4, <1>7
  <2>2. w = "cas" => Format[w].most = 4
    BY <1>1, Formats
  <2> QED
    BY <1>7, <2>1, <2>2
<1>8. \A p \in places : p > 0 => p # 0
  BY <1>4
<1>9. NotANumber(args, places, w) => BadNumber(c)
  BY <1>5, <1>6, <1>8
<1>10. BadNumber(c) /\ l <= Format[w].most => NotANumber(args, places, w)
  BY <1>5, <1>6, <1>7
<1> QED
  BY <1>1, <1>2, <1>3, <1>9, <1>10

\* The fields of a line of a command are a sequence.
LEMMA Args ==
  ASSUME NEW c \in Command
  PROVE  /\ c.line.args \in Seq(Int \cup {Word}) /\ Len(c.line.args) \in Nat
         /\ c.line.args = <<>> => Len(c.line.args) = 0
         /\ Len(c.line.args) = 0 => c.line.args = <<>>
<1>1. c.line.args \in Seq(Int \cup {Word})
  BY CommandAssumption DEF Chunks
<1> QED
  BY <1>1, EmptySeq, LenProperties

\* A line that does not lose the place has the fields of its request.
LEMMA Enough ==
  ASSUME NEW c \in Command, c.line.word \in Request
  PROVE  /\ ~Lost(c.line) /\ c.line.args # <<>> =>
              ~(Len(c.line.args) < Format[c.line.word].least)
         /\ Right(c) => c.line.args # <<>> /\ ~Lost(c.line)
<1>1. PICK w, args : w = c.line.word /\ args = c.line.args
  OBVIOUS
<1>2. PICK l \in Nat : l = Len(args) /\ (args = <<>> <=> l = 0)
  BY <1>1, Args
<1>3. PICK least \in {1, 2, 3}, min \in Nat :
        /\ least = Format[w].least /\ min = Form[w].min
        /\ min = least + 1 \/ (min = 1 /\ least = 1)
  <2>1. /\ w \in DOMAIN Form /\ Format[w].least \in {1, 2, 3}
        /\ \/ Form[w].min = Format[w].least + 1
           \/ Form[w].min = 1 /\ Format[w].least = 1
    BY <1>1, Formats
  <2>2. Form[w].min \in Nat
    BY <2>1, Forms
  <2> QED
    BY <2>1, <2>2
<1>4. ~Lost(c.line) => ~(l + 1 < min)
  BY <1>1, <1>2, <1>3 DEF Lost
<1>5. ~Lost(c.line) /\ args # <<>> => ~(l < least)
  BY <1>2, <1>3, <1>4
<1>6. Right(c) => l >= least
  <2>1. Right(c) => l \in least..Format[w].most
    BY <1>1, <1>2, <1>3 DEF Right
  <2>2. Format[w].most \in Nat
    BY <1>1, Formats
  <2> QED
    BY <1>3, <2>1, <2>2
<1>7. Right(c) => args # <<>> /\ ~(l + 1 < min)
  BY <1>2, <1>3, <1>6
<1>8. Right(c) => ~NotANumber(args, {Form[w].numbytes}, w)
  <2>1. Right(c) => ~BadNumber(c)
    BY DEF Right
  <2>2. Right(c) => ~NotANumber(args, {Form[w].version, Form[w].numbytes, Form[w].exptime}, w)
    BY <1>1, <2>1, Numbers
  <2> QED
    BY <2>2 DEF NotANumber
<1>9. Right(c) => ~Lost(c.line)
  BY <1>1, <1>2, <1>3, <1>7, <1>8 DEF Lost
<1> QED
  BY <1>1, <1>2, <1>3, <1>5, <1>7, <1>9

\* The number of bytes in a line that does not lose the place is a number, and
\* if it is no lie it is that of the contents.
LEMMA Numbytes ==
  ASSUME NEW c \in Command, c.line.word \in DOMAIN Announced, ~Lost(c.line), ~Lies(c),
         NEW m, Reads(m, c.line)
  PROVE  m.numbytes = Length(c.contents)
<1>1. PICK w, args, p : w = c.line.word /\ args = c.line.args /\ p = Announced[w]
  OBVIOUS
<1>2. PICK l \in Nat : l = Len(args)
  BY <1>1, Args
<1>3. p \in {2, 3} /\ p = Form[w].numbytes /\ p < Form[w].min /\ Form[w].min \in Nat
  BY <1>1, Forms
<1>4. PICK min \in Nat : min = Form[w].min
  BY <1>3
<1>5. ~(l + 1 < min) /\ ~NotANumber(args, {p}, w)
  BY <1>1, <1>2, <1>3, <1>4 DEF Lost
<1>6. p > 0 /\ p <= l /\ p # 4
  BY <1>3, <1>4, <1>5
<1>7. Present(args, p, w)
  BY <1>2, <1>6 DEF Present
<1>8. args[p] # Word
  BY <1>5, <1>7 DEF NotANumber
<1>9. m.numbytes = args[p]
  BY <1>1, <1>3, <1>7, <1>8 DEF Reads, toInt
<1>10. args[p] = Length(c.contents)
  BY <1>1, <1>2, <1>6, <1>8 DEF Lies
<1> QED
  BY <1>9, <1>10

\* GetMsg takes a command that does not lie, and nothing else, off a stream that
\* goes on with rest. It finds no mistake in a right one, and in one with a
\* mistake that msg.go names it finds one.
Takes(g, c, rest) ==
  /\ g.err \in {"none", "msg", "fatal", "panic"}
  /\ g.err \in {"none", "msg"} => g.rest = rest
  /\ g.err = "none" => ~Mistaken(c)
  /\ g.err # "none" => ~Right(c)
  /\ g.err = "none" /\ c.line.word \in Request => g.msg.kind \in {"w", "c", "d", "r"}

\* An error of the message only is a mistake, and without one there is none.
LEMMA Errors ==
  ASSUME NEW c \in Command, c.line.word \in DOMAIN Form, ~Lost(c.line),
         NEW m, Reads(m, c.line), Form[c.line.word].response \/ c.line.args # <<>>
  PROVE  /\ m.err \in {"none", "msg"}
         /\ m.err = "msg" => ~Right(c)
         /\ m.err = "none" /\ ~TooLong(c) => ~Mistaken(c)
<1>1. PICK w, args : w = c.line.word /\ args = c.line.args
  OBVIOUS
<1> DEFINE Bad == NotANumber(args, {Form[w].version, Form[w].exptime}, w)
<1>2. m.err = IF Bad THEN "msg" ELSE "none"
  BY <1>1 DEF Reads
<1>3. w \in Request =>
        (Bad <=> NotANumber(args, {Form[w].version, Form[w].numbytes, Form[w].exptime}, w))
  BY <1>1 DEF Lost, NotANumber
<1>4. w \in Request /\ Bad => BadNumber(c)
  BY <1>1, <1>3, Numbers
<1>5. Right(c) => w \in Request /\ ~BadNumber(c)
  BY <1>1 DEF Right
<1>6. w \in Request \cup Reply
  BY <1>1, Forms DEF Request, Format, Reply
<1>7. w \in Request => ~(Len(args) < Format[w].least)
  BY <1>1, Formats, Enough
<1>8. w \in Request /\ ~Bad => ~(Len(args) <= Format[w].most /\ BadNumber(c))
  BY <1>1, <1>3, Numbers
<1>9. m.err = "none" => ~Bad
  BY <1>2
<1>10. m.err = "none" /\ ~TooLong(c) => ~Mistaken(c)
  BY <1>1, <1>6, <1>7, <1>8, <1>9 DEF Mistaken
<1>11. m.err = "msg" => Bad
  BY <1>2
<1> QED
  BY <1>2, <1>4, <1>5, <1>10, <1>11

LEMMA Parse ==
  ASSUME NEW c \in Command, ~Lies(c), NEW rest \in Seq(Chunks)
  PROVE  Takes(GetMsg(Unit(c) \o rest), c, rest)
<1>1. PICK m : m = parseFirst(c.line)
  OBVIOUS
<1>2. PICK stream : stream = Unit(c) \o rest
  OBVIOUS
<1>3. PICK g : g = GetMsg(stream)
  OBVIOUS
<1>4. Head(stream) = c.line
  BY <1>2, UnitAhead
<1> SUFFICES Takes(g, c, rest)
  BY <1>2, <1>3
<1>5. g.msg = m
  BY <1>1, <1>3, <1>4 DEF GetMsg
<1>6. CASE m.err \notin {"none", "msg"}
  <2>1. g.err = m.err
    BY <1>1, <1>3, <1>4, <1>6 DEF GetMsg
  <2>2. \/ m.err = "panic" /\ (c.line.word = "" \/ c.line.args = <<>>)
        \/ m.err = "fatal" /\ (c.line.word \notin DOMAIN Form \/ Lost(c.line))
    BY <1>1, <1>6, FirstFacts DEF Reads
  <2>3. c.line.word \notin DOMAIN Form => ~Right(c)
    BY Formats DEF Right
  <2>4. Right(c) => c.line.word \in Request
    BY DEF Right
  <2>5. c.line.word = "" \/ c.line.args = <<>> \/ Lost(c.line) => ~Right(c)
    BY <2>4, Formats, Enough
  <2>6. g.err \in {"panic", "fatal"} /\ ~Right(c)
    BY <2>1, <2>2, <2>3, <2>5
  <2> QED
    BY <2>6 DEF Takes
<1>7. CASE m.err \in {"none", "msg"}
  <2>1. /\ c.line.word \in DOMAIN Form /\ ~Lost(c.line) /\ Reads(m, c.line)
        /\ Form[c.line.word].response \/ c.line.args # <<>>
    BY <1>1, <1>7, FirstFacts
  <2>2. m.err = "msg" => ~Right(c)
    BY <2>1, Errors
  <2>3. m.err = "none" /\ ~TooLong(c) => ~Mistaken(c)
    BY <2>1, Errors
  <2>4. c.line.word \in Request => m.kind \in {"w", "c", "d", "r"}
    BY <2>1, Formats DEF Reads
  <2>5. HasContents(m) <=> c.line.word \in DOMAIN Announced
    BY <2>1, Forms DEF HasContents, Reads
  <2>6. Tail(stream) = c.contents \o rest
    BY <1>2, UnitAhead
  <2>7. CASE c.line.word \notin DOMAIN Announced
    <3>1. g.err = m.err /\ g.rest = rest
      BY <1>1, <1>2, <1>3, <1>4, <2>5, <2>7, UnitAhead DEF GetMsg
    <3>2. ~TooLong(c)
      BY <2>7, CommandAssumption DEF TooLong
    <3> QED
      BY <1>5, <1>7, <2>2, <2>3, <2>4, <3>1, <3>2 DEF Takes
  <2>8. CASE c.line.word \in DOMAIN Announced
    <3>1. c.contents \in Seq(Chunks) /\ c.contents # <<>>
      BY <2>8, CommandAssumption
    <3>2. m.numbytes = Length(c.contents)
      BY <2>1, <2>8, Numbytes
    <3>3. PICK second : second = parseSecond(c.contents \o rest, Length(c.contents))
      OBVIOUS
    <3>4. /\ Length(c.contents) \in Nat
          /\ Length(c.contents) > MAX_CONTENT_SIZE => second.err = "fatal"
          /\ Length(c.contents) <= MAX_CONTENT_SIZE =>
               second.err = "none" /\ second.rest = rest
      <4>1. Sized(Chunks)
        BY DEF Sized, Chunks
      <4> QED
        BY <3>1, <3>3, <4>1, SecondFacts
    <3>5. /\ g.err = IF second.err = "none" THEN m.err ELSE second.err
          /\ g.rest = second.rest
      BY <1>1, <1>3, <1>4, <1>7, <2>5, <2>6, <2>8, <3>2, <3>3 DEF GetMsg
    <3>6. CASE Length(c.contents) > MAX_CONTENT_SIZE
      <4>1. g.err = "fatal"
        BY <3>4, <3>5, <3>6
      <4>2. ~Right(c)
        BY <3>1, <3>6 DEF Right, TooLong
      <4> QED
        BY <4>1, <4>2 DEF Takes
    <3>7. CASE Length(c.contents) <= MAX_CONTENT_SIZE
      <4>1. g.err = m.err /\ g.rest = rest
        BY <3>4, <3>5, <3>7
      <4>2. ~TooLong(c)
        BY <3>4, <3>7, SizeAssumption DEF TooLong
      <4> QED
        BY <1>5, <1>7, <2>2, <2>3, <2>4, <4>1, <4>2 DEF Takes
    <3> QED
      BY <3>4, <3>6, <3>7, SizeAssumption
  <2> QED
    BY <2>7, <2>8
<1> QED
  BY <1>6, <1>7
-----------------------------------------------------------------------------
(* The invariant *)

\* The messages reply may be given, whatever they are the response to.
Tells(m) ==
  /\ m \in [kind : {"C", "F", "O", "V", "M", "R"}, version : Nat,
            numbytes : 0..MAX_CONTENT_SIZE, exptime : {0}, of : Nat]
  /\ m.kind # "C" => m.numbytes = 0
  /\ m.kind \in {"F", "M"} => m.version = 0

\* What ProcessMsg returns.
Returned(m) == Tells(m) /\ m.kind \in {"C", "F", "O", "V"}

\* m says of command k what it should.
Answers(m, k) ==
  /\ k \in {1, 2, 3}
  /\ Right(cmds[k]) => m.kind # "M"
  /\ Mistaken(cmds[k]) => m.kind = "M"
  /\ cmds[k].line.word \in Request /\ m.kind # "M" => m.of = k

Sent == [to : Nat, msg : [kind : {"C", "F", "O", "V", "M", "R"}, version : Nat,
                          numbytes : 0..MAX_CONTENT_SIZE, exptime : {0}, of : Nat]]

\* The replies are those of the commands, in their order.
Ordered ==
  \A k \in 1..Len(sent) :
    /\ sent[k].to = k /\ Tells(sent[k].msg)
    /\ Honest(k) => Answers(sent[k].msg, k)

\* How far serve has come: while it goes on, each command has its reply before the
\* next is read.
Counted ==
  /\ served \in Nat /\ pc \in {"reading", "waiting", "closed", "crashed"}
  /\ sent \in Seq(Sent)
  /\ Len(sent) <= served
  /\ pc = "reading" => Len(sent) = served
  /\ pc = "waiting" => Len(sent) + 1 = served /\ msg.kind \in {"w", "c", "d"}
  /\ pc # "waiting" => msg = NoMsg
  /\ response # Nil => Returned(response)

\* As long as no command has lied, serve is where the command it has taken last
\* ends; it waits for one without a mistake, and has been ended by one with one.
Placed ==
  Honest(served) =>
    /\ served \in {0, 1, 2, 3}
    /\ pc \in {"reading", "waiting"} =>
         input = Stream(SubSeq(cmds, served + 1, Len(cmds)))
    /\ pc = "waiting" => served # 0 /\ ~Mistaken(cmds[served])
    /\ pc = "crashed" => served # 0 /\ ~Right(cmds[served])

SInv ==
  /\ cmds \in Command \X Command \X Command
  /\ Ordered /\ Counted /\ Placed

LEMMA SInvImplies == SInv => TypeOK /\ InStep /\ OwnReplies
<1> SUFFICES ASSUME SInv
             PROVE  TypeOK /\ InStep /\ OwnReplies
  OBVIOUS
<1>1. Len(cmds) = 3
  BY DEF SInv
<1>2. TypeOK
  <2>1. msg # NoMsg <=> pc = "waiting"
    BY DEF SInv, Counted, NoMsg
  <2> QED
    BY <2>1 DEF SInv, Counted, TypeOK
<1>3. InStep
  BY <1>1 DEF SInv, Placed, InStep
<1>4. OwnReplies
  <2>1. pc = "crashed" /\ Honest(served) =>
          served \in 1..Len(cmds) /\ ~Right(cmds[served])
    BY <1>1 DEF SInv, Placed
  <2> QED
    BY <2>1, <1>1 DEF SInv, Ordered, OwnReplies, Answers
<1> QED
  BY <1>2, <1>3, <1>4

\* A message that is returned, and the refusal, are no Nil.
LEMMA NotNil ==
  ASSUME NEW m, Tells(m)
  PROVE  m # Nil
<1>1. m \in Messages
  <2>1. 0..MAX_CONTENT_SIZE \subseteq Nat /\ {0} \subseteq Nat
    BY SizeAssumption
  <2>2. m \in [kind : {"C", "F", "O", "V", "M", "R"}, version : Nat,
                numbytes : 0..MAX_CONTENT_SIZE, exptime : {0}, of : Nat]
    BY DEF Tells
  <2> QED
    BY <2>1, <2>2 DEF Messages
<1> QED
  BY <1>1, NilAssumption

\* What ProcessMsg returns.
LEMMA ResponsesFacts ==
  ASSUME NEW kind \in {"r", "w", "c", "d"}, NEW k \in Nat, NEW m \in Responses(kind, k)
  PROVE  Returned(m) /\ m.of = k
<1>1. /\ \A v \in Version : v \in Nat /\ \A n \in Size : n \in 0..MAX_CONTENT_SIZE
      /\ 0 \in 0..MAX_CONTENT_SIZE
  BY FileAssumption, SizeAssumption
<1>2. CASE kind = "r"
  <2>1. \/ \E v \in Version, n \in Size : m = Message("C", v, n, k)
        \/ m = Message("F", 0, 0, k)
    BY <1>2 DEF Responses
  <2> QED
    BY <1>1, <2>1 DEF Message, Tells, Returned
<1>3. CASE kind = "w"
  <2>1. \E v \in Version : m = Message("O", v, 0, k)
    BY <1>3 DEF Responses
  <2> QED
    BY <1>1, <2>1 DEF Message, Tells, Returned
<1>4. CASE kind = "c"
  <2>1. \E o \in {"O", "V"}, v \in Version : m = Message(o, v, 0, k)
    BY <1>4 DEF Responses
  <2> QED
    BY <1>1, <2>1 DEF Message, Tells, Returned
<1>5. CASE kind = "d"
  <2>1. m = Message("O", 0, 0, k) \/ m = Message("F", 0, 0, k)
    BY <1>5 DEF Responses
  <2> QED
    BY <1>1, <2>1 DEF Message, Tells, Returned
<1> QED
  BY <1>2, <1>3, <1>4, <1>5

\* reply writes the answer of the command just taken, or ends the connection.
LEMMA ReplyStep ==
  ASSUME SInv, cmds' = cmds, served' \in Nat, Len(sent) + 1 = served',
         NEW m, NEW next \in {"reading", "closed"},
         m # Nil => Tells(m) /\ (Honest(served') => Answers(m, served')),
         \/ m # Nil /\ sent' = Append(sent, [to |-> served', msg |-> m]) /\ pc' = next
         \/ m # Nil /\ pc' = "closed" /\ sent' = sent
         \/ m = Nil /\ pc' = "crashed" /\ sent' = sent
  PROVE  /\ sent' \in Seq(Sent) /\ Len(sent') <= served'
         /\ Ordered' /\ pc' \in {"reading", "closed", "crashed"}
         /\ pc' = "reading" => Len(sent') = served'
<1>0. sent \in Seq(Sent) /\ Len(sent) \in Nat /\ Len(sent) <= served'
  BY DEF SInv, Counted
<1>1. Ordered
  BY DEF SInv
<1>2. CASE sent' = sent
  <2>1. Ordered'
    BY <1>1, <1>2 DEF Ordered, Answers, Honest, Tells
  <2> QED
    BY <1>0, <1>2, <2>1
<1>3. CASE m # Nil /\ sent' = Append(sent, [to |-> served', msg |-> m]) /\ pc' = next
  <2>1. PICK e : e = [to |-> served', msg |-> m]
    OBVIOUS
  <2>2. e \in Sent
    BY <1>3, <2>1 DEF Tells, Sent
  <2>3. /\ sent' \in Seq(Sent) /\ Len(sent') = served' /\ sent'[served'] = e
        /\ \A k \in 1..Len(sent) : sent'[k] = sent[k]
    BY <1>0, <1>3, <2>1, <2>2, AppendProperties
  <2>4. ASSUME NEW k \in 1..Len(sent'), NEW d, d = sent'[k]
        PROVE  d.to = k /\ Tells(d.msg) /\ (Honest(k) => Answers(d.msg, k))
    <3>1. CASE k = served'
      BY <1>3, <2>1, <2>3, <2>4, <3>1
    <3>2. CASE k # served'
      <4>1. k \in 1..Len(sent)
        BY <1>0, <2>3, <3>2
      <4> QED
        BY <1>1, <2>3, <2>4, <4>1 DEF Ordered
    <3> QED
      BY <3>1, <3>2
  <2>5. \A k \in 1..Len(sent') :
          /\ sent'[k].to = k /\ Tells(sent'[k].msg)
          /\ Honest(k) => Answers(sent'[k].msg, k)
    BY <2>4
  <2>6. Ordered'
    BY <2>5 DEF Ordered, Answers, Honest, Tells
  <2> QED
    BY <1>3, <2>3, <2>6
<1> QED
  BY <1>2, <1>3
-----------------------------------------------------------------------------
(* Steps *)

\* What a step that ends in a reply leaves.
LEMMA Replying ==
  ASSUME SInv, cmds' = cmds, served' \in Nat, Len(sent) + 1 = served',
         Honest(served') => served' \in {1, 2, 3},
         Honest(served') /\ pc' = "reading" =>
           input' = Stream(SubSeq(cmds, served' + 1, Len(cmds))),
         msg' = NoMsg, response' # Nil => Returned(response'),
         NEW m, NEW next \in {"reading", "closed"},
         m # Nil => Tells(m) /\ (Honest(served') => Answers(m, served')),
         m = Nil => (Honest(served') => ~Right(cmds[served'])),
         \/ m # Nil /\ sent' = Append(sent, [to |-> served', msg |-> m]) /\ pc' = next
         \/ m # Nil /\ pc' = "closed" /\ sent' = sent
         \/ m = Nil /\ pc' = "crashed" /\ sent' = sent
  PROVE  SInv'
<1>1. /\ sent' \in Seq(Sent) /\ Len(sent') <= served'
      /\ Ordered' /\ pc' \in {"reading", "closed", "crashed"}
      /\ pc' = "reading" => Len(sent') = served'
  BY ReplyStep
<1>2. cmds' \in Command \X Command \X Command
  BY DEF SInv
<1>3. (response # Nil => Returned(response))'
  BY DEF Returned, Tells
<1>4. Counted'
  BY <1>1, <1>3 DEF Counted
<1>5. pc' = "crashed" => m = Nil
  OBVIOUS
<1>6. Placed'
  <2> SUFFICES ASSUME Honest(served)'
               PROVE  /\ served' \in {0, 1, 2, 3}
                      /\ pc' \in {"reading", "waiting"} =>
                           input' = Stream(SubSeq(cmds, served' + 1, Len(cmds)))
                      /\ pc' = "waiting" => served' # 0 /\ ~Mistaken(cmds[served'])
                      /\ pc' = "crashed" => served' # 0 /\ ~Right(cmds[served'])
    BY DEF Placed, Honest, Mistaken, Right, BadNumber, Lies, TooLong
  <2>1. Honest(served')
    BY DEF Honest
  <2> QED
    BY <1>1, <1>5, <2>1
<1> QED
  BY <1>1, <1>2, <1>4, <1>6 DEF SInv

LEMMA ServeStep ==
  ASSUME SInv, serve
  PROVE  SInv'
<1>1. /\ cmds \in Command \X Command \X Command /\ served \in Nat
      /\ input # <<>> /\ pc = "reading" /\ sent \in Seq(Sent)
      /\ Len(sent) = served /\ msg = NoMsg
      /\ response # Nil => Returned(response)
  BY DEF SInv, Counted, serve
<1>2. served' = served + 1 /\ cmds' = cmds
  BY DEF serve
<1>3. PICK n \in Nat : n = served' /\ n = served + 1 /\ n + 1 = served + 2
  BY <1>1, <1>2
<1>4. PICK g : g = GetMsg(input)
  OBVIOUS
<1>5. PICK c, rest : c = cmds[n] /\ rest = Stream(SubSeq(cmds, n + 1, Len(cmds)))
  OBVIOUS
<1>6. ASSUME Honest(n)
      PROVE  /\ n \in {1, 2, 3} /\ c \in Command /\ rest \in Seq(Chunks)
             /\ Takes(g, c, rest)
             /\ g.err = "none" /\ g.msg.kind \notin {"w", "c", "d", "r"} =>
                  c.line.word \notin Request
  <2>1. Honest(served)
    BY <1>1, <1>3, <1>6 DEF Honest
  <2>2. /\ served \in {0, 1, 2, 3}
        /\ input = Stream(SubSeq(cmds, served + 1, Len(cmds)))
    BY <1>1, <2>1 DEF SInv, Placed
  <2>3. served # 3
    BY <1>1, <2>2, Left
  <2>4. n \in {1, 2, 3} /\ n \in 1..3
    BY <1>3, <2>2, <2>3
  <2>5. c \in Command /\ ~Lies(c)
    <3>1. Len(cmds) = 3 /\ \A k \in 1..3 : cmds[k] \in Command
      BY <1>1, <2>2, Left
    <3> QED
      BY <1>5, <1>6, <2>4, <3>1 DEF Honest
  <2>6. rest \in Seq(Chunks)
    BY <1>1, <1>5, <2>4, Left
  <2>7. input = Unit(c) \o rest
    BY <1>1, <1>3, <1>5, <2>2, <2>3, Left
  <2>8. Takes(g, c, rest)
    BY <1>4, <2>5, <2>6, <2>7, Parse
  <2> QED
    BY <2>4, <2>5, <2>6, <2>8 DEF Takes
<1>7. Tells(Refusal) /\ Refusal.kind = "M"
  BY SizeAssumption DEF Refusal, Message, Tells
<1>8. Refusal # Nil
  BY <1>7, NotNil
<1>9. CASE g.err = "panic" /\ pc' = "crashed" /\ UNCHANGED <<msg, response, sent>>
  <2>1. Ordered'
    BY <1>2, <1>9 DEF SInv, Ordered, Answers, Honest, Tells
  <2>2. Counted'
    BY <1>1, <1>3, <1>9 DEF Counted, Returned, Tells
  <2>3. ASSUME Honest(n)
        PROVE  n \in {1, 2, 3} /\ ~Right(cmds[n])
    BY <1>5, <1>6, <1>9, <2>3 DEF Takes
  <2>4. Placed'
    <3>1. Honest(served)' <=> Honest(n)
      BY <1>2, <1>3 DEF Honest
    <3>2. Right(cmds[served])' <=> Right(cmds[n])
      BY <1>2, <1>3 DEF Right, BadNumber, Lies, TooLong
    <3> QED
      BY <1>3, <1>9, <2>3, <3>1, <3>2 DEF Placed
  <2> QED
    BY <1>1, <1>2, <2>1, <2>2, <2>4 DEF SInv
<1>10. ASSUME g.err \in {"fatal", "msg"}, NEW next \in {"reading", "closed"},
              reply(Refusal, next), UNCHANGED <<msg, response>>,
              g.err = "fatal" => next = "closed", input' = g.rest
       PROVE  SInv'
  <2>1. Honest(n) => n \in {1, 2, 3} /\ Answers(Refusal, n)
    BY <1>5, <1>6, <1>7, <1>10 DEF Answers, Takes
  <2>2. Honest(n) /\ pc' = "reading" =>
          input' = Stream(SubSeq(cmds, n + 1, Len(cmds)))
    <3>1. Honest(n) /\ g.err = "msg" => g.rest = rest
      BY <1>6 DEF Takes
    <3>2. pc' = "reading" => next = "reading"
      BY <1>8, <1>10 DEF reply
    <3> QED
      BY <1>5, <1>10, <3>1, <3>2
  <2>3. PICK m : m = Refusal
    OBVIOUS
  <2>4. \/ m # Nil /\ sent' = Append(sent, [to |-> served', msg |-> m]) /\ pc' = next
        \/ m # Nil /\ pc' = "closed" /\ sent' = sent
        \/ m = Nil /\ pc' = "crashed" /\ sent' = sent
    BY <1>10, <2>3 DEF reply
  <2> QED
    BY <1>1, <1>2, <1>3, <1>7, <1>8, <1>10, <2>1, <2>2, <2>3, <2>4, Replying
<1>11. ASSUME g.err = "none", g.msg.kind \in {"w", "c", "d"}, msg' = g.msg, pc' = "waiting",
              UNCHANGED <<response, sent>>, input' = g.rest
       PROVE  SInv'
  <2>1. Ordered'
    BY <1>2, <1>11 DEF SInv, Ordered, Answers, Honest, Tells
  <2>2. Counted'
    BY <1>1, <1>3, <1>11 DEF Counted, Returned, Tells
  <2>3. ASSUME Honest(n)
        PROVE  n \in {1, 2, 3} /\ ~Mistaken(cmds[n]) /\ g.rest = rest
    BY <1>5, <1>6, <1>11, <2>3 DEF Takes
  <2>4. Placed'
    <3>1. Honest(served)' <=> Honest(n)
      BY <1>2, <1>3 DEF Honest
    <3>2. Mistaken(cmds[served])' <=> Mistaken(cmds[n])
      BY <1>2, <1>3 DEF Mistaken, BadNumber, TooLong
    <3>3. Honest(n) => input' = Stream(SubSeq(cmds', served' + 1, Len(cmds')))
      BY <1>2, <1>3, <1>5, <1>11, <2>3
    <3> QED
      BY <1>3, <1>11, <2>3, <3>1, <3>2, <3>3 DEF Placed
  <2> QED
    BY <1>1, <1>2, <2>1, <2>2, <2>4 DEF SInv
<1>12. ASSUME g.err = "none", NEW m, m = response', reply(m, "reading"), msg' = msg,
              input' = g.rest, m # Nil => Returned(m),
              Honest(n) /\ m # Nil => (c.line.word \in Request => m.of = n),
              Honest(n) /\ m = Nil => c.line.word \notin Request
       PROVE  SInv'
  <2>1. Honest(n) => n \in {1, 2, 3} /\ ~Mistaken(c) /\ g.rest = rest
    BY <1>6, <1>12 DEF Takes
  <2>2. m # Nil => Tells(m) /\ (Honest(n) => Answers(m, n))
    BY <1>5, <1>12, <2>1 DEF Answers, Returned
  <2>3. Honest(n) => input' = Stream(SubSeq(cmds, n + 1, Len(cmds)))
    BY <1>5, <1>12, <2>1
  <2>4. \/ m # Nil /\ sent' = Append(sent, [to |-> served', msg |-> m]) /\ pc' = "reading"
        \/ m # Nil /\ pc' = "closed" /\ sent' = sent
        \/ m = Nil /\ pc' = "crashed" /\ sent' = sent
    BY <1>12 DEF reply
  <2>5. m = Nil => (Honest(n) => ~Right(cmds[n]))
    BY <1>5, <1>12 DEF Right
  <2> QED
    BY <1>1, <1>2, <1>3, <1>12, <2>1, <2>2, <2>3, <2>4, <2>5, Replying
<1>13. CASE g.err = "none" /\ g.msg.kind = "r" /\ input' = g.rest
             /\ response' \in Responses("r", served') /\ reply(response', "reading")
             /\ UNCHANGED msg
  <2>1. PICK m : m = response'
    OBVIOUS
  <2>2. reply(m, "reading")
    BY <1>13, <2>1 DEF reply
  <2>3. m \in Responses("r", n)
    BY <1>3, <1>13, <2>1
  <2>4. Returned(m) /\ m.of = n
    BY <2>3, ResponsesFacts
  <2>5. m # Nil
    BY <2>4, NotNil DEF Returned
  <2> QED
    BY <1>12, <1>13, <2>1, <2>2, <2>4, <2>5
<1>14. CASE g.err = "none" /\ g.msg.kind \notin {"w", "c", "d", "r"} /\ input' = g.rest
             /\ reply(response, "reading") /\ UNCHANGED <<msg, response>>
  <2>1. PICK m : m = response'
    OBVIOUS
  <2>2. reply(m, "reading")
    BY <1>14, <2>1 DEF reply
  <2>3. Honest(n) => c.line.word \notin Request
    BY <1>6, <1>14
  <2> QED
    BY <1>1, <1>12, <1>14, <2>1, <2>2, <2>3
<1> QED
  BY <1>4, <1>9, <1>10, <1>11, <1>13, <1>14 DEF serve, Refuses

\* The command that serve waits for has its answer.
LEMMA AnsweredStep ==
  ASSUME SInv, pc = "waiting", UNCHANGED <<cmds, input, served>>, msg' = NoMsg,
         response' # Nil => Returned(response'),
         NEW m, Tells(m), m.kind # "M", m.of = served, NEW next \in {"reading", "closed"},
         reply(m, next)
  PROVE  SInv'
<1>1. /\ served \in Nat /\ served' = served /\ Len(sent) + 1 = served'
      /\ m # Nil
  BY NotNil DEF SInv, Counted
<1>2. PICK n \in Nat : n = served
  BY <1>1
<1>3. ASSUME Honest(n)
      PROVE  /\ n \in {1, 2, 3} /\ ~Mistaken(cmds[n])
             /\ input = Stream(SubSeq(cmds, n + 1, Len(cmds)))
  BY <1>2, <1>3 DEF SInv, Placed
<1>4. Honest(n) => Answers(m, n)
  BY <1>2, <1>3 DEF Answers
<1>5. \/ m # Nil /\ sent' = Append(sent, [to |-> served', msg |-> m]) /\ pc' = next
      \/ m # Nil /\ pc' = "closed" /\ sent' = sent
      \/ m = Nil /\ pc' = "crashed" /\ sent' = sent
  BY DEF reply
<1> QED
  BY <1>1, <1>2, <1>3, <1>4, <1>5, Replying

LEMMA CommittedStep ==
  ASSUME SInv, Committed
  PROVE  SInv'
<1>1. /\ pc = "waiting" /\ UNCHANGED <<cmds, input, served>> /\ msg' = NoMsg
      /\ msg.kind \in {"r", "w", "c", "d"} /\ served \in Nat
  BY DEF SInv, Counted, Committed
<1>2. PICK m : m = response'
  OBVIOUS
<1>3. m \in Responses(msg.kind, served) /\ reply(m, "reading")
  BY <1>2 DEF Committed, reply
<1>4. Returned(m) /\ m.of = served
  BY <1>1, <1>3, ResponsesFacts
<1>5. Tells(m) /\ m.kind # "M"
  BY <1>4 DEF Returned
<1> QED
  BY <1>1, <1>2, <1>3, <1>4, <1>5, AnsweredStep

LEMMA RedirectedStep ==
  ASSUME SInv, Redirected
  PROVE  SInv'
<1>1. /\ pc = "waiting" /\ UNCHANGED <<cmds, input, served>> /\ msg' = NoMsg
      /\ served \in Nat
      /\ response' # Nil => Returned(response')
  BY DEF SInv, Counted, Redirected
<1>2. PICK n \in Nat : n = served
  BY <1>1
<1>3. PICK m : m = Message("R", 0, 0, n)
  OBVIOUS
<1>4. Tells(m) /\ m.kind # "M" /\ m.of = n
  <2>1. 0 \in 0..MAX_CONTENT_SIZE
    BY SizeAssumption
  <2>2. m = [kind |-> "R", version |-> 0, numbytes |-> 0, exptime |-> 0, of |-> n]
    BY <1>3 DEF Message
  <2> QED
    BY <2>1, <2>2 DEF Tells
<1>5. reply(m, "closed")
  BY <1>2, <1>3 DEF Redirected, reply
<1> QED
  BY <1>1, <1>2, <1>4, <1>5, AnsweredStep

LEMMA InitInv == Init => SInv
<1> SUFFICES ASSUME Init
             PROVE  SInv
  OBVIOUS
<1>1. /\ cmds \in Command \X Command \X Command /\ input = Stream(cmds) /\ served = 0
      /\ pc = "reading" /\ msg = NoMsg /\ response = Nil /\ sent = <<>>
  BY DEF Init
<1>2. Len(cmds) = 3
  BY <1>1
<1>3. SubSeq(cmds, served + 1, Len(cmds)) = cmds
  <2>1. cmds \in Seq(Command)
    <3>1. PICK a \in Command, b \in Command, c \in Command : cmds = <<a, b, c>>
      BY <1>1
    <3>2. <<a, b, c>> \in Seq(Command)
      OBVIOUS
    <3> QED
      BY <3>1, <3>2
  <2> QED
    BY <1>1, <1>2, <2>1, SubSeqFull
<1>4. Ordered /\ sent \in Seq(Sent) /\ Len(sent) = 0
  BY <1>1 DEF Ordered
<1>5. Counted
  BY <1>1, <1>4 DEF Counted
<1>6. Placed
  BY <1>1, <1>3 DEF Placed
<1> QED
  BY <1>1, <1>4, <1>5, <1>6 DEF SInv

LEMMA StepInv == SInv /\ [Next]_vars => SInv'
<1> SUFFICES ASSUME SInv, [Next]_vars
             PROVE  SInv'
  OBVIOUS
<1>1. CASE serve
  BY <1>1, ServeStep
<1>2. CASE Committed
  BY <1>2, CommittedStep
<1>3. CASE Redirected
  BY <1>3, RedirectedStep
<1>4. CASE HangUp
  <2>1. /\ pc = "reading" /\ pc' = "closed"
        /\ UNCHANGED <<cmds, input, served, msg, response, sent>>
    BY <1>4 DEF HangUp
  <2>2. Ordered'
    BY <2>1 DEF SInv, Ordered, Answers, Honest, Tells
  <2>3. Counted'
    BY <2>1 DEF SInv, Counted, Returned, Tells
  <2>4. Placed'
    BY <2>1 DEF SInv, Placed, Honest
  <2> QED
    BY <2>1, <2>2, <2>3, <2>4 DEF SInv
<1>5. CASE UNCHANGED vars
  <2>1. Ordered'
    BY <1>5 DEF SInv, Ordered, Answers, Honest, Tells, vars
  <2>2. Counted'
    BY <1>5 DEF SInv, Counted, Returned, Tells, vars
  <2>3. Placed'
    BY <1>5 DEF SInv, Placed, Honest, vars
  <2> QED
    BY <1>5, <2>1, <2>2, <2>3 DEF SInv, vars
<1> QED
  BY <1>1, <1>2, <1>3, <1>4, <1>5 DEF Next

\* SInv holds throughout, for any three commands of a client.
THEOREM Invariant == Spec => []SInv
<1>1. Init => SInv
  BY InitInv
<1>2. SInv /\ [Next]_vars => SInv'
  BY StepInv
<1> QED
  BY <1>1, <1>2, PTL DEF Spec

\* TypeOK holds throughout: serve waits only for what is replicated.
THEOREM TypeCorrect == Spec => []TypeOK
  BY Invariant, SInvImplies, PTL

\* InStep holds throughout: whatever mistakes serve has refused, it reads the
\* next command from its start, as long as none has announced other contents than
\* followed.
THEOREM PlaceKept == Spec => []InStep
  BY Invariant, SInvImplies, PTL

\* OwnReplies holds throughout: a reply is to the command in the same place,
\* refuses none that is right and each with a mistake that msg.go names, and says
\* what was done for that command, and no right command ends the process, under
\* the premise of InStep.
THEOREM RepliesBelong == Spec => []OwnReplies
  BY Invariant, SInvImplies, PTL
-----------------------------------------------------------------------------
(* What the client reads back *)

\* g is what reply told with m, read to its end.
Back(g, m) ==
  /\ g.err = "none" /\ g.rest = <<>>
  /\ g.msg.kind = m.kind /\ g.msg.version = m.version
  /\ g.msg.numbytes = m.numbytes

\* The rows of Form for replies of one line.
LEMMA ReplyForms ==
  ASSUME NEW word \in {"OK", "ERR_VERSION", "ERR_FILE_NOT_FOUND", "ERR_CMD_ERR"}
  PROVE  /\ word \in DOMAIN Form /\ word # "" /\ word # "cas"
         /\ Form[word].response /\ Form[word].min \in {1, 2} /\ Form[word].version \in {0, 1}
         /\ Form[word].numbytes = 0 /\ Form[word].exptime = 0
<1>1. CASE word = "OK"
  BY <1>1 DEF Form
<1>2. CASE word = "ERR_VERSION"
  BY <1>2 DEF Form
<1>3. CASE word = "ERR_FILE_NOT_FOUND"
  BY <1>3 DEF Form
<1>4. CASE word = "ERR_CMD_ERR"
  BY <1>4 DEF Form
<1> QED
  BY <1>1, <1>2, <1>3, <1>4

\* A reply that is one line.
LEMMA LineBack ==
  ASSUME NEW m, Tells(m), m.kind \in {"O", "F", "V", "M"}
  PROVE  Back(GetMsg(Wire(m)), m)
<1>1. /\ m.version \in Nat /\ m.numbytes = 0 /\ Word \notin Int
      /\ m.kind \in {"F", "M"} => m.version = 0
  BY SizeAssumption DEF Tells
<1>2. m.version # Word
  BY <1>1
<1>3. ASSUME NEW word \in {"OK", "ERR_VERSION", "ERR_FILE_NOT_FOUND", "ERR_CMD_ERR"},
             NEW args \in Seq(Nat), Form[word].kind = m.kind, Len(args) + 1 >= Form[word].min,
             \/ Len(args) = 0 /\ m.version = 0
             \/ Len(args) = 1 /\ args[1] = m.version /\ Form[word].version = 1,
             Wire(m) = <<Chunk(word, args, 0)>>
      PROVE  Back(GetMsg(Wire(m)), m)
  <2>1. PICK line : line = Chunk(word, args, 0)
    OBVIOUS
  <2>2. line.word = word /\ line.args = args
    BY <2>1 DEF Chunk
  <2>3. PICK stream : stream = Wire(m)
    OBVIOUS
  <2>4. Head(stream) = line /\ Tail(stream) = <<>>
    BY <1>3, <2>1, <2>3
  <2>5. PICK f : f = Form[word]
    OBVIOUS
  <2>6. f.version \in {0, 1} /\ f.numbytes = 0 /\ f.exptime = 0 /\ f.min \in {1, 2}
    BY <2>5, ReplyForms
  <2>15. word \in DOMAIN Form /\ word # "" /\ f.response
    BY <2>5, ReplyForms
  <2>7. ~NotANumber(args, {f.numbytes}, word) /\ toInt(args, f.numbytes, word) = 0
    BY <2>6 DEF NotANumber, Present, toInt
  <2>8. \/ Len(args) = 0 /\ m.version = 0
        \/ Len(args) = 1 /\ args[1] = m.version /\ f.version = 1
    BY <1>3, <2>5
  <2>9. /\ ~NotANumber(args, {f.version, f.exptime}, word)
        /\ toInt(args, f.version, word) = m.version
    <3>1. CASE Len(args) = 0 /\ m.version = 0
      BY <2>6, <3>1 DEF NotANumber, Present, toInt
    <3>2. CASE Len(args) = 1 /\ args[1] = m.version /\ f.version = 1
      BY <1>2, <2>6, <3>2 DEF NotANumber, Present, toInt
    <3> QED
      BY <2>8, <3>1, <3>2
  <2>10. ~(Len(args) + 1 < f.min)
    BY <1>3, <2>5, <2>6, <2>8
  <2>11. PICK first : first = parseFirst(line)
    OBVIOUS
  <2>12. /\ first.kind = m.kind /\ first.version = m.version /\ first.numbytes = 0
         /\ first.err = "none"
    <3>1. first = [kind |-> f.kind, version |-> toInt(args, f.version, word),
                   numbytes |-> toInt(args, f.numbytes, word),
                   exptime |-> toInt(args, f.exptime, word),
                   err |-> IF NotANumber(args, {f.version, f.exptime}, word)
                             THEN "msg" ELSE "none"]
      BY <2>2, <2>5, <2>7, <2>10, <2>11, <2>15 DEF parseFirst, NoName
    <3> QED
      BY <1>3, <2>5, <2>7, <2>9, <3>1
  <2>13. ~HasContents(first)
    BY <2>12 DEF HasContents
  <2>14. GetMsg(stream) = [msg |-> first, err |-> "none", rest |-> <<>>]
    BY <2>4, <2>11, <2>12, <2>13 DEF GetMsg
  <2> QED
    BY <1>1, <2>3, <2>12, <2>14 DEF Back
<1>4. PICK none \in Seq(Nat), one \in Seq(Nat) : none = <<>> /\ one = <<m.version>>
  <2>1. PICK v \in Nat : v = m.version
    BY <1>1
  <2>2. <<>> \in Seq(Nat) /\ <<v>> \in Seq(Nat)
    OBVIOUS
  <2> QED
    BY <2>1, <2>2
<1>5. Len(none) = 0 /\ Len(one) = 1 /\ one[1] = m.version
  BY <1>4
<1>6. /\ Form["OK"].kind = "O" /\ Form["OK"].min = 1 /\ Form["OK"].version = 1
      /\ Form["ERR_FILE_NOT_FOUND"].kind = "F" /\ Form["ERR_FILE_NOT_FOUND"].min = 1
      /\ Form["ERR_VERSION"].kind = "V" /\ Form["ERR_VERSION"].min = 2
      /\ Form["ERR_VERSION"].version = 1
      /\ Form["ERR_CMD_ERR"].kind = "M" /\ Form["ERR_CMD_ERR"].min = 1
  BY DEF Form
<1>7. CASE m.kind = "O" /\ m.version > 0
  <2>1. Wire(m) = <<Chunk("OK", one, 0)>>
    BY <1>4, <1>7 DEF Wire
  <2> QED
    BY <1>3, <1>5, <1>6, <1>7, <2>1
<1>8. CASE m.kind = "O" /\ m.version = 0
  <2>1. Wire(m) = <<Chunk("OK", none, 0)>>
    BY <1>4, <1>8 DEF Wire
  <2>2. m.version = 0 /\ Len(none) = 0 /\ m.kind = Form["OK"].kind
    BY <1>8, <1>5, <1>6
  <2>3. Len(none) + 1 >= Form["OK"].min
    BY <1>5, <1>6
  <2> QED
    BY <1>3, <2>1, <2>2, <2>3
<1>9. CASE m.kind = "F"
  <2>1. Wire(m) = <<Chunk("ERR_FILE_NOT_FOUND", none, 0)>>
    BY <1>4, <1>9 DEF Wire
  <2>2. m.version = 0 /\ Len(none) = 0 /\ m.kind = Form["ERR_FILE_NOT_FOUND"].kind
    BY <1>1, <1>9, <1>5, <1>6
  <2>3. Len(none) + 1 >= Form["ERR_FILE_NOT_FOUND"].min
    BY <1>5, <1>6
  <2> QED
    BY <1>3, <2>1, <2>2, <2>3
<1>10. CASE m.kind = "V"
  <2>1. Wire(m) = <<Chunk("ERR_VERSION", one, 0)>>
    BY <1>4, <1>10 DEF Wire
  <2> QED
    BY <1>3, <1>5, <1>6, <1>10, <2>1
<1>11. CASE m.kind = "M"
  <2>1. Wire(m) = <<Chunk("ERR_CMD_ERR", none, 0)>>
    BY <1>4, <1>11 DEF Wire
  <2>2. m.version = 0 /\ Len(none) = 0 /\ m.kind = Form["ERR_CMD_ERR"].kind
    BY <1>1, <1>11, <1>5, <1>6
  <2>3. Len(none) + 1 >= Form["ERR_CMD_ERR"].min
    BY <1>5, <1>6
  <2> QED
    BY <1>3, <2>1, <2>2, <2>3
<1> QED
  BY <1>1, <1>7, <1>8, <1>9, <1>10, <1>11

\* A reply with contents.
LEMMA ContentsBack ==
  ASSUME NEW m, Tells(m), m.kind = "C"
  PROVE  Back(GetMsg(Wire(m)), m)
<1>1. /\ m.version \in Nat /\ m.numbytes \in 0..MAX_CONTENT_SIZE /\ m.exptime = 0
      /\ Word \notin Int /\ MAX_CONTENT_SIZE \in Nat
  BY SizeAssumption DEF Tells
<1>2. PICK args : args = <<m.version, m.numbytes, m.exptime>>
  OBVIOUS
<1>3. /\ Len(args) = 3 /\ args[1] = m.version /\ args[2] = m.numbytes /\ args[3] = 0
  BY <1>1, <1>2
<1>4. args[1] # Word /\ args[2] # Word /\ args[3] # Word
  BY <1>1, <1>3
<1>5. PICK line, body : line = Chunk("CONTENTS", args, 0) /\ body = Chunk("", <<>>, m.numbytes)
  OBVIOUS
<1>6. line.word = "CONTENTS" /\ line.args = args /\ body.size = m.numbytes
  BY <1>5 DEF Chunk
<1>7. PICK stream : stream = Wire(m)
  OBVIOUS
<1>8. stream = <<line, body>>
  BY <1>2, <1>5, <1>7 DEF Wire
<1>9. PICK more : more = Tail(stream)
  OBVIOUS
<1>10. Head(stream) = line /\ more = <<body>>
  BY <1>8, <1>9
<1>12. /\ "CONTENTS" \in DOMAIN Form /\ Form["CONTENTS"].response /\ Form["CONTENTS"].min = 4
       /\ Form["CONTENTS"].kind = "C" /\ Form["CONTENTS"].version = 1
       /\ Form["CONTENTS"].numbytes = 2 /\ Form["CONTENTS"].exptime = 3
  BY DEF Form
<1>13. ~NotANumber(args, {2}, "CONTENTS") /\ ~NotANumber(args, {1, 3}, "CONTENTS")
  BY <1>4 DEF NotANumber
<1>14. toInt(args, 1, "CONTENTS") = m.version /\ toInt(args, 2, "CONTENTS") = m.numbytes
  BY <1>3, <1>4 DEF toInt, Present
<1>15. PICK first : first = parseFirst(line)
  OBVIOUS
<1>0. PICK f : f = Form["CONTENTS"]
  OBVIOUS
<1>16. /\ first.kind = "C" /\ first.version = m.version /\ first.numbytes = m.numbytes
       /\ first.err = "none"
  <2>1. first = [kind |-> "C", version |-> toInt(args, 1, "CONTENTS"),
                 numbytes |-> toInt(args, 2, "CONTENTS"),
                 exptime |-> toInt(args, 3, "CONTENTS"),
                 err |-> IF NotANumber(args, {1, 3}, "CONTENTS") THEN "msg" ELSE "none"]
    <3>1. /\ f.kind = "C" /\ f.version = 1 /\ f.numbytes = 2 /\ f.exptime = 3
          /\ f.response /\ ~(Len(args) + 1 < f.min)
      BY <1>0, <1>3, <1>12
    <3> QED
      BY <1>0, <1>6, <1>12, <1>13, <1>15, <3>1 DEF parseFirst, NoName
  <2> QED
    BY <1>13, <1>14, <2>1
<1>17. PICK second : second = parseSecond(more, m.numbytes)
  OBVIOUS
<1>20. second.err = "none" /\ second.rest = <<>>
  <2>1. PICK T : T = {body}
    OBVIOUS
  <2>2. body \in T /\ Sized(T)
    BY <1>1, <1>6, <2>1 DEF Sized
  <2>3. PICK a \in Seq(T) : a = <<body>>
    <3>1. <<body>> \in Seq(T)
      <4>1. \A x \in T : <<x>> \in Seq(T)
        OBVIOUS
      <4> QED
        BY <2>2, <4>1
    <3> QED
      BY <3>1
  <2>4. Len(a) = 1 /\ a[1] = body /\ a # <<>> /\ more = a \o <<>> /\ <<>> \in Seq(T)
    BY <1>10, <2>3, ConcatEmptySeq
  <2>5. Length(a) = m.numbytes
    <3>1. Bytes(a)[0] = 0 /\ Bytes(a)[1] = Bytes(a)[1 - 1] + a[1].size + 2
      BY <2>2, <2>4, BytesAre
    <3>2. Bytes(a)[1] = m.numbytes + 2
      BY <1>1, <1>6, <2>4, <3>1
    <3> QED
      BY <1>1, <2>4, <3>2 DEF Length
  <2>6. PICK b \in Seq(T) : b = <<>>
    BY <2>4
  <2>7. second = parseSecond(a \o b, Length(a))
    BY <1>17, <2>4, <2>5, <2>6
  <2>8. Length(a) <= MAX_CONTENT_SIZE => second.err = "none" /\ second.rest = b
    BY <2>2, <2>4, <2>7, SecondFacts
  <2> QED
    BY <1>1, <2>5, <2>6, <2>8
<1>18. HasContents(first)
  BY <1>16 DEF HasContents
<1>19. GetMsg(stream) = [msg |-> first, err |-> "none", rest |-> <<>>]
  BY <1>9, <1>10, <1>15, <1>16, <1>17, <1>18, <1>20 DEF GetMsg
<1> QED
  BY <1>7, <1>16, <1>19, <1>1, <1>16 DEF Back

\* RoundTrip holds throughout: the client reads back each reply as it was
\* written, and to its end.
THEOREM ReadsBack == Spec => []RoundTrip
<1>1. SInv => RoundTrip
  <2> SUFFICES ASSUME SInv, NEW k \in 1..Len(sent), NEW m, m = sent[k].msg, m.kind # "R"
               PROVE  Back(GetMsg(Wire(m)), m)
    BY DEF RoundTrip, Back
  <2>1. Tells(m)
    BY DEF SInv, Ordered
  <2>2. m.kind = "C" \/ m.kind \in {"O", "F", "V", "M"}
    BY <2>1 DEF Tells
  <2> QED
    BY <2>1, <2>2, LineBack, ContentsBack
<1> QED
  BY <1>1, Invariant, PTL
=============================================================================
