---------------------------- MODULE ServerProofs ----------------------------
(***************************************************************************)
(* Proofs about Server, for any clients, logs and restarts: every variable *)
(* keeps its type, the file system sees the committed commands in the      *)
(* order of the log, each once, whatever CommitCh passes over, as long as  *)
(* what the disk has of them is at its place, and while besides no client  *)
(* has the id of an earlier one, the listener only ever sends a client the *)
(* answer it waits for.                                                    *)
(***************************************************************************)
EXTENDS Server, SequenceTheorems, TLAPS

Serve == {"reading", "waiting", "ended"}
CommitValue == [index : Nat, data : Command, err : BOOLEAN]
CommitWork == [upto : Nat, next : Nat, data : Command]

\* What has been processed is what the log has, if the disk is right.
DoneAsLogged == DiskAgrees => \A n \in 1..Len(done) : done[n] = log[n]

\* Where the listener is: between two commit values everything up to
\* prevLogIndexProcessed has been processed, and in the middle of one everything
\* before processing.next.
ListenerPlace ==
  \/ processing = Idle /\ Len(done) = prevLogIndexProcessed
  \/ /\ processing.upto \in 1..committed /\ processing.next \in 1..processing.upto
     /\ processing.next = Len(done) + 1
     /\ processing.data = log[processing.upto]

\* CommitCh tells only of indices that are committed, and what is there.
ValuesCommitted ==
  \A k \in 1..Len(commitCh) : ~commitCh[k].err =>
    /\ commitCh[k].index \in 1..committed
    /\ commitCh[k].data = log[commitCh[k].index]

IInv == TypeOK /\ DoneAsLogged /\ ListenerPlace /\ ValuesCommitted

-----------------------------------------------------------------------------
(* Sequences *)

\* What holds of every element of a sequence holds of those of its tail.
LEMMA TailElements ==
  ASSUME NEW S, NEW s \in Seq(S), s # <<>>
  PROVE  /\ Head(s) = s[1] /\ Head(s) \in S /\ Tail(s) \in Seq(S)
         /\ Len(s) \in Nat \ {0}
         /\ \A k \in 1..Len(Tail(s)) : k + 1 \in 1..Len(s) /\ Tail(s)[k] = s[k + 1]
  BY HeadTailProperties, EmptySeq

\* A sequence of m elements appended to s.
LEMMA Appended ==
  ASSUME NEW S, NEW s \in Seq(S), NEW t \in Seq(S), NEW m \in Nat, Len(t) = m
  PROVE  /\ s \o t \in Seq(S) /\ Len(s \o t) = Len(s) + m
         /\ \A k \in 1..(Len(s) + m) :
              (s \o t)[k] = IF k <= Len(s) THEN s[k] ELSE t[k - Len(s)]
<1>1. /\ s \o t \in Seq(S) /\ Len(s \o t) = Len(s) + Len(t)
      /\ \A k \in 1..(Len(s) + Len(t)) :
           (s \o t)[k] = IF k <= Len(s) THEN s[k] ELSE t[k - Len(s)]
  BY ConcatProperties
<1> QED
  BY <1>1

\* The element appended to a sequence is its last.
LEMMA AppendedOne ==
  ASSUME NEW S, NEW s \in Seq(S), NEW e \in S
  PROVE  /\ Len(s) \in Nat /\ Append(s, e) \in Seq(S)
         /\ Len(Append(s, e)) = Len(s) + 1
         /\ \A k \in 1..Len(Append(s, e)) : k \in 1..Len(s) \/ k = Len(s) + 1
         /\ \A k \in 1..Len(s) : Append(s, e)[k] = s[k]
         /\ Append(s, e)[Len(s) + 1] = e
<1>1. Len(s) \in Nat
  BY LenProperties
<1>2. /\ Append(s, e) \in Seq(S) /\ Len(Append(s, e)) = Len(s) + 1
      /\ \A k \in 1..Len(s) : Append(s, e)[k] = s[k]
      /\ Append(s, e)[Len(s) + 1] = e
  BY AppendProperties
<1> QED
  BY <1>1, <1>2

\* The first n elements of a sequence.
LEMMA Cut ==
  ASSUME NEW S, NEW s \in Seq(S), NEW n \in 0..Len(s)
  PROVE  /\ SubSeq(s, 1, n) \in Seq(S) /\ Len(SubSeq(s, 1, n)) = n
         /\ \A k \in 1..n : SubSeq(s, 1, n)[k] = s[k]
<1>1. Len(s) \in Nat
  BY LenProperties
<1>2. \A i \in 1..n : s[i] \in S
  BY <1>1, ElementOfSeq
<1>3. 1 \in Int /\ n \in Int /\ n \in Nat
  BY <1>1
<1> QED
  BY <1>2, <1>3, SubSeqProperties

-----------------------------------------------------------------------------
(* Types *)

\* The parts of TypeOK, for the leaves below.
LEMMA Types ==
  ASSUME IInv
  PROVE  /\ clientid \in Nat /\ lives \in Nat /\ reqs \in Nat
         /\ conn \in [1..clientid -> Serve] /\ asked \in [1..clientid -> Nat]
         /\ \A c \in 1..clientid : asked[c] # 0 <=> conn[c] = "waiting"
         /\ sending \in [to : 0..clientid, req : Nat, err : BOOLEAN]
         /\ processing \in CommitWork
         /\ prevLogIndexProcessed \in 0..committed /\ prevLogIndexProcessed \in Nat
         /\ done \in Seq(Command) /\ Len(done) \in Nat
         /\ log \in Seq(Command) /\ committed \in 0..Len(log)
         /\ committed \in Nat /\ Len(log) \in Nat
         /\ disk \in Seq(Command) /\ Len(disk) \in Nat
         /\ eventCh \in Seq(Command) /\ taken \subseteq Command
         /\ commitCh \in Seq(CommitValue)
<1>1. /\ log \in Seq(Command) /\ committed \in 0..Len(log)
      /\ prevLogIndexProcessed \in 0..committed
      /\ done \in Seq(Command) /\ disk \in Seq(Command)
  BY DEF IInv, TypeOK
<1>2. Len(log) \in Nat /\ Len(done) \in Nat /\ Len(disk) \in Nat
  BY <1>1, LenProperties
<1>3. committed \in Nat /\ prevLogIndexProcessed \in Nat
  BY <1>1, <1>2
<1>4. /\ clientid \in Nat /\ lives \in Nat /\ reqs \in Nat
      /\ conn \in [1..clientid -> Serve] /\ asked \in [1..clientid -> Nat]
      /\ \A c \in 1..clientid : asked[c] # 0 <=> conn[c] = "waiting"
      /\ sending \in [to : 0..clientid, req : Nat, err : BOOLEAN]
      /\ processing \in CommitWork
      /\ eventCh \in Seq(Command) /\ taken \subseteq Command
      /\ commitCh \in Seq(CommitValue)
  BY DEF IInv, TypeOK, Serve, CommitValue, CommitWork
<1> QED
  BY <1>1, <1>2, <1>3, <1>4

\* What a send to a client is.
LEMMA SendType ==
  ASSUME IInv, NEW d \in Command, NEW err \in BOOLEAN, SendTo(d, err)
  PROVE  sending' \in [to : 0..clientid, req : Nat, err : BOOLEAN]
<1>1. clientid \in Nat /\ d.req \in Nat
  BY Types DEF Command
<1>2. CASE HasChannel(d.client)
  BY <1>1, <1>2 DEF SendTo, HasChannel
<1>3. CASE ~HasChannel(d.client)
  BY <1>1, <1>3 DEF SendTo, Nothing
<1> QED
  BY <1>2, <1>3

\* The parts that speak of clients, those that speak of the log, and what the
\* listener has done are separate: a step that leaves one of them alone keeps it.
ClientTypes ==
  /\ clientid \in Nat /\ lives \in Nat /\ reqs \in Nat /\ up \in BOOLEAN
  /\ conn \in [1..clientid -> Serve] /\ asked \in [1..clientid -> Nat]
  /\ \A c \in 1..clientid : asked[c] # 0 <=> conn[c] = "waiting"
  /\ sending \in [to : 0..clientid, req : Nat, err : BOOLEAN]
  /\ eventCh \in Seq(Command)

LogTypes ==
  /\ processing \in CommitWork
  /\ prevLogIndexProcessed \in 0..committed
  /\ done \in Seq(Command) /\ log \in Seq(Command) /\ committed \in 0..Len(log)
  /\ disk \in Seq(Command)
  /\ taken \subseteq Command
  /\ commitCh \in Seq(CommitValue)

Listener == DoneAsLogged /\ ListenerPlace /\ ValuesCommitted

LEMMA Split == IInv <=> ClientTypes /\ LogTypes /\ Listener
<1>1. ASSUME IInv PROVE ClientTypes /\ LogTypes /\ Listener
  <2>1. up \in BOOLEAN
    BY <1>1 DEF IInv, TypeOK
  <2>2. ClientTypes /\ LogTypes
    BY <1>1, <2>1, Types DEF ClientTypes, LogTypes
  <2> QED
    BY <1>1, <2>2 DEF IInv, Listener
<1>2. ASSUME ClientTypes, LogTypes, Listener PROVE IInv
  BY <1>2 DEF ClientTypes, LogTypes, Listener, IInv, TypeOK, Serve, CommitValue, CommitWork
<1> QED
  BY <1>1, <1>2

-----------------------------------------------------------------------------
(* The log in memory and on disk *)

\* What the disk has after a LogStore for the index after n.
LEMMA Stored ==
  ASSUME IInv, NEW n \in Nat, NEW d \in Command
  PROVE  /\ LogStore(n, d) \in Seq(Command)
         /\ \A k \in 1..n : k <= Len(disk) =>
              k <= Len(LogStore(n, d)) /\ LogStore(n, d)[k] = disk[k]
         /\ \A k \in 1..Len(LogStore(n, d)) :
              \/ LogStore(n, d)[k] = d
              \/ \E j \in 1..Len(disk) : LogStore(n, d)[k] = disk[j]
<1>1. disk \in Seq(Command) /\ Len(disk) \in Nat
  BY Types
<1>2. CASE Len(disk) > n
  <2>1. n \in 0..Len(disk)
    BY <1>1, <1>2
  <2>2. /\ SubSeq(disk, 1, n) \in Seq(Command) /\ Len(SubSeq(disk, 1, n)) = n
        /\ \A k \in 1..n : SubSeq(disk, 1, n)[k] = disk[k]
    BY <1>1, <2>1, Cut
  <2>3. LogStore(n, d) = SubSeq(disk, 1, n)
    BY <1>2 DEF LogStore
  <2>4. 1..n \subseteq 1..Len(disk)
    BY <1>1, <2>1
  <2> QED
    BY <2>2, <2>3, <2>4
<1>3. CASE ~(Len(disk) > n)
  <2>1. /\ Append(disk, d) \in Seq(Command) /\ Len(Append(disk, d)) = Len(disk) + 1
        /\ \A k \in 1..Len(Append(disk, d)) : k \in 1..Len(disk) \/ k = Len(disk) + 1
        /\ \A k \in 1..Len(disk) : Append(disk, d)[k] = disk[k]
        /\ Append(disk, d)[Len(disk) + 1] = d
    BY <1>1, AppendedOne
  <2>2. LogStore(n, d) = Append(disk, d)
    BY <1>3 DEF LogStore
  <2>3. \A k \in 1..n : k <= Len(disk) => k \in 1..Len(disk) /\ k <= Len(disk) + 1
    BY <1>1
  <2> QED
    BY <2>1, <2>2, <2>3
<1> QED
  BY <1>2, <1>3

\* The log cut after n, and perhaps an entry put there.
LEMMA ReplacedLog ==
  ASSUME IInv, NEW n \in 0..Len(log), RaftReplace(n)
  PROVE  /\ UNCHANGED <<eventCh, commitCh, committed, taken, serverVars, up, lives, reqs>>
         /\ committed <= n /\ log' \in Seq(Command) /\ disk' \in Seq(Command)
         /\ Len(log') = n \/ Len(log') = n + 1
         /\ \A k \in 1..n : log'[k] = log[k]
         /\ \A k \in 1..n : k <= Len(disk) => k <= Len(disk') /\ disk'[k] = disk[k]
         /\ \E d \in taken \cup {Foreign} :
              /\ Len(log') = n + 1 => log'[n + 1] = d
              /\ \A k \in 1..n : d # Foreign => log[k] # d
              /\ \A k \in 1..Len(disk') :
                   disk'[k] = d \/ \E j \in 1..Len(disk) : disk'[k] = disk[j]
<1>1. /\ Len(log) \in Nat /\ log \in Seq(Command) /\ taken \subseteq Command
      /\ committed \in Nat /\ disk \in Seq(Command) /\ Len(disk) \in Nat /\ n \in Nat
  BY Types
<1>2. /\ UNCHANGED <<eventCh, commitCh, committed, taken, serverVars, up, lives, reqs>>
      /\ n \in committed..Len(log)
  BY DEF RaftReplace
<1>3. /\ SubSeq(log, 1, n) \in Seq(Command) /\ Len(SubSeq(log, 1, n)) = n
      /\ \A k \in 1..n : SubSeq(log, 1, n)[k] = log[k]
  BY <1>1, Cut
<1>4. \A k \in 1..Len(disk) : \E j \in 1..Len(disk) : disk[k] = disk[j]
  OBVIOUS
<1>5. committed <= n
  BY <1>1, <1>2
<1>6. CASE log' = SubSeq(log, 1, n) /\ UNCHANGED disk
  <2>1. Len(log') = n + 1 => FALSE
    BY <1>1, <1>3, <1>6
  <2>2. disk' = disk /\ log' = SubSeq(log, 1, n)
    BY <1>6
  <2>3. \E d \in taken \cup {Foreign} :
          /\ Len(log') = n + 1 => log'[n + 1] = d
          /\ \A k \in 1..n : d # Foreign => log[k] # d
          /\ \A k \in 1..Len(disk') :
               disk'[k] = d \/ \E j \in 1..Len(disk) : disk'[k] = disk[j]
    <3> WITNESS Foreign \in taken \cup {Foreign}
    <3> QED
      BY <1>4, <2>1, <2>2
  <2>4. \A k \in 1..n : k <= Len(disk) => k <= Len(disk') /\ disk'[k] = disk[k]
    BY <2>2
  <2> QED
    BY <1>1, <1>2, <1>3, <1>5, <2>2, <2>3, <2>4
<1>7. ASSUME NEW d \in taken \cup {Foreign},
             \A k \in 1..n : d # Foreign => log[k] # d,
             log' = Append(SubSeq(log, 1, n), d), disk' \in {disk, LogStore(n, d)}
      PROVE  /\ log' \in Seq(Command) /\ disk' \in Seq(Command)
             /\ Len(log') = n + 1 /\ log'[n + 1] = d
             /\ \A k \in 1..n : log'[k] = log[k]
             /\ \A k \in 1..n : k <= Len(disk) => k <= Len(disk') /\ disk'[k] = disk[k]
             /\ \A k \in 1..Len(disk') :
                  disk'[k] = d \/ \E j \in 1..Len(disk) : disk'[k] = disk[j]
  <2>1. d \in Command
    BY <1>1, <1>7 DEF Command, Foreign
  <2>2. /\ log' \in Seq(Command) /\ Len(log') = n + 1 /\ log'[n + 1] = d
        /\ \A k \in 1..n : log'[k] = log[k]
    BY <1>3, <1>7, <2>1, AppendedOne
  <2>3. CASE disk' = disk
    BY <2>2, <2>3, <1>1, <1>4
  <2>4. CASE disk' = LogStore(n, d)
    <3>1. /\ LogStore(n, d) \in Seq(Command)
          /\ \A k \in 1..n : k <= Len(disk) =>
               k <= Len(LogStore(n, d)) /\ LogStore(n, d)[k] = disk[k]
          /\ \A k \in 1..Len(LogStore(n, d)) :
               \/ LogStore(n, d)[k] = d
               \/ \E j \in 1..Len(disk) : LogStore(n, d)[k] = disk[j]
      BY <2>1, <1>1, Stored
    <3> QED
      BY <2>2, <2>4, <3>1
  <2> QED
    BY <2>3, <2>4, <1>7
<1>8. CASE \E d \in taken \cup {Foreign} :
             /\ \A k \in 1..n : d # Foreign => log[k] # d
             /\ log' = Append(SubSeq(log, 1, n), d)
             /\ disk' \in {disk, LogStore(n, d)}
  <2>1. PICK d \in taken \cup {Foreign} :
          /\ \A k \in 1..n : d # Foreign => log[k] # d
          /\ log' = Append(SubSeq(log, 1, n), d)
          /\ disk' \in {disk, LogStore(n, d)}
    BY <1>8
  <2>2. /\ log' \in Seq(Command) /\ disk' \in Seq(Command)
        /\ Len(log') = n + 1 /\ log'[n + 1] = d
        /\ \A k \in 1..n : log'[k] = log[k]
        /\ \A k \in 1..n : k <= Len(disk) => k <= Len(disk') /\ disk'[k] = disk[k]
        /\ \A k \in 1..Len(disk') :
             disk'[k] = d \/ \E j \in 1..Len(disk) : disk'[k] = disk[j]
    BY <2>1, <1>7
  <2> QED
    BY <2>1, <2>2, <1>2, <1>5
<1> QED
  BY <1>6, <1>8 DEF RaftReplace

\* What is committed stays, in memory and on disk.
LogStays ==
  /\ committed \in Nat /\ committed' \in Nat /\ committed <= committed'
  /\ Len(done) \in Nat /\ Len(done) <= committed
  /\ \A n \in 1..committed : log'[n] = log[n]
  /\ \A n \in 1..committed : n <= Len(disk) => n <= Len(disk') /\ disk'[n] = disk[n]

\* So it is in every step but a restart.
LEMMA LogStaysAlways ==
  ASSUME IInv, [Next]_vars, UNCHANGED lives
  PROVE  LogStays
<1>1. /\ committed \in Nat /\ Len(log) \in Nat /\ committed <= Len(log)
      /\ log \in Seq(Command) /\ Len(done) \in Nat /\ Len(done) <= committed
  <2>1. /\ committed \in Nat /\ Len(log) \in Nat /\ committed <= Len(log)
        /\ log \in Seq(Command) /\ Len(done) \in Nat
        /\ prevLogIndexProcessed \in 0..committed
    BY Types
  <2>2. Len(done) <= committed
    BY <2>1 DEF IInv, ListenerPlace
  <2> QED
    BY <2>1, <2>2
<1>2. CASE Accept \/ (\E c \in 1..clientid : Request(c) \/ Hangup(c) \/ Receive(c))
           \/ ListenCommitChannel \/ ProcessMissing \/ GetFails \/ ProcessLast
           \/ UNCHANGED vars
  <2>1. UNCHANGED <<log, committed, disk>>
    BY <1>2 DEF Accept, Request, Hangup, Receive, ListenCommitChannel, ProcessMissing,
                GetFails, ProcessLast, raftVars, vars
  <2> QED
    BY <2>1, <1>1 DEF LogStays
<1>3. CASE RaftAppend
  <2>1. PICK d : d = Head(eventCh)
    OBVIOUS
  <2>2. /\ UNCHANGED committed /\ eventCh # <<>>
        /\ \/ UNCHANGED <<log, disk>>
           \/ log' = Append(log, d) /\ disk' = LogStore(Len(log), d)
    BY <1>3, <2>1 DEF RaftAppend
  <2>3. d \in Command
    BY <2>1, <2>2, Types, TailElements
  <2>4. CASE UNCHANGED <<log, disk>>
    BY <2>2, <2>4, <1>1 DEF LogStays
  <2>5. CASE log' = Append(log, d) /\ disk' = LogStore(Len(log), d)
    <3>1. \A n \in 1..Len(log) : log'[n] = log[n]
      BY <2>3, <2>5, <1>1, AppendedOne
    <3>2. \A n \in 1..Len(log) : n <= Len(disk) => n <= Len(disk') /\ disk'[n] = disk[n]
      BY <2>3, <2>5, <1>1, Stored
    <3>3. 1..committed \subseteq 1..Len(log)
      BY <1>1
    <3> QED
      BY <3>1, <3>2, <3>3, <2>2, <1>1 DEF LogStays
  <2> QED
    BY <2>2, <2>4, <2>5
<1>4. ASSUME NEW n \in 1..Len(log), RaftCommit(n)
      PROVE  LogStays
  <2>1. UNCHANGED <<log, disk>> /\ committed' = n /\ n \in (committed + 1)..Len(log)
    BY <1>4 DEF RaftCommit
  <2> QED
    BY <2>1, <1>1 DEF LogStays
<1>5. ASSUME NEW n \in 0..Len(log), RaftReplace(n)
      PROVE  LogStays
  <2>1. /\ UNCHANGED committed /\ committed <= n
        /\ \A k \in 1..n : log'[k] = log[k]
        /\ \A k \in 1..n : k <= Len(disk) => k <= Len(disk') /\ disk'[k] = disk[k]
    BY <1>5, ReplacedLog
  <2>2. 1..committed \subseteq 1..n
    BY <2>1, <1>1
  <2> QED
    BY <2>1, <2>2, <1>1 DEF LogStays
<1>6. ~Restart
  <2>1. Restart => lives' = lives + 1
    BY DEF Restart
  <2> QED
    BY <2>1, Types
<1> QED
  BY <1>2, <1>3, <1>4, <1>5, <1>6 DEF Next

\* A disk that is wrong stays wrong while the process runs.
LEMMA DiskAgreedBefore ==
  ASSUME IInv, LogStays, DiskAgrees'
  PROVE  DiskAgrees
<1>1. Len(disk) \in Nat
  BY Types
<1>2. ASSUME NEW n \in 1..committed, n <= Len(disk)
      PROVE  disk[n] = log[n]
  <2>1. n \in 1..committed'
    BY <1>2 DEF LogStays
  <2> QED
    BY <1>2, <2>1 DEF LogStays, DiskAgrees
<1> QED
  BY <1>2 DEF DiskAgrees

\* What has been processed, what is being processed and what CommitCh tells is as
\* it was in a step that leaves it alone.
LEMMA ListenerStays ==
  ASSUME IInv, LogStays
  PROVE  /\ UNCHANGED done => DoneAsLogged'
         /\ UNCHANGED <<processing, prevLogIndexProcessed, done>> => ListenerPlace'
         /\ UNCHANGED commitCh => ValuesCommitted'
<1>1. UNCHANGED done => DoneAsLogged'
  <2> SUFFICES ASSUME UNCHANGED done, DiskAgrees', NEW n \in 1..Len(done)
               PROVE  done[n] = log'[n]
    BY DEF DoneAsLogged
  <2>1. DiskAgrees
    BY DiskAgreedBefore
  <2>2. n \in 1..committed
    BY DEF LogStays
  <2> QED
    BY <2>1, <2>2 DEF IInv, DoneAsLogged, LogStays
<1>2. UNCHANGED <<processing, prevLogIndexProcessed, done>> => ListenerPlace'
  <2> SUFFICES ASSUME UNCHANGED <<processing, prevLogIndexProcessed, done>>
               PROVE  ListenerPlace'
    OBVIOUS
  <2>1. CASE processing = Idle /\ Len(done) = prevLogIndexProcessed
    BY <2>1 DEF ListenerPlace
  <2>2. CASE /\ processing.upto \in 1..committed /\ processing.next \in 1..processing.upto
             /\ processing.next = Len(done) + 1
             /\ processing.data = log[processing.upto]
    <3>1. processing.upto \in 1..committed' /\ log'[processing.upto] = log[processing.upto]
      BY <2>2 DEF LogStays
    <3> QED
      BY <2>2, <3>1 DEF ListenerPlace
  <2> QED
    BY <2>1, <2>2 DEF IInv, ListenerPlace
<1>3. UNCHANGED commitCh => ValuesCommitted'
  <2> SUFFICES ASSUME UNCHANGED commitCh, NEW k \in 1..Len(commitCh), ~commitCh[k].err
               PROVE  /\ commitCh[k].index \in 1..committed'
                      /\ commitCh[k].data = log'[commitCh[k].index]
    BY DEF ValuesCommitted
  <2>1. /\ commitCh[k].index \in 1..committed
        /\ commitCh[k].data = log[commitCh[k].index]
    BY DEF IInv, ValuesCommitted
  <2> QED
    BY <2>1 DEF LogStays
<1> QED
  BY <1>1, <1>2, <1>3

-----------------------------------------------------------------------------
(* Steps *)

\* Clients come, ask and go; their answers are received.
LEMMA ClientStep ==
  ASSUME IInv, Accept \/ \E c \in 1..clientid : Request(c) \/ Hangup(c) \/ Receive(c)
  PROVE  ClientTypes'
<1>0. up' \in BOOLEAN
  <2>1. up \in BOOLEAN /\ UNCHANGED up
    BY DEF IInv, TypeOK, Accept, Request, Hangup, Receive
  <2> QED
    BY <2>1
<1>1. CASE Accept
  <2>1. /\ clientid' = clientid + 1 /\ conn' = Append(conn, "reading")
        /\ asked' = Append(asked, 0)
        /\ UNCHANGED <<sending, eventCh, lives, reqs>>
    BY <1>1 DEF Accept, raftVars
  <2>2. /\ clientid \in Nat /\ conn \in [1..clientid -> Serve]
        /\ asked \in [1..clientid -> Nat] /\ sending = Nothing
        /\ \A c \in 1..clientid : asked[c] # 0 <=> conn[c] = "waiting"
    BY <1>1, Types DEF Accept
  <2>3. /\ conn' \in [1..(clientid + 1) -> Serve] /\ conn'[clientid + 1] = "reading"
        /\ \A k \in 1..clientid : conn'[k] = conn[k]
    <3>1. conn \in Seq(Serve) /\ Len(conn) = clientid /\ "reading" \in Serve
      BY <2>2, SeqDef DEF Serve
    <3>2. /\ conn' \in Seq(Serve) /\ Len(conn') = clientid + 1
          /\ \A k \in 1..clientid : conn'[k] = conn[k]
          /\ conn'[clientid + 1] = "reading"
      BY <2>1, <3>1, AppendProperties
    <3> QED
      BY <3>2, LenProperties
  <2>4. /\ asked' \in [1..(clientid + 1) -> Nat] /\ asked'[clientid + 1] = 0
        /\ \A k \in 1..clientid : asked'[k] = asked[k]
    <3>1. asked \in Seq(Nat) /\ Len(asked) = clientid /\ 0 \in Nat
      BY <2>2, SeqDef
    <3>2. /\ asked' \in Seq(Nat) /\ Len(asked') = clientid + 1
          /\ \A k \in 1..clientid : asked'[k] = asked[k]
          /\ asked'[clientid + 1] = 0
      BY <2>1, <3>1, AppendProperties
    <3> QED
      BY <3>2, LenProperties
  <2>5. \A c \in 1..(clientid + 1) : asked'[c] # 0 <=> conn'[c] = "waiting"
    <3> SUFFICES ASSUME NEW c \in 1..(clientid + 1)
                 PROVE  asked'[c] # 0 <=> conn'[c] = "waiting"
      OBVIOUS
    <3>1. c \in 1..clientid \/ c = clientid + 1
      BY <2>2
    <3> QED
      BY <3>1, <2>2, <2>3, <2>4
  <2>6. sending' \in [to : 0..(clientid + 1), req : Nat, err : BOOLEAN]
    BY <2>1, <2>2 DEF Nothing
  <2>7. lives' \in Nat /\ reqs' \in Nat /\ clientid' \in Nat /\ eventCh' \in Seq(Command)
    <3>1. lives \in Nat /\ reqs \in Nat /\ eventCh \in Seq(Command)
      BY Types
    <3> QED
      BY <3>1, <2>1, <2>2
  <2>8. clientid' = clientid + 1
    BY <2>1
  <2> QED
    BY <1>0, <2>3, <2>4, <2>5, <2>6, <2>7, <2>8 DEF ClientTypes
<1>2. ASSUME NEW c \in 1..clientid, Request(c)
      PROVE  ClientTypes'
  <2>1. /\ reqs' = reqs + 1 /\ asked' = [asked EXCEPT ![c] = reqs + 1]
        /\ conn' = [conn EXCEPT ![c] = "waiting"]
        /\ eventCh' = Append(eventCh, [client |-> c, req |-> reqs + 1, life |-> lives])
        /\ UNCHANGED <<clientid, sending, lives>>
    BY <1>2 DEF Request
  <2>2. reqs \in Nat /\ clientid \in Nat /\ lives \in Nat /\ eventCh \in Seq(Command)
    BY Types
  <2>3. [client |-> c, req |-> reqs + 1, life |-> lives] \in Command
    BY <2>2 DEF Command
  <2>4. eventCh' \in Seq(Command)
    BY <2>1, <2>2, <2>3, AppendProperties
  <2>5. /\ conn \in [1..clientid -> Serve] /\ asked \in [1..clientid -> Nat]
        /\ \A e \in 1..clientid : asked[e] # 0 <=> conn[e] = "waiting"
        /\ sending \in [to : 0..clientid, req : Nat, err : BOOLEAN]
    BY Types
  <2>6. conn' \in [1..clientid -> Serve] /\ asked' \in [1..clientid -> Nat]
    BY <2>1, <2>2, <2>5 DEF Serve
  <2>7. \A e \in 1..clientid : asked'[e] # 0 <=> conn'[e] = "waiting"
    BY <2>1, <2>2, <2>5
  <2> QED
    BY <1>0, <2>1, <2>2, <2>4, <2>5, <2>6, <2>7 DEF ClientTypes
<1>3. ASSUME NEW c \in 1..clientid, Hangup(c)
      PROVE  ClientTypes'
  <2>1. /\ conn[c] = "reading" /\ conn' = [conn EXCEPT ![c] = "ended"]
        /\ UNCHANGED <<clientid, asked, sending, eventCh, lives, reqs>>
    BY <1>3 DEF Hangup, raftVars
  <2> QED
    BY <1>0, <2>1, Types DEF ClientTypes, Serve
<1>4. ASSUME NEW c \in 1..clientid, Receive(c)
      PROVE  ClientTypes'
  <2>1. /\ \/ conn' = [conn EXCEPT ![c] = "ended"] \/ conn' = [conn EXCEPT ![c] = "reading"]
        /\ asked' = [asked EXCEPT ![c] = 0] /\ sending' = Nothing
        /\ UNCHANGED <<clientid, eventCh, lives, reqs>>
    BY <1>4 DEF Receive, raftVars
  <2>2. Nothing \in [to : 0..clientid, req : Nat, err : BOOLEAN]
    BY Types DEF Nothing
  <2> QED
    BY <1>0, <2>1, <2>2, Types DEF ClientTypes, Serve
<1> QED
  BY <1>1, <1>2, <1>3, <1>4

\* The listener takes a commit value.
LEMMA ListenStep ==
  ASSUME IInv, LogStays, ListenCommitChannel
  PROVE  ClientTypes' /\ LogTypes' /\ Listener'
<1> DEFINE v == Head(commitCh)
           work == [upto |-> v.index, next |-> FirstMissing(v.index), data |-> v.data]
<1>0. /\ processing = Idle /\ sending = Nothing /\ commitCh # <<>> /\ commitCh' = Tail(commitCh)
      /\ UNCHANGED <<clientid, conn, asked, prevLogIndexProcessed, done, eventCh, log,
                     committed, disk, taken, lives, reqs>>
      /\ \/ v.err /\ SendTo(v.data, TRUE) /\ UNCHANGED processing
         \/ ~v.err /\ Processed(v.index) /\ UNCHANGED <<sending, processing>>
         \/ /\ ~v.err /\ ~Processed(v.index) /\ UNCHANGED sending
            /\ processing' = work
  BY DEF ListenCommitChannel, Listening
<1>1. /\ v = commitCh[1] /\ v \in CommitValue /\ Tail(commitCh) \in Seq(CommitValue)
      /\ 1 \in 1..Len(commitCh)
      /\ \A k \in 1..Len(Tail(commitCh)) :
           k + 1 \in 1..Len(commitCh) /\ Tail(commitCh)[k] = commitCh[k + 1]
  BY <1>0, Types, TailElements
<1>2. ~v.err => v.index \in 1..committed /\ v.data = log[v.index]
  BY <1>1 DEF IInv, ValuesCommitted
<1>3. ValuesCommitted'
  BY <1>0, <1>1 DEF IInv, ValuesCommitted
<1>4. v.data \in Command /\ v.index \in Nat /\ v.err \in BOOLEAN
  BY <1>1 DEF CommitValue
<1>5. /\ work.upto = v.index /\ work.next = prevLogIndexProcessed + 1 /\ work.data = v.data
      /\ work \in CommitWork
  <2>1. FirstMissing(v.index) = prevLogIndexProcessed + 1 /\ prevLogIndexProcessed + 1 \in Nat
    BY Types DEF FirstMissing
  <2> HIDE DEF v
  <2> QED
    BY <1>4, <2>1 DEF CommitWork
<1> HIDE DEF v, work
<1>6. sending' \in [to : 0..clientid, req : Nat, err : BOOLEAN]
  BY <1>0, <1>4, SendType, Types
<1>7. DoneAsLogged' /\ up' \in BOOLEAN
  <2>1. UNCHANGED up /\ up \in BOOLEAN
    BY DEF ListenCommitChannel, IInv, TypeOK
  <2> QED
    BY <1>0, <2>1, ListenerStays
<1>8. Len(done) = prevLogIndexProcessed
  <2>1. ~(processing.next \in 1..processing.upto)
    BY <1>0 DEF Idle
  <2> QED
    BY <2>1 DEF IInv, ListenerPlace
<1>9. ListenerPlace' /\ processing' \in CommitWork
  <2>1. CASE UNCHANGED processing
    BY <2>1, <1>0, <1>8, Types DEF ListenerPlace
  <2>2. CASE ~v.err /\ ~Processed(v.index) /\ processing' = work
    <3>1. /\ v.index \in 1..committed /\ prevLogIndexProcessed \in Nat /\ committed \in Nat
          /\ ~(v.index <= prevLogIndexProcessed) /\ v.data = log[v.index]
      BY <2>2, <1>2, Types DEF Processed
    <3>2. /\ processing'.upto = v.index /\ processing'.next = prevLogIndexProcessed + 1
          /\ processing'.data = v.data /\ processing' \in CommitWork
      BY <2>2, <1>5
    <3>3. processing'.next \in 1..processing'.upto /\ processing'.upto \in 1..committed
      BY <3>1, <3>2
    <3> QED
      BY <1>0, <1>8, <3>1, <3>2, <3>3 DEF ListenerPlace
  <2> QED
    BY <1>0, <2>1, <2>2
<1> QED
  BY <1>0, <1>1, <1>3, <1>6, <1>7, <1>9, Types DEF ClientTypes, LogTypes, Listener

\* What is processed next: the command that the log has after the last one, at
\* least if the disk is right.
LEMMA NextCommand ==
  ASSUME IInv, NEW d,
         \/ ProcessMissing /\ d = disk[processing.next]
         \/ ProcessLast /\ d = processing.data
  PROVE  /\ d \in Command
         /\ processing.next = Len(done) + 1 /\ processing.next \in 1..committed
         /\ processing.upto \in 1..committed /\ processing.next \in 1..processing.upto
         /\ done' = Append(done, d) /\ SendTo(d, FALSE)
         /\ DiskAgrees => d = log[processing.next]
         /\ \/ d = log[processing.next]
            \/ \E k \in 1..Len(disk) : d = disk[k]
<1>1. /\ processing \in CommitWork /\ disk \in Seq(Command) /\ Len(disk) \in Nat
      /\ committed \in Nat /\ log \in Seq(Command) /\ Len(log) \in Nat
  BY Types
<1>2. processing # Idle
  BY DEF ProcessMissing, Filling, ProcessLast, Idle
<1>3. /\ processing.upto \in 1..committed /\ processing.next \in 1..processing.upto
      /\ processing.next = Len(done) + 1 /\ processing.data = log[processing.upto]
  BY <1>2 DEF IInv, ListenerPlace
<1>4. processing.next \in 1..committed
  BY <1>1, <1>3
<1>5. CASE ProcessMissing /\ d = disk[processing.next]
  <2>1. processing.next \in 1..Len(disk)
    BY <1>1, <1>4, <1>5 DEF ProcessMissing
  <2>2. d \in Command
    BY <1>1, <1>5, <2>1, ElementOfSeq
  <2>3. DiskAgrees => d = log[processing.next]
    BY <1>4, <1>5, <2>1 DEF DiskAgrees
  <2>4. done' = Append(done, d) /\ SendTo(d, FALSE)
    BY <1>5 DEF ProcessMissing, ProcessMsg
  <2> QED
    BY <1>3, <1>4, <1>5, <2>1, <2>2, <2>3, <2>4
<1>6. CASE ProcessLast /\ d = processing.data
  <2>1. d \in Command
    BY <1>1, <1>6 DEF CommitWork
  <2>2. processing.next = processing.upto /\ done' = Append(done, d) /\ SendTo(d, FALSE)
    BY <1>6 DEF ProcessLast, ProcessMsg
  <2> QED
    BY <1>3, <1>4, <1>6, <2>1, <2>2
<1> QED
  BY <1>5, <1>6

\* It is the next one done.
LEMMA DoneStep ==
  ASSUME IInv, LogStays, UNCHANGED lives, NEW d,
         \/ ProcessMissing /\ d = disk[processing.next]
         \/ ProcessLast /\ d = processing.data
  PROVE  ClientTypes' /\ done' \in Seq(Command) /\ Len(done') = processing.next
         /\ DoneAsLogged' /\ ValuesCommitted'
<1>0. /\ d \in Command /\ done' = Append(done, d) /\ SendTo(d, FALSE)
      /\ processing.next = Len(done) + 1 /\ processing.next \in 1..committed
      /\ DiskAgrees => d = log[processing.next]
  BY NextCommand
<1>1. UNCHANGED <<clientid, conn, asked, eventCh, commitCh, log, committed, disk, taken,
                  up, lives, reqs>>
  BY DEF ProcessMissing, ProcessLast, raftVars
<1>2. done \in Seq(Command) /\ Len(done) \in Nat
  BY Types
<1>3. /\ done' \in Seq(Command) /\ Len(done') = Len(done) + 1
      /\ \A k \in 1..Len(done') : k \in 1..Len(done) \/ k = Len(done) + 1
      /\ \A k \in 1..Len(done) : done'[k] = done[k]
      /\ done'[Len(done) + 1] = d
  BY <1>0, <1>2, AppendedOne
<1>4. DoneAsLogged'
  <2> SUFFICES ASSUME DiskAgrees', NEW k \in 1..Len(done')
               PROVE  done'[k] = log'[k]
    BY DEF DoneAsLogged
  <2>1. DiskAgrees
    BY DiskAgreedBefore
  <2>2. CASE k \in 1..Len(done)
    BY <2>1, <2>2, <1>1, <1>3 DEF IInv, DoneAsLogged
  <2>3. CASE k = Len(done) + 1
    BY <2>1, <2>3, <1>0, <1>1, <1>3
  <2> QED
    BY <2>2, <2>3, <1>3
<1>5. ValuesCommitted'
  BY <1>1, ListenerStays
<1>6. ClientTypes'
  <2>1. sending' \in [to : 0..clientid, req : Nat, err : BOOLEAN]
    BY <1>0, SendType
  <2>2. up' \in BOOLEAN
    BY <1>1 DEF IInv, TypeOK
  <2> QED
    BY <2>1, <2>2, <1>1, Types DEF ClientTypes
<1> QED
  BY <1>0, <1>3, <1>4, <1>5, <1>6

\* A command before the index of the commit value is processed.
LEMMA MissingStep ==
  ASSUME IInv, LogStays, ProcessMissing
  PROVE  ClientTypes' /\ LogTypes' /\ Listener'
<1>1. /\ processing' = [processing EXCEPT !.next = @ + 1]
      /\ processing.next < processing.upto
      /\ UNCHANGED <<prevLogIndexProcessed, commitCh, log, committed, disk, taken, lives>>
  BY DEF ProcessMissing, Filling, raftVars
<1>2. /\ processing \in CommitWork /\ prevLogIndexProcessed \in 0..committed
      /\ committed \in Nat /\ log \in Seq(Command) /\ disk \in Seq(Command)
      /\ committed \in 0..Len(log)
      /\ taken \subseteq Command /\ commitCh \in Seq(CommitValue)
  BY Types
<1>3. /\ ClientTypes' /\ done' \in Seq(Command) /\ Len(done') = processing.next
      /\ DoneAsLogged' /\ ValuesCommitted'
  BY <1>1, DoneStep
<1>4. /\ processing.upto \in 1..committed /\ processing.next \in 1..processing.upto
      /\ processing.next = Len(done) + 1
  BY NextCommand
<1>5. processing.data = log[processing.upto]
  BY <1>1, <1>2, <1>4 DEF IInv, ListenerPlace, Idle
<1>6. /\ processing' \in CommitWork /\ processing'.next = processing.next + 1
      /\ processing'.upto = processing.upto /\ processing'.data = processing.data
  BY <1>1, <1>2 DEF CommitWork
<1>7. processing'.next \in 1..processing'.upto
  BY <1>1, <1>2, <1>4, <1>6
<1>8. ListenerPlace'
  BY <1>1, <1>3, <1>4, <1>5, <1>6, <1>7 DEF ListenerPlace
<1> QED
  BY <1>1, <1>2, <1>3, <1>6, <1>8 DEF LogTypes, Listener

\* The command of the commit value is processed.
LEMMA LastStep ==
  ASSUME IInv, LogStays, ProcessLast
  PROVE  ClientTypes' /\ LogTypes' /\ Listener'
<1>1. /\ processing' = Idle /\ processing.next = processing.upto
      /\ prevLogIndexProcessed' = processing.upto
      /\ UNCHANGED <<commitCh, log, committed, disk, taken, lives>>
  BY DEF ProcessLast, Remember, raftVars
<1>2. /\ committed \in Nat /\ log \in Seq(Command) /\ disk \in Seq(Command)
      /\ committed \in 0..Len(log)
      /\ taken \subseteq Command /\ commitCh \in Seq(CommitValue)
  BY Types
<1>3. /\ ClientTypes' /\ done' \in Seq(Command) /\ Len(done') = processing.next
      /\ DoneAsLogged' /\ ValuesCommitted'
  BY <1>1, DoneStep
<1>4. processing.upto \in 1..committed
  BY NextCommand
<1>5. processing' \in CommitWork
  BY <1>1 DEF CommitWork, Idle, Command, Foreign
<1>6. ListenerPlace'
  BY <1>1, <1>3 DEF ListenerPlace
<1>7. prevLogIndexProcessed' \in 0..committed'
  BY <1>1, <1>2, <1>4
<1> QED
  BY <1>1, <1>2, <1>3, <1>5, <1>6, <1>7 DEF LogTypes, Listener

\* The RaftNode appends a command or gives it back.
LEMMA RaftAppendStep ==
  ASSUME IInv, LogStays, RaftAppend
  PROVE  ClientTypes' /\ LogTypes' /\ Listener'
<1> DEFINE d == Head(eventCh)
           back == [index |-> 0, data |-> d, err |-> TRUE]
<1>0. /\ eventCh # <<>> /\ eventCh' = Tail(eventCh)
      /\ \/ /\ log' = Append(log, d) /\ disk' = LogStore(Len(log), d)
            /\ taken' = taken \cup {d} /\ UNCHANGED commitCh
         \/ commitCh' = Append(commitCh, back) /\ UNCHANGED <<log, disk, taken>>
      /\ UNCHANGED <<committed, clientid, conn, asked, sending, processing,
                     prevLogIndexProcessed, done, lives, reqs>>
  BY DEF RaftAppend, serverVars
<1>1. d \in Command /\ eventCh' \in Seq(Command)
  BY <1>0, Types, HeadTailProperties
<1>2. back \in CommitValue /\ back.err
  BY <1>1 DEF CommitValue
<1>3. /\ log \in Seq(Command) /\ Len(log) \in Nat /\ commitCh \in Seq(CommitValue)
      /\ disk \in Seq(Command)
  BY Types
<1> HIDE DEF d, back
<1>4. log' \in Seq(Command) /\ Len(log') \in Nat /\ Len(log) <= Len(log') /\ disk' \in Seq(Command)
  <2>1. CASE UNCHANGED <<log, disk>>
    BY <2>1, <1>3
  <2>2. CASE log' = Append(log, d) /\ disk' = LogStore(Len(log), d)
    <3>1. log' \in Seq(Command) /\ Len(log') = Len(log) + 1
      BY <2>2, <1>1, <1>3, AppendProperties
    <3>2. disk' \in Seq(Command)
      BY <2>2, <1>1, <1>3, Stored
    <3> QED
      BY <3>1, <3>2, <1>3
  <2> QED
    BY <1>0, <2>1, <2>2
<1>5. commitCh' \in Seq(CommitValue) /\ ValuesCommitted'
  <2>1. CASE UNCHANGED commitCh
    BY <2>1, <1>3, ListenerStays
  <2>2. CASE commitCh' = Append(commitCh, back) /\ UNCHANGED <<log, disk, taken>>
    <3>1. /\ commitCh' \in Seq(CommitValue)
          /\ \A k \in 1..Len(commitCh') : k \in 1..Len(commitCh) \/ k = Len(commitCh) + 1
          /\ \A k \in 1..Len(commitCh) : commitCh'[k] = commitCh[k]
          /\ commitCh'[Len(commitCh) + 1] = back
      BY <2>2, <1>2, <1>3, AppendedOne
    <3> QED
      BY <2>2, <3>1, <1>0, <1>2 DEF IInv, ValuesCommitted
  <2> QED
    BY <1>0, <2>1, <2>2
<1>6. DoneAsLogged' /\ ListenerPlace'
  BY <1>0, ListenerStays
<1>7. committed' \in 0..Len(log') /\ taken' \subseteq Command
  <2>1. committed \in 0..Len(log) /\ taken \subseteq Command
    BY Types
  <2>2. committed' = committed /\ (taken' = taken \cup {d} \/ taken' = taken)
    BY <1>0
  <2> QED
    BY <2>1, <2>2, <1>1, <1>3, <1>4
<1>8. UNCHANGED <<committed, clientid, conn, asked, sending, processing,
                  prevLogIndexProcessed, done, lives, reqs>>
  BY <1>0
<1>9. ClientTypes'
  <2>1. up' \in BOOLEAN
    BY DEF RaftAppend, IInv, TypeOK
  <2> QED
    BY <2>1, <1>1, <1>8, Types DEF ClientTypes
<1>10. processing' \in CommitWork /\ prevLogIndexProcessed' \in 0..committed'
       /\ done' \in Seq(Command)
  BY <1>8, Types
<1> QED
  BY <1>4, <1>5, <1>6, <1>7, <1>9, <1>10 DEF LogTypes, Listener

\* More of the log is committed: what the listener has done and is told stays
\* within it.
LEMMA RaftCommitStep ==
  ASSUME IInv, LogStays, NEW n \in 1..Len(log), RaftCommit(n)
  PROVE  ClientTypes' /\ LogTypes' /\ Listener'
<1> DEFINE new == [k \in 1..(n - committed) |->
              [index |-> committed + k, data |-> log[committed + k], err |-> FALSE]]
<1>0. /\ n \in (committed + 1)..Len(log) /\ committed' = n
      /\ commitCh' = commitCh \o new \/ UNCHANGED commitCh
      /\ UNCHANGED <<eventCh, log, disk, taken, clientid, conn, asked, sending, processing,
                     prevLogIndexProcessed, done, lives, reqs>>
  BY DEF RaftCommit, serverVars
<1>1. /\ committed \in Nat /\ Len(log) \in Nat /\ log \in Seq(Command) /\ n \in Nat
      /\ committed < n /\ n <= Len(log) /\ commitCh \in Seq(CommitValue)
      /\ Len(commitCh) \in Nat /\ n - committed \in Nat
  <2>1. /\ committed \in Nat /\ Len(log) \in Nat /\ log \in Seq(Command)
        /\ commitCh \in Seq(CommitValue)
    BY Types
  <2>2. n \in (committed + 1)..Len(log)
    BY <1>0
  <2>3. Len(commitCh) \in Nat
    BY <2>1, LenProperties
  <2> QED
    BY <2>1, <2>2, <2>3
<1>2. \A k \in 1..(n - committed) : 
        /\ new[k] \in CommitValue /\ new[k].index \in 1..n
        /\ new[k].data = log[new[k].index]
  <2> SUFFICES ASSUME NEW k \in 1..(n - committed)
               PROVE  /\ new[k] \in CommitValue /\ new[k].index \in 1..n
                      /\ new[k].data = log[new[k].index]
    OBVIOUS
  <2>1. committed + k \in 1..n /\ committed + k \in 1..Len(log) /\ committed + k \in Nat
    BY <1>1
  <2>2. log[committed + k] \in Command
    BY <2>1, <1>1, ElementOfSeq
  <2> QED
    BY <2>1, <2>2 DEF CommitValue
<1>3. new \in [1..(n - committed) -> CommitValue]
  BY <1>2
<1> HIDE DEF new
<1>4. new \in Seq(CommitValue) /\ Len(new) = n - committed
  <2>1. n - committed \in Nat
    BY <1>1
  <2> QED
    BY <2>1, <1>3, SeqDef
<1>5. \A k \in 1..Len(commitCh) : ~commitCh[k].err =>
        commitCh[k].index \in 1..n /\ commitCh[k].data = log[commitCh[k].index]
  BY <1>1 DEF IInv, ValuesCommitted
<1>6. commitCh' \in Seq(CommitValue) /\ ValuesCommitted'
  <2>1. CASE UNCHANGED commitCh
    BY <2>1, <1>0, <1>1, <1>5 DEF ValuesCommitted
  <2>2. CASE commitCh' = commitCh \o new
    <3>1. /\ commitCh' \in Seq(CommitValue)
          /\ Len(commitCh') = Len(commitCh) + (n - committed)
          /\ \A k \in 1..(Len(commitCh) + (n - committed)) :
               commitCh'[k] = IF k <= Len(commitCh) THEN commitCh[k] ELSE new[k - Len(commitCh)]
      <4>1. /\ commitCh \o new \in Seq(CommitValue)
            /\ Len(commitCh \o new) = Len(commitCh) + (n - committed)
            /\ \A k \in 1..(Len(commitCh) + (n - committed)) :
                 (commitCh \o new)[k]
                   = IF k <= Len(commitCh) THEN commitCh[k] ELSE new[k - Len(commitCh)]
        <5>1. /\ commitCh \in Seq(CommitValue) /\ new \in Seq(CommitValue)
              /\ n - committed \in Nat /\ Len(new) = n - committed
          BY <1>1, <1>4
        <5> QED
          BY <5>1, Appended
      <4> QED
        BY <2>2, <4>1
    <3>2. ASSUME NEW k \in 1..Len(commitCh'), ~commitCh'[k].err
          PROVE  /\ commitCh'[k].index \in 1..n
                 /\ commitCh'[k].data = log[commitCh'[k].index]
      <4>1. CASE k <= Len(commitCh)
        <5>1. k \in 1..Len(commitCh) /\ commitCh'[k] = commitCh[k]
          BY <4>1, <3>1, <1>1
        <5> QED
          BY <5>1, <3>2, <1>5
      <4>2. CASE ~(k <= Len(commitCh))
        <5>1. k - Len(commitCh) \in 1..(n - committed)
          BY <4>2, <3>1, <1>1
        <5>2. commitCh'[k] = new[k - Len(commitCh)]
          BY <4>2, <3>1, <1>1
        <5>3. /\ new[k - Len(commitCh)].index \in 1..n
              /\ new[k - Len(commitCh)].data = log[new[k - Len(commitCh)].index]
          BY <5>1, <1>2
        <5> QED
          BY <5>2, <5>3
      <4> QED
        BY <4>1, <4>2
    <3> QED
      BY <3>1, <3>2, <1>0 DEF ValuesCommitted
  <2> QED
    BY <1>0, <2>1, <2>2
<1>7. DoneAsLogged' /\ ListenerPlace'
  BY <1>0, ListenerStays
<1>8. committed' \in 0..Len(log') /\ prevLogIndexProcessed' \in 0..committed'
  <2>1. prevLogIndexProcessed \in 0..committed
    BY Types
  <2> QED
    BY <2>1, <1>0, <1>1
<1>9. up' \in BOOLEAN
  BY DEF RaftCommit, IInv, TypeOK
<1> QED
  BY <1>0, <1>1, <1>6, <1>7, <1>8, <1>9, Types DEF ClientTypes, LogTypes, Listener

\* Entries that are not committed are replaced.
LEMMA RaftReplaceStep ==
  ASSUME IInv, LogStays, NEW n \in 0..Len(log), RaftReplace(n)
  PROVE  ClientTypes' /\ LogTypes' /\ Listener'
<1>1. /\ UNCHANGED <<eventCh, commitCh, committed, taken, clientid, conn, asked, sending,
                     processing, prevLogIndexProcessed, done, lives, reqs>>
      /\ committed <= n /\ log' \in Seq(Command) /\ disk' \in Seq(Command)
      /\ Len(log') = n \/ Len(log') = n + 1
  BY ReplacedLog DEF serverVars
<1>2. committed' \in 0..Len(log')
  <2>1. committed \in Nat /\ n \in Nat
    BY Types
  <2> QED
    BY <2>1, <1>1
<1>3. Listener'
  BY <1>1, ListenerStays DEF Listener
<1>4. ClientTypes'
  <2>1. up' \in BOOLEAN
    BY DEF RaftReplace, IInv, TypeOK
  <2> QED
    BY <2>1, <1>1, Types DEF ClientTypes
<1> QED
  BY <1>1, <1>2, <1>3, <1>4, Types DEF LogTypes

\* The process starts anew with the log the disk has.
LEMMA RestartStep ==
  ASSUME IInv, Restart
  PROVE  ClientTypes' /\ LogTypes' /\ Listener'
<1>1. /\ lives' = lives + 1 /\ clientid' = 0 /\ conn' = <<>> /\ asked' = <<>>
      /\ sending' = Nothing /\ processing' = Idle /\ prevLogIndexProcessed' = 0
      /\ done' = <<>> /\ eventCh' = <<>> /\ commitCh' = <<>> /\ committed' = 0
      /\ log' = disk /\ UNCHANGED <<disk, taken, reqs>>
  BY DEF Restart
<1>2. /\ <<>> \in [1..0 -> Serve] /\ <<>> \in [1..0 -> Nat] /\ Len(<<>>) = 0
      /\ <<>> \in Seq(Command) /\ <<>> \in Seq(CommitValue)
  OBVIOUS
<1>3. ClientTypes'
  <2>1. lives \in Nat /\ reqs \in Nat
    BY Types
  <2>2. up' \in BOOLEAN
    BY DEF Restart
  <2> QED
    BY <1>1, <1>2, <2>1, <2>2 DEF ClientTypes, Nothing
<1>4. LogTypes'
  <2>1. /\ log' \in Seq(Command) /\ taken' \subseteq Command /\ Len(log') \in Nat
        /\ disk' \in Seq(Command)
    BY <1>1, Types
  <2>2. processing' \in CommitWork
    BY <1>1 DEF CommitWork, Idle, Command, Foreign
  <2> QED
    BY <1>1, <1>2, <2>1, <2>2 DEF LogTypes
<1>5. Listener'
  BY <1>1, <1>2 DEF Listener, DoneAsLogged, ListenerPlace, ValuesCommitted
<1> QED
  BY <1>3, <1>4, <1>5

\* The invariant holds.
THEOREM Invariant == Spec => []IInv
<1>1. Init => ClientTypes /\ LogTypes /\ Listener
  <2> SUFFICES ASSUME Init PROVE ClientTypes /\ LogTypes /\ Listener
    OBVIOUS
  <2>1. /\ <<>> \in [1..0 -> Serve] /\ <<>> \in [1..0 -> Nat] /\ Len(<<>>) = 0
        /\ <<>> \in Seq(Command) /\ <<>> \in Seq(CommitValue)
    OBVIOUS
  <2>2. ClientTypes
    <3>1. up \in BOOLEAN
      BY DEF Init
    <3> QED
      BY <2>1, <3>1 DEF Init, ClientTypes, Nothing
  <2>3. LogTypes
    <3>1. processing \in CommitWork
      BY DEF Init, CommitWork, Idle, Command, Foreign
    <3> QED
      BY <2>1, <3>1 DEF Init, LogTypes
  <2>4. Listener
    BY <2>1 DEF Init, Listener, DoneAsLogged, ListenerPlace, ValuesCommitted
  <2> QED
    BY <2>2, <2>3, <2>4
<1>2. IInv /\ [Next]_vars => ClientTypes' /\ LogTypes' /\ Listener'
  <2> SUFFICES ASSUME IInv, [Next]_vars
               PROVE  ClientTypes' /\ LogTypes' /\ Listener'
    OBVIOUS
  <2>1. CASE Restart
    BY <2>1, RestartStep
  <2>2. CASE ~Restart
    <3>1. LogStays
      <4>1. UNCHANGED lives
        BY <2>2 DEF Next, Accept, Request, Hangup, Receive, ListenCommitChannel,
                    ProcessMissing, GetFails, ProcessLast, RaftAppend, RaftCommit,
                    RaftReplace, vars
      <4> QED
        BY <4>1, LogStaysAlways
    <3>2. CASE Accept \/ \E c \in 1..clientid : Request(c) \/ Hangup(c) \/ Receive(c)
      <4>1. UNCHANGED <<processing, prevLogIndexProcessed, done, commitCh, log, committed,
                        disk, taken>>
        BY <3>2 DEF Accept, Request, Hangup, Receive, raftVars
      <4>2. Listener'
        BY <3>1, <4>1, ListenerStays DEF Listener
      <4>3. LogTypes'
        BY <4>1, Split DEF LogTypes
      <4> QED
        BY <3>2, <4>2, <4>3, ClientStep
    <3>3. CASE ListenCommitChannel
      BY <3>1, <3>3, ListenStep
    <3>4. CASE ProcessMissing
      BY <3>1, <3>4, MissingStep
    <3>5. CASE ProcessLast
      BY <3>1, <3>5, LastStep
    <3>6. CASE RaftAppend
      BY <3>1, <3>6, RaftAppendStep
    <3>7. CASE \E n \in 1..Len(log) : RaftCommit(n)
      BY <3>1, <3>7, RaftCommitStep
    <3>8. CASE \E n \in 0..Len(log) : RaftReplace(n)
      BY <3>1, <3>8, RaftReplaceStep
    <3>9. CASE GetFails \/ UNCHANGED vars
      <4>1. UNCHANGED <<serverVars, raftVars, lives, reqs>> /\ up' \in BOOLEAN
        BY <3>9 DEF GetFails, vars, IInv, TypeOK
      <4>2. ClientTypes' /\ LogTypes'
        BY <4>1, Split DEF ClientTypes, LogTypes, serverVars, raftVars
      <4>3. Listener'
        BY <3>1, <4>1, ListenerStays DEF Listener, serverVars, raftVars
      <4> QED
        BY <4>2, <4>3
    <3> QED
      BY <2>2, <3>2, <3>3, <3>4, <3>5, <3>6, <3>7, <3>8, <3>9 DEF Next
  <2> QED
    BY <2>1, <2>2
<1>3. Spec => [](ClientTypes /\ LogTypes /\ Listener)
  <2>1. (ClientTypes /\ LogTypes /\ Listener) /\ [Next]_vars
          => (ClientTypes /\ LogTypes /\ Listener)'
    BY <1>2, Split
  <2> QED
    BY <1>1, <2>1, PTL DEF Spec
<1> QED
  BY <1>3, Split, PTL

\* Every variable keeps its type, for any number of clients, commands and
\* restarts.
THEOREM TypeCorrect == Spec => []TypeOK
<1>1. IInv => TypeOK
  BY DEF IInv
<1> QED
  BY <1>1, Invariant, PTL

\* The commands ProcessMsg is called with are the committed ones, in the order of
\* the log, none twice and none left out, as long as what the disk has of them
\* is at its place.
THEOREM InOrder == Spec => []ProcessedInOrder
<1>1. IInv => ProcessedInOrder
  <2> SUFFICES ASSUME IInv, DiskAgrees, NEW n \in 1..Len(done)
               PROVE  n <= committed /\ done[n] = log[n]
    BY DEF ProcessedInOrder
  <2>1. /\ Len(done) \in Nat /\ committed \in Nat
        /\ prevLogIndexProcessed \in 0..committed
    BY Types
  <2>2. \/ Len(done) = prevLogIndexProcessed
        \/ /\ processing.upto \in 1..committed /\ processing.next \in 1..processing.upto
           /\ processing.next = Len(done) + 1
    BY DEF IInv, ListenerPlace
  <2>3. Len(done) <= committed
    BY <2>1, <2>2
  <2> QED
    BY <2>1, <2>3 DEF IInv, DoneAsLogged
<1> QED
  BY <1>1, Invariant, PTL

-----------------------------------------------------------------------------
(* Where the commands of clients are *)

Sent(d) == \E k \in 1..Len(eventCh) : eventCh[k] = d

GivenBack(d) == \E k \in 1..Len(commitCh) : commitCh[k].err /\ commitCh[k].data = d

Unprocessed(d) == d \in taken /\ \A n \in 1..Len(done) : done[n] # d

\* A command of this life that nobody has begun to answer.
Outstanding(d) == d.life = lives /\ (Sent(d) \/ GivenBack(d) \/ Unprocessed(d))

\* Of this life, and sent by a client.
Current(d) == d.req \in 1..reqs /\ d.life = lives

\* A command is in one place only: under way to the RaftNode, given back, or
\* taken; what is taken may be of an earlier life.
SentOnce ==
  /\ \A k \in 1..Len(eventCh) : Current(eventCh[k])
  /\ \A j, k \in 1..Len(eventCh) : eventCh[j] = eventCh[k] => j = k

GivenBackOnce ==
  /\ \A k \in 1..Len(commitCh) : commitCh[k].err => Current(commitCh[k].data)
  /\ \A j, k \in 1..Len(commitCh) :
       commitCh[j].err /\ commitCh[k].err /\ commitCh[j].data = commitCh[k].data => j = k

TakenOnce == \A d \in taken : d.req \in 1..reqs /\ d.life <= lives

PlacesApart == \A d \in Command :
  /\ ~(Sent(d) /\ GivenBack(d))
  /\ d \in taken => ~Sent(d) /\ ~GivenBack(d)

\* The log has what was taken here or comes from others, and no command of this
\* life twice; the disk, which is shifted, may have it twice.
LogOnce ==
  /\ \A n \in 1..Len(log) : log[n] \in taken \cup {Foreign}
  /\ \A n \in 1..Len(disk) : disk[n] \in taken \cup {Foreign}
  /\ \A j, k \in 1..Len(log) :
       log[j] = log[k] /\ log[j] # Foreign /\ log[j].life = lives => j = k

\* A client of this life has the id of one whose command is committed, or the disk
\* is wrong. Once it is so, it is for the rest of the life.
Reused == \E n \in 1..committed : log[n].life < lives /\ HasChannel(log[n].client)
Misled == Reused \/ ~DiskAgrees

WaitsFor(c, r) == HasChannel(c) /\ conn[c] = "waiting" /\ asked[c] = r

\* Whose command is outstanding waits for its answer.
Waited == \A d \in Command : Outstanding(d) => WaitsFor(d.client, d.req)

\* To whom the listener sends waits for just that, and has no other command.
SendsWaited ==
  sending # Nothing =>
    /\ WaitsFor(sending.to, sending.req)
    /\ \A d \in Command : Outstanding(d) => d.client # sending.to

AnsweredOwn ==
  \A a \in answered :
    a.life \in Nat /\ a.life <= lives /\ (a.life = lives /\ ~Misled => a.asked = a.got)

Places == SentOnce /\ GivenBackOnce /\ TakenOnce /\ PlacesApart /\ LogOnce

WaitInv ==
  IInv /\ Places /\ AnsweredOwn /\ (~Misled => Waited /\ SendsWaited)
-----------------------------------------------------------------------------
(* Channels that get one element more or less *)

\* The RaftNode takes the first command from its channel.
LEMMA EventChTail ==
  ASSUME IInv, SentOnce, eventCh # <<>>, eventCh' = Tail(eventCh), UNCHANGED <<lives, reqs>>
  PROVE  /\ SentOnce'
         /\ Head(eventCh) \in Command /\ Current(Head(eventCh)) /\ Sent(Head(eventCh))
         /\ \A d : Sent(d)' => Sent(d) /\ d # Head(eventCh)
<1>1. /\ Head(eventCh) = eventCh[1] /\ Head(eventCh) \in Command
      /\ Len(eventCh) \in Nat /\ Len(eventCh) # 0
      /\ \A k \in 1..Len(eventCh') : k + 1 \in 1..Len(eventCh) /\ eventCh'[k] = eventCh[k + 1]
  <2>1. eventCh \in Seq(Command)
    BY Types
  <2> QED
    BY <2>1, TailElements
<1>2. 1 \in 1..Len(eventCh)
  BY <1>1
<1>3. Current(Head(eventCh)) /\ Sent(Head(eventCh))
  BY <1>1, <1>2 DEF SentOnce, Sent
<1>4. \A k \in 1..Len(eventCh') : k + 1 # 1 /\ Current(eventCh'[k])
  <2> SUFFICES ASSUME NEW k \in 1..Len(eventCh') PROVE k + 1 # 1 /\ Current(eventCh'[k])
    OBVIOUS
  <2>1. k + 1 \in 1..Len(eventCh) /\ eventCh'[k] = eventCh[k + 1]
    BY <1>1
  <2>2. Current(eventCh[k + 1]) /\ k + 1 # 1
    BY <2>1 DEF SentOnce
  <2> QED
    BY <2>1, <2>2 DEF Current
<1>5. \A j, k \in 1..Len(eventCh') : eventCh'[j] = eventCh'[k] => j = k
  <2> SUFFICES ASSUME NEW j \in 1..Len(eventCh'), NEW k \in 1..Len(eventCh'),
                      eventCh'[j] = eventCh'[k]
               PROVE  j = k
    OBVIOUS
  <2>1. j + 1 = k + 1
    BY <1>1 DEF SentOnce
  <2> QED
    BY <2>1
<1>6. ASSUME NEW d, Sent(d)'
      PROVE  Sent(d) /\ d # Head(eventCh)
  <2>1. PICK k \in 1..Len(eventCh') : eventCh'[k] = d
    BY <1>6 DEF Sent
  <2>2. k + 1 \in 1..Len(eventCh) /\ eventCh[k + 1] = d /\ k + 1 # 1
    BY <2>1, <1>1, <1>4
  <2> QED
    BY <2>2, <1>1, <1>2 DEF SentOnce, Sent
<1>7. SentOnce'
  BY <1>4, <1>5 DEF SentOnce, Current
<1> QED
  BY <1>1, <1>3, <1>6, <1>7

\* The listener takes the first commit value.
LEMMA CommitChTail ==
  ASSUME IInv, GivenBackOnce, commitCh # <<>>, commitCh' = Tail(commitCh),
         UNCHANGED <<lives, reqs>>
  PROVE  /\ GivenBackOnce'
         /\ Head(commitCh) \in CommitValue
         /\ Head(commitCh).err =>
              Current(Head(commitCh).data) /\ GivenBack(Head(commitCh).data)
         /\ \A d : GivenBack(d)' =>
              GivenBack(d) /\ (Head(commitCh).err => d # Head(commitCh).data)
<1>1. /\ Head(commitCh) = commitCh[1] /\ Head(commitCh) \in CommitValue
      /\ Len(commitCh) \in Nat /\ Len(commitCh) # 0
      /\ \A k \in 1..Len(commitCh') :
           k + 1 \in 1..Len(commitCh) /\ commitCh'[k] = commitCh[k + 1]
  <2>1. commitCh \in Seq(CommitValue)
    BY Types
  <2> QED
    BY <2>1, TailElements
<1>2. 1 \in 1..Len(commitCh)
  BY <1>1
<1>3. Head(commitCh).err => Current(Head(commitCh).data) /\ GivenBack(Head(commitCh).data)
  BY <1>1, <1>2 DEF GivenBackOnce, GivenBack
<1>4. \A k \in 1..Len(commitCh') :
        k + 1 # 1 /\ (commitCh'[k].err => Current(commitCh'[k].data))
  <2> SUFFICES ASSUME NEW k \in 1..Len(commitCh')
               PROVE  k + 1 # 1 /\ (commitCh'[k].err => Current(commitCh'[k].data))
    OBVIOUS
  <2>1. k + 1 \in 1..Len(commitCh) /\ commitCh'[k] = commitCh[k + 1]
    BY <1>1
  <2>2. (commitCh[k + 1].err => Current(commitCh[k + 1].data)) /\ k + 1 # 1
    BY <2>1 DEF GivenBackOnce
  <2> QED
    BY <2>1, <2>2 DEF Current
<1>5. \A j, k \in 1..Len(commitCh') :
        commitCh'[j].err /\ commitCh'[k].err /\ commitCh'[j].data = commitCh'[k].data => j = k
  <2> SUFFICES ASSUME NEW j \in 1..Len(commitCh'), NEW k \in 1..Len(commitCh'),
                      commitCh'[j].err, commitCh'[k].err, commitCh'[j].data = commitCh'[k].data
               PROVE  j = k
    OBVIOUS
  <2>1. j + 1 = k + 1
    BY <1>1 DEF GivenBackOnce
  <2> QED
    BY <2>1
<1>6. ASSUME NEW d, GivenBack(d)'
      PROVE  GivenBack(d) /\ (Head(commitCh).err => d # Head(commitCh).data)
  <2>1. PICK k \in 1..Len(commitCh') : commitCh'[k].err /\ commitCh'[k].data = d
    BY <1>6 DEF GivenBack
  <2>2. k + 1 \in 1..Len(commitCh) /\ commitCh[k + 1].err /\ commitCh[k + 1].data = d /\ k + 1 # 1
    BY <2>1, <1>1, <1>4
  <2> QED
    BY <2>2, <1>1, <1>2 DEF GivenBackOnce, GivenBack
<1>7. GivenBackOnce'
  BY <1>4, <1>5 DEF GivenBackOnce, Current
<1> QED
  BY <1>1, <1>3, <1>6, <1>7

\* A command is given back.
LEMMA CommitChBack ==
  ASSUME IInv, GivenBackOnce, NEW b \in Command, Current(b), ~GivenBack(b),
         commitCh' = Append(commitCh, [index |-> 0, data |-> b, err |-> TRUE]),
         UNCHANGED <<lives, reqs>>
  PROVE  GivenBackOnce' /\ \A d : GivenBack(d)' => GivenBack(d) \/ d = b
<1> DEFINE back == [index |-> 0, data |-> b, err |-> TRUE]
<1>0. commitCh \in Seq(CommitValue) /\ back \in CommitValue
  BY Types DEF CommitValue
<1>1. back.data = b /\ back.err /\ commitCh' = Append(commitCh, back)
  OBVIOUS
<1> HIDE DEF back
<1>2. /\ Len(commitCh) \in Nat /\ Len(commitCh') = Len(commitCh) + 1
      /\ \A k \in 1..Len(commitCh') : k \in 1..Len(commitCh) \/ k = Len(commitCh) + 1
      /\ \A k \in 1..Len(commitCh) : commitCh'[k] = commitCh[k]
      /\ commitCh'[Len(commitCh) + 1] = back
  BY <1>0, <1>1, AppendedOne
<1>3. \A k \in 1..Len(commitCh') : commitCh'[k].err => Current(commitCh'[k].data)
  BY <1>1, <1>2 DEF GivenBackOnce
<1>4. \A k \in 1..Len(commitCh) : commitCh'[k].err => commitCh'[k].data # b
  BY <1>2 DEF GivenBack
<1>5. \A j, k \in 1..Len(commitCh') :
        commitCh'[j].err /\ commitCh'[k].err /\ commitCh'[j].data = commitCh'[k].data => j = k
  <2> SUFFICES ASSUME NEW j \in 1..Len(commitCh'), NEW k \in 1..Len(commitCh'),
                      commitCh'[j].err, commitCh'[k].err, commitCh'[j].data = commitCh'[k].data
               PROVE  j = k
    OBVIOUS
  <2>1. CASE j \in 1..Len(commitCh) /\ k \in 1..Len(commitCh)
    BY <2>1, <1>2 DEF GivenBackOnce
  <2>2. CASE j = Len(commitCh) + 1 \/ k = Len(commitCh) + 1
    BY <2>2, <1>1, <1>2, <1>4
  <2> QED
    BY <2>1, <2>2, <1>2
<1>6. ASSUME NEW d, GivenBack(d)'
      PROVE  GivenBack(d) \/ d = b
  <2>1. PICK k \in 1..Len(commitCh') : commitCh'[k].err /\ commitCh'[k].data = d
    BY <1>6 DEF GivenBack
  <2> QED
    BY <2>1, <1>1, <1>2 DEF GivenBack
<1> QED
  BY <1>3, <1>5, <1>6 DEF GivenBackOnce, Current

-----------------------------------------------------------------------------
(* Where each command is after a step *)

\* The commands that are outstanding after a step other than Restart were so.
Fewer ==
  /\ UNCHANGED <<clientid, conn, asked, sending, lives, answered>>
  /\ \A d \in Command : Outstanding(d)' => Outstanding(d)

\* Ids are given out, and not taken back while the process runs.
LEMMA ClientsStay ==
  ASSUME IInv, [Next]_vars, UNCHANGED lives
  PROVE  clientid \in Nat /\ clientid' \in Nat /\ clientid <= clientid'
<1>1. clientid \in Nat /\ lives \in Nat
  BY Types
<1>2. clientid' = clientid + 1 \/ UNCHANGED clientid
  <2>1. ~Restart
    BY <1>1 DEF Restart
  <2> QED
    BY <2>1 DEF Next, Accept, Request, Hangup, Receive, ListenCommitChannel,
                ProcessMissing, GetFails, ProcessLast, RaftAppend, RaftCommit,
                RaftReplace, vars, serverVars
<1> QED
  BY <1>1, <1>2

\* An id in use by one of an earlier life stays so while the process runs.
LEMMA ReusedStays ==
  ASSUME IInv, [Next]_vars, UNCHANGED lives, Reused
  PROVE  Reused'
<1>1. PICK n \in 1..committed : log[n].life < lives /\ HasChannel(log[n].client)
  BY DEF Reused
<1>2. n \in 1..committed' /\ log'[n] = log[n]
  BY LogStaysAlways DEF LogStays
<1>3. clientid \in Nat /\ clientid' \in Nat /\ clientid <= clientid'
  BY ClientsStay
<1>4. log[n].client \in 1..clientid'
  BY <1>1, <1>3 DEF HasChannel
<1> QED
  BY <1>1, <1>2, <1>4 DEF Reused, HasChannel

\* And so does a listener that is misled.
LEMMA MisledStays ==
  ASSUME IInv, [Next]_vars, UNCHANGED lives, Misled
  PROVE  Misled'
<1>1. LogStays
  BY LogStaysAlways
<1>2. Reused => Reused'
  BY ReusedStays
<1>3. ~DiskAgrees => ~(DiskAgrees')
  BY <1>1, DiskAgreedBefore
<1> QED
  BY <1>2, <1>3 DEF Misled

\* Steps that touch neither the channels nor the log.
LEMMA PlacesStay ==
  ASSUME Places, UNCHANGED <<eventCh, commitCh, log, disk, taken, lives, reqs>>
  PROVE  Places'
<1>1. SentOnce'
  BY DEF Places, SentOnce, Current
<1>2. GivenBackOnce'
  BY DEF Places, GivenBackOnce, Current
<1>3. TakenOnce' /\ LogOnce'
  BY DEF Places, TakenOnce, LogOnce
<1>4. PlacesApart'
  BY DEF Places, PlacesApart, Sent, GivenBack
<1> QED
  BY <1>1, <1>2, <1>3, <1>4 DEF Places

\* A client's new command has a number beyond all others.
LEMMA PlacesRequest ==
  ASSUME IInv, Places, NEW c \in 1..clientid, Request(c)
  PROVE  /\ Places'
         /\ \A d : Sent(d)' => Sent(d) \/ d = [client |-> c, req |-> reqs + 1, life |-> lives]
<1> DEFINE new == [client |-> c, req |-> reqs + 1, life |-> lives]
<1>1. /\ reqs' = reqs + 1 /\ eventCh' = Append(eventCh, new)
      /\ UNCHANGED <<commitCh, log, disk, taken, lives>>
  BY DEF Request
<1>2. /\ reqs \in Nat /\ lives \in Nat /\ clientid \in Nat /\ eventCh \in Seq(Command)
      /\ taken \subseteq Command
  BY Types
<1>3. new \in Command /\ new.req = reqs + 1 /\ new.life = lives
  BY <1>2 DEF Command
<1> HIDE DEF new
<1>4. /\ Len(eventCh) \in Nat /\ Len(eventCh') = Len(eventCh) + 1
      /\ \A k \in 1..Len(eventCh') : k \in 1..Len(eventCh) \/ k = Len(eventCh) + 1
      /\ \A k \in 1..Len(eventCh) : eventCh'[k] = eventCh[k]
      /\ eventCh'[Len(eventCh) + 1] = new
  BY <1>1, <1>2, <1>3, AppendedOne
<1>5. \A d : d.req \in 1..reqs => d.req \in 1..reqs' /\ d # new
  BY <1>1, <1>2, <1>3
<1>6. \A k \in 1..Len(eventCh) : eventCh[k] # new /\ eventCh[k].req \in 1..reqs'
                                /\ eventCh[k].life = lives
  BY <1>5 DEF Places, SentOnce, Current
<1>7. ASSUME NEW d, Sent(d)'
      PROVE  Sent(d) \/ d = new
  <2>1. PICK k \in 1..Len(eventCh') : eventCh'[k] = d
    BY <1>7 DEF Sent
  <2> QED
    BY <2>1, <1>4 DEF Sent
<1>8. SentOnce'
  <2>1. ASSUME NEW k \in 1..Len(eventCh')
        PROVE  eventCh'[k].req \in 1..reqs' /\ eventCh'[k].life = lives
    BY <1>1, <1>2, <1>3, <1>4, <1>6
  <2>2. ASSUME NEW j \in 1..Len(eventCh'), NEW k \in 1..Len(eventCh'), eventCh'[j] = eventCh'[k]
        PROVE  j = k
    <3>1. CASE j \in 1..Len(eventCh) /\ k \in 1..Len(eventCh)
      BY <2>2, <3>1, <1>4 DEF Places, SentOnce
    <3>2. CASE j = Len(eventCh) + 1 \/ k = Len(eventCh) + 1
      BY <2>2, <3>2, <1>4, <1>6
    <3> QED
      BY <3>1, <3>2, <1>4
  <2> QED
    BY <2>1, <2>2, <1>1 DEF SentOnce, Current
<1>9. GivenBackOnce' /\ TakenOnce' /\ LogOnce'
  <2>1. GivenBackOnce'
    BY <1>1, <1>5 DEF Places, GivenBackOnce, Current
  <2>2. TakenOnce'
    BY <1>1, <1>5 DEF Places, TakenOnce
  <2>3. LogOnce'
    BY <1>1 DEF Places, LogOnce
  <2> QED
    BY <2>1, <2>2, <2>3
<1>10. PlacesApart'
  <2>1. \A d : GivenBack(d)' => GivenBack(d) /\ d # new
    BY <1>1, <1>5 DEF Places, GivenBackOnce, GivenBack, Current
  <2>2. \A d \in taken : d # new
    BY <1>5 DEF Places, TakenOnce
  <2>3. PlacesApart
    BY DEF Places
  <2>4. ASSUME NEW d \in Command
        PROVE  /\ ~(Sent(d)' /\ GivenBack(d)')
               /\ d \in taken' => ~Sent(d)' /\ ~GivenBack(d)'
    BY <2>1, <2>2, <2>3, <1>1, <1>7 DEF PlacesApart
  <2> QED
    BY <2>4 DEF PlacesApart
<1> QED
  BY <1>7, <1>8, <1>9, <1>10 DEF Places, new

\* The listener takes a commit value.
LEMMA PlacesListen ==
  ASSUME IInv, Places, ListenCommitChannel
  PROVE  Places'
<1>1. /\ commitCh # <<>> /\ commitCh' = Tail(commitCh)
      /\ UNCHANGED <<eventCh, log, disk, taken, lives, reqs>>
  BY DEF ListenCommitChannel
<1>2. GivenBackOnce' /\ \A d : GivenBack(d)' => GivenBack(d)
  <2>1. GivenBackOnce
    BY DEF Places
  <2> QED
    BY <2>1, <1>1, CommitChTail
<1>3. SentOnce' /\ TakenOnce' /\ LogOnce'
  BY <1>1 DEF Places, SentOnce, TakenOnce, LogOnce, Current
<1>4. PlacesApart'
  BY <1>1, <1>2 DEF Places, PlacesApart, Sent
<1> QED
  BY <1>2, <1>3, <1>4 DEF Places

\* A taken command comes to the end of the log, where it has not been before.
LEMMA PlacesTaken ==
  ASSUME IInv, Places, NEW d \in Command, Sent(d), Current(d),
         log' = Append(log, d), disk' = LogStore(Len(log), d), taken' = taken \cup {d},
         UNCHANGED <<lives, reqs>>
  PROVE  TakenOnce' /\ LogOnce'
<1>1. log \in Seq(Command) /\ Len(log) \in Nat /\ lives \in Nat /\ reqs \in Nat
  BY Types
<1>2. d \notin taken /\ d # Foreign
  <2>1. d \notin taken
    BY DEF Places, PlacesApart
  <2>2. d.req # 0
    BY <1>1 DEF Current
  <2> QED
    BY <2>1, <2>2 DEF Foreign
<1>3. /\ Len(log) \in Nat /\ Len(log') = Len(log) + 1
      /\ \A k \in 1..Len(log') : k \in 1..Len(log) \/ k = Len(log) + 1
      /\ \A k \in 1..Len(log) : log'[k] = log[k]
      /\ log'[Len(log) + 1] = d
  BY <1>1, AppendedOne
<1>4. \A k \in 1..Len(log) : log[k] # d
  BY <1>2 DEF Places, LogOnce
<1>5. TakenOnce'
  BY <1>1 DEF Places, TakenOnce, Current
<1>6. \A n \in 1..Len(log') : log'[n] \in taken' \cup {Foreign}
  BY <1>3 DEF Places, LogOnce
<1>7. ASSUME NEW j \in 1..Len(log'), NEW k \in 1..Len(log'), log'[j] = log'[k],
             log'[j] # Foreign, log'[j].life = lives
      PROVE  j = k
  <2>1. CASE j \in 1..Len(log) /\ k \in 1..Len(log)
    BY <2>1, <1>7, <1>3 DEF Places, LogOnce
  <2>2. CASE j = Len(log) + 1 \/ k = Len(log) + 1
    BY <2>2, <1>7, <1>3, <1>4
  <2> QED
    BY <2>1, <2>2, <1>3
<1>8. \A n \in 1..Len(disk') : disk'[n] \in taken' \cup {Foreign}
  <2>1. \A k \in 1..Len(disk') : disk'[k] = d \/ \E j \in 1..Len(disk) : disk'[k] = disk[j]
    BY <1>1, Stored
  <2> QED
    BY <2>1 DEF Places, LogOnce
<1> QED
  BY <1>5, <1>6, <1>7, <1>8 DEF LogOnce

\* The RaftNode takes a command or gives it back.
LEMMA PlacesAppend ==
  ASSUME IInv, Places, RaftAppend
  PROVE  Places' /\ \A d \in Command : Outstanding(d)' => Outstanding(d)
<1>1. /\ eventCh # <<>> /\ eventCh' = Tail(eventCh)
      /\ UNCHANGED <<committed, done, lives, reqs>>
  BY DEF RaftAppend, serverVars
<1>2. PICK h : h = Head(eventCh)
  OBVIOUS
<1>3. /\ SentOnce' /\ h \in Command /\ Current(h) /\ Sent(h)
      /\ \A d : Sent(d)' => Sent(d) /\ d # h
  <2>1. SentOnce
    BY DEF Places
  <2> QED
    BY <2>1, <1>1, <1>2, EventChTail
<1>4. ~GivenBack(h) /\ h \notin taken
  BY <1>3 DEF Places, PlacesApart
<1>5. \A d \in taken : Unprocessed(d)' => Unprocessed(d)
  BY <1>1 DEF Unprocessed
<1>6. CASE /\ log' = Append(log, h) /\ disk' = LogStore(Len(log), h)
           /\ taken' = taken \cup {h} /\ UNCHANGED commitCh
  <2>1. TakenOnce' /\ LogOnce'
    BY <1>6, <1>1, <1>3, PlacesTaken
  <2>2. GivenBackOnce' /\ \A d : GivenBack(d)' => GivenBack(d)
    BY <1>6, <1>1 DEF Places, GivenBackOnce, GivenBack, Current
  <2>3. PlacesApart'
    BY <2>2, <1>3, <1>4, <1>6 DEF Places, PlacesApart
  <2>4. ASSUME NEW d \in Command, Outstanding(d)'
        PROVE  Outstanding(d)
    <3>1. d = h => Outstanding(d)
      BY <1>3 DEF Outstanding, Current
    <3>2. Unprocessed(d)' => d \in taken \/ d = h
      BY <1>6 DEF Unprocessed
    <3> QED
      BY <3>1, <3>2, <2>2, <2>4, <1>1, <1>3, <1>5 DEF Outstanding
  <2> QED
    BY <2>1, <2>2, <2>3, <2>4, <1>3 DEF Places
<1>7. CASE /\ commitCh' = Append(commitCh, [index |-> 0, data |-> h, err |-> TRUE])
           /\ UNCHANGED <<log, disk, taken>>
  <2>1. GivenBackOnce' /\ \A d : GivenBack(d)' => GivenBack(d) \/ d = h
    <3>1. GivenBackOnce
      BY DEF Places
    <3> QED
      BY <3>1, <1>1, <1>3, <1>4, <1>7, CommitChBack
  <2>2. TakenOnce' /\ LogOnce'
    BY <1>1, <1>7 DEF Places, TakenOnce, LogOnce
  <2>3. PlacesApart'
    BY <2>1, <1>3, <1>4, <1>7 DEF Places, PlacesApart
  <2>4. ASSUME NEW d \in Command, Outstanding(d)'
        PROVE  Outstanding(d)
    <3>1. d = h => Outstanding(d)
      BY <1>3 DEF Outstanding, Current
    <3>2. Unprocessed(d)' => d \in taken
      BY <1>7 DEF Unprocessed
    <3> QED
      BY <3>1, <3>2, <2>1, <2>4, <1>1, <1>3, <1>5 DEF Outstanding
  <2> QED
    BY <2>1, <2>2, <2>3, <2>4, <1>3 DEF Places
<1> QED
  BY <1>2, <1>6, <1>7 DEF RaftAppend

\* More is committed: nothing is given back by that.
LEMMA PlacesCommit ==
  ASSUME IInv, Places, NEW n \in 1..Len(log), RaftCommit(n)
  PROVE  Places' /\ \A d \in Command : Outstanding(d)' => Outstanding(d)
<1> DEFINE new == [k \in 1..(n - committed) |->
              [index |-> committed + k, data |-> log[committed + k], err |-> FALSE]]
<1>0. /\ n \in (committed + 1)..Len(log)
      /\ commitCh' = commitCh \o new \/ UNCHANGED commitCh
      /\ UNCHANGED <<eventCh, log, disk, taken, done, lives, reqs>>
  BY DEF RaftCommit, serverVars
<1>1. /\ committed \in Nat /\ Len(log) \in Nat /\ log \in Seq(Command) /\ n \in Nat
      /\ commitCh \in Seq(CommitValue) /\ Len(commitCh) \in Nat /\ n - committed \in Nat
  <2>1. /\ committed \in Nat /\ Len(log) \in Nat /\ log \in Seq(Command)
        /\ commitCh \in Seq(CommitValue)
    BY Types
  <2>2. n \in (committed + 1)..Len(log)
    BY <1>0
  <2>3. Len(commitCh) \in Nat
    BY <2>1, LenProperties
  <2> QED
    BY <2>1, <2>2, <2>3
<1>2. /\ new \in Seq(CommitValue) /\ Len(new) = n - committed
      /\ \A k \in 1..(n - committed) : ~new[k].err
  <2>1. \A k \in 1..(n - committed) : new[k] \in CommitValue /\ ~new[k].err
    <3> SUFFICES ASSUME NEW k \in 1..(n - committed)
                 PROVE  new[k] \in CommitValue /\ ~new[k].err
      OBVIOUS
    <3>1. committed + k \in 1..Len(log) /\ committed + k \in Nat
      BY <1>0, <1>1
    <3>2. log[committed + k] \in Command
      BY <3>1, <1>1, ElementOfSeq
    <3> QED
      BY <3>1, <3>2 DEF CommitValue
  <2>2. new \in [1..(n - committed) -> CommitValue]
    BY <2>1
  <2> HIDE DEF new
  <2> QED
    BY <2>1, <2>2, <1>1, SeqDef
<1> HIDE DEF new
<1>3. GivenBackOnce' /\ \A d : GivenBack(d)' => GivenBack(d)
  <2>1. CASE UNCHANGED commitCh
    BY <2>1, <1>0 DEF Places, GivenBackOnce, GivenBack, Current
  <2>2. CASE commitCh' = commitCh \o new
    <3>1. \A k \in 1..Len(commitCh') : commitCh'[k].err =>
            k \in 1..Len(commitCh) /\ commitCh'[k] = commitCh[k]
      <4>1. /\ Len(commitCh') = Len(commitCh) + (n - committed)
            /\ \A k \in 1..(Len(commitCh) + (n - committed)) :
                 commitCh'[k] = IF k <= Len(commitCh) THEN commitCh[k]
                                ELSE new[k - Len(commitCh)]
        <5>1. /\ commitCh \in Seq(CommitValue) /\ new \in Seq(CommitValue)
              /\ n - committed \in Nat /\ Len(new) = n - committed
          BY <1>1, <1>2
        <5>2. /\ Len(commitCh \o new) = Len(commitCh) + (n - committed)
              /\ \A k \in 1..(Len(commitCh) + (n - committed)) :
                   (commitCh \o new)[k] = IF k <= Len(commitCh) THEN commitCh[k]
                                          ELSE new[k - Len(commitCh)]
          BY <5>1, Appended
        <5> QED
          BY <2>2, <5>2
      <4>2. ASSUME NEW k \in 1..Len(commitCh'), commitCh'[k].err
            PROVE  k \in 1..Len(commitCh) /\ commitCh'[k] = commitCh[k]
        <5>1. CASE k <= Len(commitCh)
          BY <5>1, <4>1, <1>1
        <5>2. CASE ~(k <= Len(commitCh))
          <6>1. k - Len(commitCh) \in 1..(n - committed)
            BY <5>2, <4>1, <1>1
          <6> QED
            BY <6>1, <5>2, <4>1, <4>2, <1>2
        <5> QED
          BY <5>1, <5>2
      <4> QED
        BY <4>2
    <3>2. \A j, k \in 1..Len(commitCh') :
            commitCh'[j].err /\ commitCh'[k].err /\ commitCh'[j].data = commitCh'[k].data
              => j = k
      BY <3>1 DEF Places, GivenBackOnce
    <3>3. \A k \in 1..Len(commitCh') : commitCh'[k].err => Current(commitCh'[k].data)
      BY <3>1 DEF Places, GivenBackOnce
    <3>4. \A d : GivenBack(d)' => GivenBack(d)
      BY <3>1 DEF GivenBack
    <3> QED
      BY <3>2, <3>3, <3>4, <1>0 DEF GivenBackOnce, Current
  <2> QED
    BY <1>0, <2>1, <2>2
<1>4. SentOnce' /\ TakenOnce' /\ LogOnce'
  BY <1>0 DEF Places, SentOnce, TakenOnce, LogOnce, Current
<1>5. PlacesApart'
  BY <1>0, <1>3 DEF Places, PlacesApart, Sent
<1>6. \A d \in Command : Outstanding(d)' => Outstanding(d)
  BY <1>0, <1>3 DEF Outstanding, Sent, Unprocessed
<1> QED
  BY <1>3, <1>4, <1>5, <1>6 DEF Places

\* Entries that are not committed are replaced: what has been processed stays.
LEMMA PlacesReplace ==
  ASSUME IInv, Places, NEW n \in 0..Len(log), RaftReplace(n)
  PROVE  Places' /\ \A d \in Command : Outstanding(d)' => Outstanding(d)
<1>1. /\ UNCHANGED <<eventCh, commitCh, taken, serverVars, lives, reqs>>
      /\ Len(log') = n \/ Len(log') = n + 1
      /\ \A k \in 1..n : log'[k] = log[k]
  BY ReplacedLog
<1>2. PICK d \in taken \cup {Foreign} :
        /\ Len(log') = n + 1 => log'[n + 1] = d
        /\ \A k \in 1..n : d # Foreign => log[k] # d
        /\ \A k \in 1..Len(disk') :
             disk'[k] = d \/ \E j \in 1..Len(disk) : disk'[k] = disk[j]
  BY ReplacedLog
<1>3. \A k \in 1..Len(log') :
        \/ k \in 1..n /\ k \in 1..Len(log) /\ log'[k] = log[k]
        \/ k = n + 1 /\ log'[k] = d
  <2>1. Len(log) \in Nat /\ n \in Nat /\ n <= Len(log)
    BY Types
  <2>2. \A k \in 1..Len(log') :
          (k \in 1..n /\ k \in 1..Len(log)) \/ (k = n + 1 /\ Len(log') = n + 1)
    BY <1>1, <2>1
  <2> QED
    BY <2>2, <1>1, <1>2
<1>4. \A k \in 1..Len(log') : log'[k] \in taken' \cup {Foreign}
  BY <1>1, <1>3 DEF Places, LogOnce
<1>5. \A k \in 1..Len(disk') : disk'[k] \in taken' \cup {Foreign}
  BY <1>1, <1>2 DEF Places, LogOnce
<1>6. ASSUME NEW j \in 1..Len(log'), NEW k \in 1..Len(log'), log'[j] = log'[k],
             log'[j] # Foreign, log'[j].life = lives
      PROVE  j = k
  <2>1. CASE /\ j \in 1..Len(log) /\ log'[j] = log[j]
             /\ k \in 1..Len(log) /\ log'[k] = log[k]
    BY <2>1, <1>6 DEF Places, LogOnce
  <2>2. CASE j = n + 1 /\ log'[j] = d /\ k \in 1..n /\ log'[k] = log[k]
    BY <2>2, <1>2, <1>6
  <2>3. CASE k = n + 1 /\ log'[k] = d /\ j \in 1..n /\ log'[j] = log[j]
    BY <2>3, <1>2, <1>6
  <2>4. CASE j = n + 1 /\ k = n + 1
    BY <2>4
  <2> QED
    BY <2>1, <2>2, <2>3, <2>4, <1>3
<1>7. LogOnce'
  <2>1. UNCHANGED lives
    BY <1>1
  <2> QED
    BY <2>1, <1>4, <1>5, <1>6 DEF LogOnce
<1>8. SentOnce' /\ GivenBackOnce' /\ TakenOnce'
  <2>1. SentOnce'
    BY <1>1 DEF Places, SentOnce, Current
  <2>2. GivenBackOnce'
    BY <1>1 DEF Places, GivenBackOnce, Current
  <2>3. TakenOnce'
    BY <1>1 DEF Places, TakenOnce
  <2> QED
    BY <2>1, <2>2, <2>3
<1>9. PlacesApart'
  BY <1>1 DEF Places, PlacesApart, Sent, GivenBack
<1>10. \A e \in Command : Outstanding(e)' => Outstanding(e)
  BY <1>1 DEF Outstanding, Sent, GivenBack, Unprocessed, serverVars
<1> QED
  BY <1>7, <1>8, <1>9, <1>10 DEF Places

\* A restart empties the channels; what was taken is of an earlier life.
LEMMA PlacesRestart ==
  ASSUME IInv, Places, Restart
  PROVE  Places' /\ \A d : ~Outstanding(d)'
<1>1. /\ lives' = lives + 1 /\ eventCh' = <<>> /\ commitCh' = <<>>
      /\ log' = disk /\ UNCHANGED <<disk, taken, reqs>>
  BY DEF Restart
<1>2. lives \in Nat /\ reqs \in Nat /\ taken \subseteq Command
  BY Types
<1>3. \A d : ~Sent(d)' /\ ~GivenBack(d)'
  BY <1>1 DEF Sent, GivenBack
<1>4. SentOnce' /\ GivenBackOnce'
  BY <1>1 DEF SentOnce, GivenBackOnce
<1>5. \A d \in taken : d.req \in 1..reqs /\ d.life <= lives' /\ d.life # lives'
  <2> SUFFICES ASSUME NEW d \in taken
               PROVE  d.req \in 1..reqs /\ d.life <= lives' /\ d.life # lives'
    OBVIOUS
  <2>1. d.life \in Nat
    BY <1>2 DEF Command
  <2>2. d.req \in 1..reqs /\ d.life <= lives
    BY DEF Places, TakenOnce
  <2> QED
    BY <2>1, <2>2, <1>1, <1>2
<1>6. TakenOnce' /\ LogOnce'
  <2>1. TakenOnce'
    BY <1>1, <1>5 DEF TakenOnce
  <2>2. \A n \in 1..Len(disk) : disk[n] \in taken \cup {Foreign}
    BY DEF Places, LogOnce
  <2>3. \A n \in 1..Len(disk) : disk[n] # Foreign => disk[n].life # lives'
    BY <2>2, <1>5
  <2>4. \A n \in 1..Len(disk) : disk[n] \in taken' \cup {Foreign}
    BY <2>2, <1>1
  <2>5. log' = disk /\ disk' = disk
    BY <1>1
  <2> QED
    BY <2>1, <2>3, <2>4, <2>5 DEF LogOnce
<1>7. PlacesApart'
  BY <1>3 DEF PlacesApart
<1>8. \A d : ~Outstanding(d)'
  BY <1>1, <1>3, <1>5 DEF Outstanding, Unprocessed
<1> QED
  BY <1>4, <1>6, <1>7, <1>8 DEF Places

-----------------------------------------------------------------------------
(* Who waits for what after a step *)

\* While the process runs, a listener that is not misled after a step was not
\* before: what is asked of clients then needs to be shown only in that case.
LEMMA NotMisledBefore ==
  ASSUME WaitInv, [Next]_vars, UNCHANGED lives, ~Misled'
  PROVE  ~Misled /\ Waited /\ SendsWaited
  BY MisledStays DEF WaitInv

\* Steps of the RaftNode leave the clients alone.
LEMMA WaitStays ==
  ASSUME WaitInv, [Next]_vars, Fewer
  PROVE  AnsweredOwn' /\ (~Misled' => Waited' /\ SendsWaited')
<1>1. UNCHANGED <<clientid, conn, asked, sending, lives, answered>>
      /\ \A d \in Command : Outstanding(d)' => Outstanding(d)
  BY DEF Fewer
<1>2. Misled => Misled'
  BY <1>1, MisledStays DEF WaitInv
<1>3. AnsweredOwn'
  BY <1>1, <1>2 DEF WaitInv, AnsweredOwn
<1>4. ASSUME ~Misled'
      PROVE  Waited' /\ SendsWaited'
  <2>1. Waited /\ SendsWaited
    BY <1>1, <1>4, NotMisledBefore
  <2>2. Waited'
    BY <2>1, <1>1 DEF Waited, WaitsFor, HasChannel
  <2>3. SendsWaited'
    BY <2>1, <1>1 DEF SendsWaited, WaitsFor, HasChannel
  <2> QED
    BY <2>2, <2>3
<1> QED
  BY <1>3, <1>4

\* A client that comes has the next id, and nothing is outstanding for it.
LEMMA WaitAccept ==
  ASSUME WaitInv, Accept
  PROVE  AnsweredOwn' /\ (~Misled' => Waited' /\ SendsWaited')
<1>1. /\ clientid' = clientid + 1 /\ conn' = Append(conn, "reading")
      /\ asked' = Append(asked, 0) /\ sending = Nothing
      /\ UNCHANGED <<sending, answered, lives, eventCh, commitCh, log, taken, done>>
  BY DEF Accept, raftVars
<1>2. clientid \in Nat /\ conn \in [1..clientid -> Serve] /\ asked \in [1..clientid -> Nat]
  BY Types DEF WaitInv
<1>3. \A c \in 1..clientid : conn'[c] = conn[c] /\ asked'[c] = asked[c] /\ c \in 1..clientid'
  <2>1. /\ conn \in Seq(Serve) /\ Len(conn) = clientid /\ "reading" \in Serve
        /\ asked \in Seq(Nat) /\ Len(asked) = clientid /\ 0 \in Nat
    BY <1>2, SeqDef DEF Serve
  <2>2. \A c \in 1..clientid : conn'[c] = conn[c]
    BY <1>1, <2>1, AppendedOne
  <2>3. \A c \in 1..clientid : asked'[c] = asked[c]
    BY <1>1, <2>1, AppendedOne
  <2> QED
    BY <2>2, <2>3, <1>1, <1>2
<1>4. Misled => Misled'
  BY <1>1, MisledStays DEF WaitInv, Next
<1>5. AnsweredOwn'
  BY <1>1, <1>4 DEF WaitInv, AnsweredOwn
<1>6. ASSUME ~Misled'
      PROVE  Waited' /\ SendsWaited'
  <2>1. Waited
    BY <1>4, <1>6 DEF WaitInv
  <2>2. \A d \in Command : Outstanding(d)' => Outstanding(d)
    BY <1>1 DEF Outstanding, Sent, GivenBack, Unprocessed
  <2>3. Waited'
    BY <2>1, <2>2, <1>3 DEF Waited, WaitsFor, HasChannel
  <2>4. SendsWaited'
    BY <1>1 DEF SendsWaited
  <2> QED
    BY <2>3, <2>4
<1> QED
  BY <1>5, <1>6

\* A client that sends a command had none that is outstanding.
LEMMA WaitRequest ==
  ASSUME WaitInv, NEW c \in 1..clientid, Request(c)
  PROVE  AnsweredOwn' /\ (~Misled' => Waited' /\ SendsWaited')
<1>1. /\ conn[c] = "reading" /\ reqs' = reqs + 1
      /\ asked' = [asked EXCEPT ![c] = reqs + 1] /\ conn' = [conn EXCEPT ![c] = "waiting"]
      /\ UNCHANGED <<clientid, sending, answered, lives, commitCh, log, taken, done>>
  BY DEF Request
<1>2. PICK new : new = [client |-> c, req |-> reqs + 1, life |-> lives]
  OBVIOUS
<1>3. new.client = c /\ new.req = reqs + 1
  BY <1>2
<1>4. \A d : Sent(d)' => Sent(d) \/ d = new
  BY <1>2, PlacesRequest DEF WaitInv
<1>5. conn \in [1..clientid -> Serve] /\ asked \in [1..clientid -> Nat]
  BY Types DEF WaitInv
<1>6. Misled => Misled'
  BY <1>1, MisledStays DEF WaitInv, Next
<1>7. AnsweredOwn'
  BY <1>1, <1>6 DEF WaitInv, AnsweredOwn
<1>8. ASSUME ~Misled'
      PROVE  Waited' /\ SendsWaited'
  <2>1. Waited /\ SendsWaited
    BY <1>6, <1>8 DEF WaitInv
  <2>2. \A d \in Command : Outstanding(d)' => Outstanding(d) \/ d = new
    BY <1>1, <1>4 DEF Outstanding, GivenBack, Unprocessed
  <2>3. \A d \in Command : Outstanding(d) => d.client # c
    BY <2>1, <1>1 DEF Waited, WaitsFor
  <2>4. \A e, r : e # c /\ WaitsFor(e, r) => WaitsFor(e, r)'
    BY <1>1, <1>5 DEF WaitsFor, HasChannel
  <2>5. WaitsFor(new.client, new.req)'
    <3>1. conn'[c] = "waiting" /\ asked'[c] = reqs + 1 /\ c \in 1..clientid'
      BY <1>1, <1>5
    <3> QED
      BY <3>1, <1>3 DEF WaitsFor, HasChannel
  <2>6. Waited'
    <3>1. ASSUME NEW d \in Command, Outstanding(d)'
          PROVE  WaitsFor(d.client, d.req)'
      BY <3>1, <2>1, <2>2, <2>3, <2>4, <2>5 DEF Waited
    <3> QED
      BY <3>1 DEF Waited
  <2>7. SendsWaited'
    <3>1. ASSUME sending # Nothing
          PROVE  /\ WaitsFor(sending.to, sending.req)'
                 /\ \A d \in Command : Outstanding(d)' => d.client # sending.to
      <4>1. WaitsFor(sending.to, sending.req) /\ sending.to # c
        BY <3>1, <2>1, <1>1 DEF SendsWaited, WaitsFor
      <4>2. WaitsFor(sending.to, sending.req)'
        BY <4>1, <2>4, <1>1
      <4> QED
        BY <4>1, <4>2, <3>1, <2>1, <2>2, <1>3 DEF SendsWaited
    <3> QED
      BY <3>1, <1>1 DEF SendsWaited
  <2> QED
    BY <2>6, <2>7
<1> QED
  BY <1>7, <1>8

\* A client that goes while its serve reads has no command outstanding.
LEMMA WaitHangup ==
  ASSUME WaitInv, NEW c \in 1..clientid, Hangup(c)
  PROVE  AnsweredOwn' /\ (~Misled' => Waited' /\ SendsWaited')
<1>1. /\ conn[c] = "reading" /\ conn' = [conn EXCEPT ![c] = "ended"]
      /\ UNCHANGED <<clientid, asked, sending, answered, lives,
                     eventCh, commitCh, log, taken, done>>
  BY DEF Hangup, raftVars
<1>2. conn \in [1..clientid -> Serve]
  BY Types DEF WaitInv
<1>3. Misled => Misled'
  BY <1>1, MisledStays DEF WaitInv, Next
<1>4. AnsweredOwn'
  BY <1>1, <1>3 DEF WaitInv, AnsweredOwn
<1>5. ASSUME ~Misled'
      PROVE  Waited' /\ SendsWaited'
  <2>1. Waited /\ SendsWaited
    BY <1>3, <1>5 DEF WaitInv
  <2>2. \A d \in Command : Outstanding(d)' => Outstanding(d)
    BY <1>1 DEF Outstanding, Sent, GivenBack, Unprocessed
  <2>3. \A e, r : WaitsFor(e, r) => WaitsFor(e, r)'
    BY <1>1, <1>2 DEF WaitsFor, HasChannel
  <2>4. Waited'
    BY <2>1, <2>2, <2>3 DEF Waited
  <2>5. SendsWaited'
    <3>1. sending # Nothing => WaitsFor(sending.to, sending.req)'
      BY <2>1, <1>1, <1>2 DEF SendsWaited, WaitsFor, HasChannel
    <3>2. sending # Nothing => \A d \in Command : Outstanding(d)' => d.client # sending.to
      BY <2>1, <2>2 DEF SendsWaited
    <3>3. sending' = sending
      BY <1>1
    <3> QED
      BY <3>1, <3>2, <3>3 DEF SendsWaited, WaitsFor, HasChannel
  <2> QED
    BY <2>4, <2>5
<1> QED
  BY <1>4, <1>5

\* A client receives what it waits for, and then waits for nothing.
LEMMA WaitReceive ==
  ASSUME WaitInv, NEW c \in 1..clientid, Receive(c)
  PROVE  AnsweredOwn' /\ (~Misled' => Waited' /\ SendsWaited')
<1>1. PICK new : new = [asked |-> asked[c], got |-> sending.req, client |-> c, life |-> lives]
  OBVIOUS
<1>2. /\ sending.to = c /\ sending' = Nothing /\ answered' = answered \cup {new}
      /\ asked' = [asked EXCEPT ![c] = 0]
      /\ conn' = [conn EXCEPT ![c] = "ended"] \/ conn' = [conn EXCEPT ![c] = "reading"]
      /\ UNCHANGED <<clientid, lives, eventCh, commitCh, log, taken, done>>
  BY <1>1 DEF Receive, raftVars
<1>3. /\ conn \in [1..clientid -> Serve] /\ asked \in [1..clientid -> Nat]
      /\ lives \in Nat /\ clientid \in Nat
  BY Types DEF WaitInv
<1>4. Misled => Misled'
  BY <1>2, MisledStays DEF WaitInv, Next
<1>5. sending # Nothing
  BY <1>2, <1>3 DEF Nothing
<1>6. ~Misled => new.asked = new.got /\ \A d \in Command : Outstanding(d) => d.client # c
  <2>1. ~Misled => WaitsFor(sending.to, sending.req)
                   /\ \A d \in Command : Outstanding(d) => d.client # sending.to
    BY <1>5 DEF WaitInv, SendsWaited
  <2> QED
    BY <2>1, <1>1, <1>2 DEF WaitsFor
<1>7. AnsweredOwn'
  <2>1. new.life \in Nat /\ new.life <= lives
    BY <1>1, <1>3
  <2> QED
    BY <2>1, <1>2, <1>4, <1>6 DEF WaitInv, AnsweredOwn
<1>8. ASSUME ~Misled'
      PROVE  Waited' /\ SendsWaited'
  <2>1. Waited
    BY <1>4, <1>8 DEF WaitInv
  <2>2. \A d \in Command : Outstanding(d)' => Outstanding(d)
    BY <1>2 DEF Outstanding, Sent, GivenBack, Unprocessed
  <2>3. \A e, r : e # c /\ WaitsFor(e, r) => WaitsFor(e, r)'
    BY <1>2, <1>3 DEF WaitsFor, HasChannel
  <2>4. Waited'
    BY <2>1, <2>2, <2>3, <1>4, <1>6, <1>8 DEF Waited
  <2>5. SendsWaited'
    BY <1>2 DEF SendsWaited
  <2> QED
    BY <2>4, <2>5
<1> QED
  BY <1>7, <1>8

\* The listener begins to send to the client of a command d that is no longer
\* outstanding: no other one of that client is.
LEMMA WaitSends ==
  ASSUME WaitInv, [Next]_vars, NEW d \in Command, NEW err \in BOOLEAN,
         SendTo(d, err), UNCHANGED <<clientid, conn, asked, answered, lives>>,
         ~Misled => (HasChannel(d.client) => Outstanding(d)),
         \A e \in Command : Outstanding(e)' => Outstanding(e) /\ e # d
  PROVE  AnsweredOwn' /\ (~Misled' => Waited' /\ SendsWaited')
<1>1. Misled => Misled'
  BY MisledStays DEF WaitInv
<1>2. AnsweredOwn'
  BY <1>1 DEF WaitInv, AnsweredOwn
<1>3. ASSUME ~Misled'
      PROVE  Waited' /\ SendsWaited'
  <2>1. Waited
    BY <1>1, <1>3 DEF WaitInv
  <2>2. Waited'
    BY <2>1 DEF Waited, WaitsFor, HasChannel
  <2>3. CASE ~HasChannel(d.client)
    <3>1. sending' = Nothing
      BY <2>3 DEF SendTo
    <3> QED
      BY <3>1, <2>2 DEF SendsWaited
  <2>4. CASE HasChannel(d.client)
    <3>1. sending'.to = d.client /\ sending'.req = d.req
      BY <2>4 DEF SendTo
    <3>2. Outstanding(d) /\ WaitsFor(d.client, d.req)
      BY <2>1, <2>4, <1>1, <1>3 DEF Waited
    <3>3. WaitsFor(sending.to, sending.req)'
      BY <3>1, <3>2 DEF WaitsFor, HasChannel
    <3>4. \A e \in Command : Outstanding(e)' => e.client # sending'.to
      <4> SUFFICES ASSUME NEW e \in Command, Outstanding(e)', e.client = d.client
                   PROVE  FALSE
        BY <3>1
      <4>1. Outstanding(e) /\ e # d
        OBVIOUS
      <4>2. e.req = d.req /\ e.life = d.life
        <5>1. e.life = d.life
          BY <4>1, <3>2 DEF Outstanding
        <5>2. WaitsFor(e.client, e.req)
          BY <4>1, <2>1 DEF Waited
        <5> QED
          BY <5>1, <5>2, <3>2 DEF WaitsFor
      <4>3. e = d
        BY <4>2 DEF Command
      <4> QED
        BY <4>1, <4>3
    <3> QED
      BY <2>2, <3>3, <3>4 DEF SendsWaited
  <2> QED
    BY <2>3, <2>4
<1> QED
  BY <1>2, <1>3

\* The listener answers a command given back, which then is nowhere else.
LEMMA WaitListen ==
  ASSUME WaitInv, ListenCommitChannel
  PROVE  AnsweredOwn' /\ (~Misled' => Waited' /\ SendsWaited')
<1>1. PICK v : v = Head(commitCh)
  OBVIOUS
<1>2. /\ commitCh # <<>> /\ commitCh' = Tail(commitCh)
      /\ UNCHANGED <<clientid, conn, asked, done, answered, eventCh, log, taken, lives, reqs>>
      /\ (v.err /\ SendTo(v.data, TRUE)) \/ (~v.err /\ UNCHANGED sending)
  BY <1>1 DEF ListenCommitChannel
<1>3. /\ v \in CommitValue /\ (v.err => Current(v.data) /\ GivenBack(v.data))
      /\ \A d : GivenBack(d)' => GivenBack(d) /\ (v.err => d # v.data)
  BY <1>1, <1>2, CommitChTail DEF WaitInv, Places
<1>4. \A d \in Command : Outstanding(d)' => Outstanding(d)
  BY <1>2, <1>3 DEF Outstanding, Sent, Unprocessed
<1>5. CASE ~v.err
  BY <1>5, <1>2, <1>4, WaitStays DEF Fewer, Next
<1>6. CASE v.err
  <2>1. v.data \in Command /\ Outstanding(v.data)
    BY <1>3, <1>6 DEF CommitValue, Outstanding, Current
  <2>2. ~Sent(v.data) /\ v.data \notin taken
    BY <2>1, <1>3, <1>6 DEF WaitInv, Places, PlacesApart
  <2>3. \A e \in Command : Outstanding(e)' => Outstanding(e) /\ e # v.data
    <3> SUFFICES ASSUME NEW e \in Command, Outstanding(e)'
                 PROVE  e # v.data
      BY <1>4
    <3>1. Sent(e) \/ GivenBack(e)' \/ e \in taken
      BY <1>2 DEF Outstanding, Sent, Unprocessed
    <3> QED
      BY <3>1, <2>2, <1>3, <1>6
  <2> HIDE DEF WaitInv
  <2> QED
    BY <2>1, <2>3, <1>2, <1>6, WaitSends DEF Next
<1> QED
  BY <1>5, <1>6

\* The listener processes the next command: if it is of a client of this life, and
\* the disk is right, it is outstanding until then.
LEMMA WaitProcess ==
  ASSUME WaitInv, NEW p,
         \/ ProcessMissing /\ p = disk[processing.next]
         \/ ProcessLast /\ p = processing.data
  PROVE  AnsweredOwn' /\ (~Misled' => Waited' /\ SendsWaited')
<1>0. IInv
  BY DEF WaitInv
<1>1. PICK n : n = processing.next
  OBVIOUS
<1>2. UNCHANGED <<clientid, conn, asked, answered, eventCh, commitCh, log, disk, committed,
                  taken, lives, reqs>>
  BY DEF ProcessMissing, ProcessLast, raftVars
<1>3. /\ p \in Command /\ n = Len(done) + 1 /\ n \in 1..committed
      /\ done' = Append(done, p) /\ SendTo(p, FALSE)
      /\ DiskAgrees => p = log[n]
      /\ p = log[n] \/ \E k \in 1..Len(disk) : p = disk[k]
  BY <1>0, <1>1, NextCommand
<1>4. /\ committed \in Nat /\ Len(log) \in Nat /\ committed <= Len(log)
      /\ done \in Seq(Command) /\ Len(done) \in Nat /\ clientid \in Nat /\ lives \in Nat
  BY <1>0, Types
<1>5. n \in 1..Len(log) /\ n \in Nat
  BY <1>3, <1>4
<1>6. \A d : Unprocessed(d)' => Unprocessed(d) /\ d # p
  <2>1. /\ Len(done') = Len(done) + 1 /\ done'[Len(done) + 1] = p
        /\ \A k \in 1..Len(done) : done'[k] = done[k]
    BY <1>3, <1>4, AppendedOne
  <2>2. \A k \in 1..Len(done) : k \in 1..Len(done')
    BY <2>1, <1>4
  <2>3. Len(done) + 1 \in 1..Len(done')
    BY <2>1, <1>4
  <2> QED
    BY <2>1, <2>2, <2>3, <1>2 DEF Unprocessed
<1>7. p \in taken \cup {Foreign}
  BY <1>3, <1>5 DEF WaitInv, Places, LogOnce
<1>8. \A e \in Command : Outstanding(e)' => Outstanding(e) /\ e # p
  <2> SUFFICES ASSUME NEW e \in Command, Outstanding(e)'
               PROVE  Outstanding(e) /\ e # p
    OBVIOUS
  <2>1. Outstanding(e)
    BY <1>2, <1>6 DEF Outstanding, Sent, GivenBack
  <2>2. e # Foreign
    <3>1. e.req # 0
      <4>1. Sent(e) => Current(e)
        BY DEF WaitInv, Places, SentOnce, Sent
      <4>2. GivenBack(e) => Current(e)
        BY DEF WaitInv, Places, GivenBackOnce, GivenBack
      <4>3. Unprocessed(e) => e.req \in 1..reqs
        BY DEF WaitInv, Places, TakenOnce, Unprocessed
      <4>4. e.req \in 1..reqs
        BY <2>1, <4>1, <4>2, <4>3 DEF Outstanding, Current
      <4> QED
        BY <4>4
    <3> QED
      BY <3>1 DEF Foreign
  <2>3. e \in taken => Unprocessed(e)'
    <3>1. e \in taken => ~Sent(e) /\ ~GivenBack(e)
      BY DEF WaitInv, Places, PlacesApart
    <3>2. (Sent(e)' => Sent(e)) /\ (GivenBack(e)' => GivenBack(e))
      BY <1>2 DEF Sent, GivenBack
    <3> QED
      BY <3>1, <3>2 DEF Outstanding
  <2> QED
    BY <2>1, <2>2, <2>3, <1>6, <1>7
<1>9. ASSUME ~Misled, HasChannel(p.client)
      PROVE  Outstanding(p)
  <2>1. p = log[n] /\ ~Reused /\ DiskAgrees
    BY <1>3, <1>9 DEF Misled
  <2>2. p \in taken
    BY <1>4, <1>7, <1>9 DEF Foreign, HasChannel
  <2>3. p.life = lives
    <3>1. p.life <= lives /\ p.life \in Nat
      <4>1. p.life <= lives
        BY <2>2 DEF WaitInv, Places, TakenOnce
      <4>2. p.life \in Nat
        BY <1>3 DEF Command
      <4> QED
        BY <4>1, <4>2
    <3>2. ~(p.life < lives)
      BY <1>3, <1>9, <2>1 DEF Reused
    <3> QED
      BY <3>1, <3>2, <1>4
  <2>4. p # Foreign
    <3>1. p.req \in 1..reqs
      BY <2>2 DEF WaitInv, Places, TakenOnce
    <3>2. p.req # 0
      BY <3>1
    <3> QED
      BY <3>2 DEF Foreign
  <2>5. \A k \in 1..Len(done) : done[k] # p
    <3> SUFFICES ASSUME NEW k \in 1..Len(done), done[k] = p
                 PROVE  FALSE
      OBVIOUS
    <3>1. k \in 1..Len(log) /\ k # n
      BY <1>3, <1>4
    <3>2. log[k] = p
      BY <2>1, <1>0 DEF IInv, DoneAsLogged
    <3> QED
      BY <3>1, <3>2, <2>1, <2>3, <2>4, <1>5 DEF WaitInv, Places, LogOnce
  <2> QED
    BY <2>2, <2>3, <2>5 DEF Outstanding, Unprocessed
<1>10. [Next]_vars
  BY DEF Next
<1> HIDE DEF WaitInv
<1> QED
  BY <1>2, <1>3, <1>8, <1>9, <1>10, WaitSends

\* After a restart nothing is outstanding and nobody is answered.
LEMMA WaitRestart ==
  ASSUME WaitInv, Restart
  PROVE  AnsweredOwn' /\ (~Misled' => Waited' /\ SendsWaited')
<1>1. lives' = lives + 1 /\ sending' = Nothing /\ UNCHANGED answered
  BY DEF Restart
<1>2. \A d : ~Outstanding(d)'
  BY PlacesRestart DEF WaitInv
<1>3. lives \in Nat
  BY Types DEF WaitInv
<1>4. \A a \in answered : a.life \in Nat /\ a.life <= lives' /\ a.life # lives'
  BY <1>1, <1>3 DEF WaitInv, AnsweredOwn
<1>5. AnsweredOwn'
  BY <1>1, <1>4 DEF AnsweredOwn
<1> QED
  BY <1>1, <1>2, <1>5 DEF Waited, SendsWaited

\* Commands are where they should be, and clients wait for them.
LEMMA WaitInit == Init => Places /\ AnsweredOwn /\ Waited /\ SendsWaited
<1> SUFFICES ASSUME Init PROVE Places /\ AnsweredOwn /\ Waited /\ SendsWaited
  OBVIOUS
<1>1. /\ eventCh = <<>> /\ commitCh = <<>> /\ log = <<>> /\ disk = <<>> /\ taken = {}
      /\ sending = Nothing /\ answered = {}
  BY DEF Init
<1>2. \A d : ~Sent(d) /\ ~GivenBack(d) /\ ~Unprocessed(d)
  BY <1>1 DEF Sent, GivenBack, Unprocessed
<1>3. SentOnce /\ GivenBackOnce /\ TakenOnce /\ LogOnce
  BY <1>1 DEF SentOnce, GivenBackOnce, TakenOnce, LogOnce
<1>4. PlacesApart
  BY <1>1, <1>2 DEF PlacesApart
<1> QED
  BY <1>1, <1>2, <1>3, <1>4 DEF Places, AnsweredOwn, Waited, SendsWaited, Outstanding

\* Every step keeps the places of the commands and who waits for them.
LEMMA WaitNext ==
  ASSUME WaitInv, [Next]_vars
  PROVE  Places' /\ AnsweredOwn' /\ (~Misled' => Waited' /\ SendsWaited')
<1>0. IInv /\ Places
  BY DEF WaitInv
<1>1. CASE Accept
  <2>1. UNCHANGED <<eventCh, commitCh, log, disk, taken, lives, reqs>>
    BY <1>1 DEF Accept, raftVars
  <2> QED
    BY <2>1, <1>0, <1>1, PlacesStay, WaitAccept
<1>2. ASSUME NEW c \in 1..clientid, Request(c)
      PROVE  Places' /\ AnsweredOwn' /\ (~Misled' => Waited' /\ SendsWaited')
  BY <1>0, <1>2, PlacesRequest, WaitRequest
<1>3. ASSUME NEW c \in 1..clientid, Hangup(c)
      PROVE  Places' /\ AnsweredOwn' /\ (~Misled' => Waited' /\ SendsWaited')
  <2>1. UNCHANGED <<eventCh, commitCh, log, disk, taken, lives, reqs>>
    BY <1>3 DEF Hangup, raftVars
  <2> QED
    BY <2>1, <1>0, <1>3, PlacesStay, WaitHangup
<1>4. ASSUME NEW c \in 1..clientid, Receive(c)
      PROVE  Places' /\ AnsweredOwn' /\ (~Misled' => Waited' /\ SendsWaited')
  <2>1. UNCHANGED <<eventCh, commitCh, log, disk, taken, lives, reqs>>
    BY <1>4 DEF Receive, raftVars
  <2> QED
    BY <2>1, <1>0, <1>4, PlacesStay, WaitReceive
<1>5. CASE ListenCommitChannel
  BY <1>0, <1>5, PlacesListen, WaitListen
<1>6. CASE ProcessMissing \/ ProcessLast
  <2>1. UNCHANGED <<eventCh, commitCh, log, disk, taken, lives, reqs>>
    BY <1>6 DEF ProcessMissing, ProcessLast, raftVars
  <2> QED
    BY <2>1, <1>0, <1>6, PlacesStay, WaitProcess
<1>7. CASE RaftAppend
  <2>1. Places' /\ \A d \in Command : Outstanding(d)' => Outstanding(d)
    BY <1>0, <1>7, PlacesAppend
  <2>2. Fewer
    BY <2>1, <1>7 DEF Fewer, RaftAppend, serverVars
  <2> QED
    BY <2>1, <2>2, WaitStays
<1>8. ASSUME NEW n \in 1..Len(log), RaftCommit(n)
      PROVE  Places' /\ AnsweredOwn' /\ (~Misled' => Waited' /\ SendsWaited')
  <2>1. Places' /\ \A d \in Command : Outstanding(d)' => Outstanding(d)
    BY <1>0, <1>8, PlacesCommit
  <2>2. Fewer
    BY <2>1, <1>8 DEF Fewer, RaftCommit, serverVars
  <2> QED
    BY <2>1, <2>2, WaitStays
<1>9. ASSUME NEW n \in 0..Len(log), RaftReplace(n)
      PROVE  Places' /\ AnsweredOwn' /\ (~Misled' => Waited' /\ SendsWaited')
  <2>1. Places' /\ \A d \in Command : Outstanding(d)' => Outstanding(d)
    BY <1>0, <1>9, PlacesReplace
  <2>2. Fewer
    BY <2>1, <1>9 DEF Fewer, RaftReplace, serverVars
  <2> QED
    BY <2>1, <2>2, WaitStays
<1>10. CASE Restart
  BY <1>0, <1>10, PlacesRestart, WaitRestart
<1>11. CASE GetFails \/ UNCHANGED vars
  <2>1. UNCHANGED <<eventCh, commitCh, log, disk, taken, lives, reqs>>
    BY <1>11 DEF GetFails, vars, raftVars
  <2>2. Fewer
    BY <1>11 DEF GetFails, vars, serverVars, raftVars, Fewer, Outstanding, Sent, GivenBack, Unprocessed
  <2> QED
    BY <2>1, <2>2, <1>0, PlacesStay, WaitStays
<1> QED
  BY <1>1, <1>2, <1>3, <1>4, <1>5, <1>6, <1>7, <1>8, <1>9, <1>10, <1>11 DEF Next

\* The condition both properties have covers the committed part of the log.
LEMMA UsedOnce ==
  ASSUME IInv, NoIdReuse, DiskAgrees
  PROVE  ~Misled
<1>1. committed \in Nat /\ Len(log) \in Nat /\ committed <= Len(log)
  BY Types
<1> QED
  BY <1>1 DEF NoIdReuse, Reused, Misled

\* The invariant of the two theorems below.
LEMMA WaitAlways == Spec => []WaitInv
<1>1. Init /\ IInv => WaitInv
  BY WaitInit DEF WaitInv
<1>2. WaitInv /\ [Next]_vars /\ IInv' => WaitInv'
  BY WaitNext DEF WaitInv
<1> QED
  BY <1>1, <1>2, Invariant, PTL DEF Spec

\* While no client has the id of a client of an earlier start whose command is in
\* the log, and the disk is right, the listener, which holds the lock, sends only
\* to clients that wait: no order of commits, redirections and hang-ups makes it
\* stop for ever.
THEOREM NeverStuck == Spec => []ListenerNotStuck
<1>1. WaitInv => ListenerNotStuck
  <2> SUFFICES ASSUME WaitInv, NoIdReuse, DiskAgrees, sending # Nothing
               PROVE  conn[sending.to] = "waiting"
    BY DEF ListenerNotStuck
  <2>1. ~Misled
    BY UsedOnce DEF WaitInv
  <2> QED
    BY <2>1 DEF WaitInv, SendsWaited, WaitsFor
<1> QED
  BY <1>1, WaitAlways, PTL

\* And, under the same condition, a client is answered for the command it sent, whatever else it and others
\* have sent before and wherever their commands have come to.
THEOREM AnswersOwn == Spec => []OwnAnswers
<1>1. WaitInv => OwnAnswers
  <2> SUFFICES ASSUME WaitInv, NoIdReuse, DiskAgrees
               PROVE  \A a \in answered : a.life = lives => a.asked = a.got
    BY DEF OwnAnswers
  <2>1. ~Misled
    BY UsedOnce DEF WaitInv
  <2> QED
    BY <2>1 DEF WaitInv, AnsweredOwn
<1> QED
  BY <1>1, WaitAlways, PTL
=============================================================================
