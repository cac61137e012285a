-------------------------- MODULE RaftCommitProofs --------------------------
(***************************************************************************)
(* Theorems about what Raft commits, in a cluster of odd size: what a      *)
(* majority has taken over from the leader of a term is in the logs of all *)
(* later leaders, and while no server leads twice only such entries are    *)
(* committed, by everybody the same and in order.                          *)
(***************************************************************************)
EXTENDS RaftProofs

-----------------------------------------------------------------------------
(* The inductive invariant *)

\* What every server has taken over in every term: A[v][t] is how far server v
\* has had the log of the leader of term t as that leader's peer, or as leader.
Acks == [Server -> [Nat -> Nat]]

\* The entry at index n of the log of term t's leader is its own.
Own(T, t, n) == n \in 1..Len(T[t]) /\ T[t][n].term = t

\* A majority has taken the entry over, in its own term: it stays.
Chosen(T, A, t, n) ==
  Own(T, t, n) /\ \E Q \in Majorities : \A v \in Q : n <= A[v][t]

\* A majority has gone on to later terms without it (r[v] is the term server v
\* has reached): it is never chosen.
Lost(A, r, t, n) ==
  \E Q \in Majorities : \A v \in Q : t < r[v] /\ A[v][t] < n

\* Log l has the entry, with all before it, unless it is lost.
Carries(T, A, r, l, t, n) == SameUpTo(l, T[t], n) \/ Lost(A, r, t, n)

\* Whatever v has taken over before term u is carried by log l.
CarriesAcks(T, A, r, l, v, u) ==
  \A t \in Nat : \A n \in 1..A[v][t] :
    t < u /\ Own(T, t, n) => Carries(T, A, r, l, t, n)

\* Nobody has taken over what a term's leader has not, or of a later term.
AcksReached(T, A) ==
  \A v \in Server, t \in Nat :
    A[v][t] <= Len(T[t]) /\ (currentTerm[v] < t => A[v][t] = 0)

\* A server keeps what it has taken over in its term, and carries the rest.
AcksKept(T, A) ==
  \A v \in Server :
    /\ SameUpTo(log[v], T[currentTerm[v]], A[v][currentTerm[v]])
    /\ CarriesAcks(T, A, currentTerm, log[v], v, currentTerm[v])

LeadersAck(A) ==
  \A i \in Server : state[i] = "LEADER" => A[i][currentTerm[i]] = Len(log[i])

\* A leader carries every earlier leader's entries, taken over or not.
LeadersCarry(T, A) ==
  \A e \in elected : \A t \in Nat : \A n \in 1..Len(T[t]) :
    t < e[1] /\ Own(T, t, n) => Carries(T, A, currentTerm, T[e[1]], t, n)

\* A candidate carries what those who have voted for it have taken over.
CandidatesCarry(T, A) ==
  \A b \in ballots :
    state[b.candidate] = "CANDIDATE" /\ currentTerm[b.candidate] = b.term =>
      CarriesAcks(T, A, currentTerm, log[b.candidate], b.voter, b.term)

\* While the candidate is one, a request for votes describes its log.
VoteRequestsTrue ==
  \A i, j \in Server : \A m \in In(net[i][j]) :
    IsVoteRequest(m) /\ state[i] = "CANDIDATE" /\ currentTerm[i] = m.term =>
      /\ m.lastLogIndex = Len(log[i])
      /\ m.lastLogTerm = TermAt(log[i], Len(log[i]))

\* An append request reaches as far as its receiver has got in its term, and
\* to the end of the log the leader began with.
RequestsReach(T, A) ==
  \A i, j \in Server : \A m \in In(net[i][j]) : IsAppend(m) =>
    /\ A[j][m.term] <= End(m)
    /\ \A n \in (End(m) + 1)..Len(T[m.term]) : T[m.term][n].term = m.term

\* No append request reaches less far than one before it, of the same term.
Reaching(a, b) ==
  IsAppend(a) /\ IsAppend(b) /\ a.term = b.term => End(a) <= End(b)

Reached(q) == \A a, b \in 1..Len(q) : a < b => Reaching(q[a], q[b])

RequestsInOrder == \A i, j \in Server : Reached(net[i][j])

\* An acknowledgement is the receiver's, of a term it has led, and true.
AcceptsTrue(A) ==
  \A i, j \in Server : \A m \in In(net[j][i]) : IsAccept(m) =>
    <<m.term, i>> \in elected /\ m.index <= A[j][m.term]

AckInv(T, A) ==
  /\ AcksReached(T, A) /\ AcksKept(T, A) /\ LeadersAck(A)
  /\ LeadersCarry(T, A) /\ CandidatesCarry(T, A) /\ VoteRequestsTrue
  /\ RequestsReach(T, A) /\ RequestsInOrder /\ AcceptsTrue(A)

\* What servers that lead once know of their peers, and commit.
MatchesTrue(A) ==
  \A i \in Server : state[i] = "LEADER" =>
    \A p \in Peers(i) : matchIndex[i][p] <= A[p][currentTerm[i]]

\* Everything up to index c of the log of term t's leader is committed for good.
Safe(T, A, c, t) == \E n \in Nat : c <= n /\ Chosen(T, A, t, n)

\* What server i has committed is safe in its term or one before.
CommitsSafe(T, A) ==
  \A i \in Server : logCommitIndex[i] # 0 =>
    \E t \in 0..currentTerm[i] :
      /\ Safe(T, A, logCommitIndex[i], t)
      /\ SameUpTo(log[i], T[t], logCommitIndex[i])
      /\ t = currentTerm[i] => logCommitIndex[i] <= A[i][t]

RequestsSafe(T, A) ==
  \A i, j \in Server : \A m \in In(net[i][j]) :
    IsAppend(m) /\ m.leaderCommit # 0 =>
      \E t \in 0..m.term : Safe(T, A, m.leaderCommit, t)

\* What has been put in CommitCh as committed is.
CommitChSafe(T, A) ==
  \A i \in Server : \A a \in 1..Len(commitCh[i]) : ~commitCh[i][a].err =>
    /\ commitCh[i][a].index \in 1..logCommitIndex[i]
    /\ \E t \in Nat : /\ Safe(T, A, commitCh[i][a].index, t)
                      /\ T[t][commitCh[i][a].index].cmd = commitCh[i][a].cmd

CommitChRising ==
  \A i \in Server : \A a, b \in 1..Len(commitCh[i]) :
    a < b /\ ~commitCh[i][a].err /\ ~commitCh[i][b].err =>
      commitCh[i][a].index < commitCh[i][b].index

CommitInv(T, A) ==
  /\ MatchesTrue(A)
  /\ CommitsSafe(T, A) /\ RequestsSafe(T, A) /\ CommitChSafe(T, A)
  /\ CommitChRising

-----------------------------------------------------------------------------
(* Majorities, and logs that are the same *)

LEMMA MajoritiesMeet ==
  ASSUME NEW P \in Majorities, NEW Q \in Majorities
  PROVE  \E v \in Server : v \in P /\ v \in Q
<1> SUFFICES ASSUME P \cap Q = {} PROVE FALSE
  BY DEF Majorities
<1>1. /\ P \subseteq Server /\ Q \subseteq Server /\ IsFiniteSet(Server)
      /\ 2 * Cardinality(P) > Cardinality(Server)
      /\ 2 * Cardinality(Q) > Cardinality(Server)
  BY ServerAssumption DEF Majorities
<1>2. IsFiniteSet(P) /\ IsFiniteSet(Q) /\ IsFiniteSet(P \cup Q)
  BY <1>1, FS_Subset, FS_Union
<1>3. Cardinality(P \cup Q) = Cardinality(P) + Cardinality(Q) - Cardinality({})
  BY <1>2, FS_Union
<1>4. P \cup Q \subseteq Server
  BY <1>1
<1>5. Cardinality(P \cup Q) <= Cardinality(Server)
  BY <1>1, <1>4, FS_Subset
<1>6. /\ Cardinality(P) \in Nat /\ Cardinality(Q) \in Nat
      /\ Cardinality(Server) \in Nat /\ Cardinality({}) = 0
  BY <1>1, <1>2, FS_CardinalityType, FS_EmptySet
<1> QED BY <1>1, <1>3, <1>5, <1>6

\* A leader has the votes of a majority, which has reached its term.
MajorityVoted ==
  \A e \in elected : \E Q \in Majorities : \A v \in Q :
    Ballot(e[1], v, e[2]) \in ballots /\ e[1] <= currentTerm[v]

LEMMA ElectedVoters ==
  ASSUME OddCluster
  PROVE  ElectionInv => MajorityVoted
<1> SUFFICES ASSUME ElectionInv, NEW e \in elected
             PROVE  \E Q \in Majorities : \A v \in Q :
                      Ballot(e[1], v, e[2]) \in ballots /\ e[1] <= currentTerm[v]
  BY DEF MajorityVoted
<1> DEFINE V == VotesFor(e[2], e[1])
           Q == Voting!Voters(e[2], e[1])
<1>1. /\ Majority <= Cardinality(V) /\ V \subseteq ballots
      /\ TypeOK /\ IsFiniteSet(ballots) /\ OneVotePerTerm /\ BallotsReached
  BY DEF ElectionInv, ElectedByTally, VotesFor
<1>2. Q \subseteq Server /\ Cardinality(Q) = Cardinality(V)
  BY <1>1, VotersCount
<1>3. Cardinality(V) \in Nat /\ Cardinality(Server) \in Nat
  BY <1>1, ServerAssumption, FS_Subset, FS_CardinalityType
<1>4. Q \in Majorities
  BY <1>1, <1>2, <1>3, MajorityOfOdd DEF Majorities
<1>5. ASSUME NEW v \in Q
      PROVE  Ballot(e[1], v, e[2]) \in ballots /\ e[1] <= currentTerm[v]
  <2>1. PICK b \in ballots : b.voter = v /\ b.term = e[1] /\ b.candidate = e[2]
    BY DEF Voting!Voters
  <2>2. b = Ballot(e[1], v, e[2])
    BY <1>1, <2>1 DEF TypeOK, Ballot
  <2> QED BY <1>1, <2>1, <2>2 DEF BallotsReached
<1> QED BY <1>4, <1>5

LEMMA ElectedVotersAfter ==
  ASSUME OddCluster
  PROVE  ElectionInv' => MajorityVoted'
<1>1. ElectionInv => MajorityVoted
  BY ElectedVoters
<1> QED BY <1>1, PTL

LEMMA SameTrans ==
  ASSUME NEW l \in Seq(Entry), NEW k \in Seq(Entry), NEW h \in Seq(Entry),
         NEW n \in Nat, NEW m \in Nat, SameUpTo(l, k, n), SameUpTo(k, h, m),
         NEW c \in Nat, c <= n, c <= m
  PROVE  SameUpTo(l, h, c)
<1>1. Len(l) \in Nat /\ Len(k) \in Nat /\ Len(h) \in Nat
  BY LenProperties
<1> QED BY <1>1 DEF SameUpTo

LEMMA SameSym ==
  ASSUME NEW l, NEW k, NEW n, SameUpTo(l, k, n)
  PROVE  SameUpTo(k, l, n)
  BY DEF SameUpTo

LEMMA SameSelf ==
  ASSUME NEW l \in Seq(Entry)
  PROVE  SameUpTo(l, l, Len(l))
<1>1. Len(l) \in Nat
  BY LenProperties
<1> QED BY <1>1 DEF SameUpTo

-----------------------------------------------------------------------------
(* What a step leaves true of entries *)

\* What the leaders have had, the servers have taken over and the terms they
\* have reached, before a step and after it: only the present term is open.
Later(T, A, r, U, B, s) ==
  /\ T \in TermLogs /\ U \in TermLogs /\ Grows(T, U)
  /\ A \in Acks /\ B \in Acks
  /\ r \in [Server -> Nat] /\ s \in [Server -> Nat]
  /\ \A v \in Server : r[v] <= s[v]
  /\ \A v \in Server, t \in Nat : /\ A[v][t] <= B[v][t]
                                  /\ t < r[v] => B[v][t] = A[v][t]

LEMMA SameStill ==
  ASSUME NEW T \in TermLogs, NEW U \in TermLogs, Grows(T, U), NEW t \in Nat,
         NEW l \in Seq(Entry), NEW n \in Nat, SameUpTo(l, T[t], n)
  PROVE  SameUpTo(l, U[t], n)
<1>1. T[t] \in Seq(Entry) /\ U[t] \in Seq(Entry)
  BY DEF TermLogs
<1>2. Len(T[t]) \in Nat /\ SameUpTo(T[t], U[t], Len(T[t]))
  BY <1>1, LenProperties, SameSym DEF Grows
<1>3. n <= Len(T[t])
  BY DEF SameUpTo
<1> QED BY <1>1, <1>2, <1>3, SameTrans

LEMMA OwnStill ==
  ASSUME NEW T \in TermLogs, NEW U \in TermLogs, Grows(T, U),
         NEW t \in Nat, NEW n \in Nat
  PROVE  /\ Own(T, t, n) => Own(U, t, n)
         /\ Own(U, t, n) /\ n <= Len(T[t]) => Own(T, t, n)
<1>1. Len(T[t]) \in Nat /\ Len(U[t]) \in Nat
  BY LenProperties DEF TermLogs
<1>2. SameUpTo(U[t], T[t], Len(T[t]))
  BY DEF Grows
<1> QED BY <1>1, <1>2 DEF Own, SameUpTo

LEMMA LostStill ==
  ASSUME NEW T, NEW A, NEW r, NEW U, NEW B, NEW s, Later(T, A, r, U, B, s),
         NEW t \in Nat, NEW n \in Nat, Lost(A, r, t, n)
  PROVE  Lost(B, s, t, n)
<1>1. PICK Q \in Majorities : \A v \in Q : t < r[v] /\ A[v][t] < n
  BY DEF Lost
<1>2. ASSUME NEW v \in Q
      PROVE  t < s[v] /\ B[v][t] < n
  <2>1. v \in Server
    BY DEF Majorities
  <2>2. r[v] \in Nat /\ s[v] \in Nat /\ r[v] <= s[v]
        /\ (t < r[v] => B[v][t] = A[v][t])
    BY <2>1 DEF Later
  <2> QED BY <1>1, <2>2
<1> QED BY <1>2 DEF Lost

LEMMA ChosenStill ==
  ASSUME NEW T, NEW A, NEW r, NEW U, NEW B, NEW s, Later(T, A, r, U, B, s),
         NEW t \in Nat, NEW n \in Nat, Chosen(T, A, t, n)
  PROVE  Chosen(U, B, t, n)
<1>1. PICK Q \in Majorities : \A v \in Q : n <= A[v][t]
  BY DEF Chosen
<1>2. ASSUME NEW v \in Q
      PROVE  n <= B[v][t]
  <2>1. v \in Server
    BY DEF Majorities
  <2>2. A[v][t] \in Nat /\ B[v][t] \in Nat /\ A[v][t] <= B[v][t]
    BY <2>1 DEF Later, Acks
  <2> QED BY <1>1, <2>2
<1>3. Own(U, t, n)
  BY OwnStill DEF Chosen, Later
<1> QED BY <1>2, <1>3 DEF Chosen

LEMMA SafeStill ==
  ASSUME NEW T, NEW A, NEW r, NEW U, NEW B, NEW s, Later(T, A, r, U, B, s),
         NEW t \in Nat, NEW c, Safe(T, A, c, t)
  PROVE  Safe(U, B, c, t)
  BY ChosenStill DEF Safe

LEMMA CarriesStill ==
  ASSUME NEW T, NEW A, NEW r, NEW U, NEW B, NEW s, Later(T, A, r, U, B, s),
         NEW t \in Nat, NEW n \in Nat, NEW l \in Seq(Entry),
         Carries(T, A, r, l, t, n),
         NEW k \in Seq(Entry), SameUpTo(k, l, Len(l))
  PROVE  Carries(U, B, s, k, t, n)
<1>1. CASE Lost(A, r, t, n)
  BY <1>1, LostStill DEF Carries
<1>2. CASE SameUpTo(l, T[t], n)
  <2>1. Len(l) \in Nat /\ n <= Len(l) /\ T[t] \in Seq(Entry)
    BY <1>2, LenProperties DEF SameUpTo, Later, TermLogs
  <2>2. SameUpTo(k, T[t], n)
    BY <1>2, <2>1, SameTrans
  <2> QED BY <2>2, SameStill DEF Carries, Later
<1> QED BY <1>1, <1>2 DEF Carries

LEMMA CarriesAcksStill ==
  ASSUME NEW T, NEW A, NEW r, NEW U, NEW B, NEW s, Later(T, A, r, U, B, s),
         NEW v \in Server, NEW u \in Nat, NEW l \in Seq(Entry),
         CarriesAcks(T, A, r, l, v, u),
         \A t \in Nat : A[v][t] <= Len(T[t]) /\ (t < u => B[v][t] = A[v][t]),
         NEW k \in Seq(Entry), SameUpTo(k, l, Len(l))
  PROVE  CarriesAcks(U, B, s, k, v, u)
<1> SUFFICES ASSUME NEW t \in Nat, NEW n \in 1..B[v][t], t < u, Own(U, t, n)
             PROVE  Carries(U, B, s, k, t, n)
  BY DEF CarriesAcks
<1>1. n \in 1..A[v][t] /\ n \in Nat /\ n <= Len(T[t])
  <2>1. A[v][t] \in Nat /\ Len(T[t]) \in Nat
    BY LenProperties DEF Later, Acks, TermLogs
  <2>2. A[v][t] <= Len(T[t]) /\ B[v][t] = A[v][t]
    OBVIOUS
  <2> QED BY <2>1, <2>2
<1>2. Own(T, t, n)
  BY <1>1, OwnStill DEF Later
<1>3. Carries(T, A, r, l, t, n)
  BY <1>1, <1>2 DEF CarriesAcks
<1> QED BY <1>1, <1>3, CarriesStill

\* An entry that is chosen is not lost: the majorities would meet.
LEMMA ChosenNotLost ==
  ASSUME NEW T, NEW A \in Acks, NEW r, NEW t \in Nat, NEW n \in Nat,
         Chosen(T, A, t, n), Lost(A, r, t, n)
  PROVE  FALSE
<1>1. PICK P \in Majorities : \A v \in P : n <= A[v][t]
  BY DEF Chosen
<1>2. PICK Q \in Majorities : \A v \in Q : t < r[v] /\ A[v][t] < n
  BY DEF Lost
<1>3. PICK v \in Server : v \in P /\ v \in Q
  BY MajoritiesMeet
<1>4. A[v][t] \in Nat /\ n <= A[v][t] /\ A[v][t] < n
  BY <1>1, <1>2, <1>3 DEF Acks
<1> QED BY <1>4

\* So later leaders have it.
LEMMA LeadersHaveChosen ==
  ASSUME NEW T \in TermLogs, NEW A \in Acks, LeadersCarry(T, A),
         NEW t \in Nat, NEW n \in Nat, Chosen(T, A, t, n),
         NEW e \in elected, t < e[1]
  PROVE  SameUpTo(T[e[1]], T[t], n)
<1>1. Own(T, t, n) /\ n \in 1..Len(T[t])
  BY DEF Chosen, Own
<1>2. Carries(T, A, currentTerm, T[e[1]], t, n)
  BY <1>1 DEF LeadersCarry
<1> QED BY <1>2, ChosenNotLost DEF Carries

\* Whatever a server has taken over it carries, as far as any term.
LEMMA KeptCarries ==
  ASSUME TypeOK, NEW T \in TermLogs, NEW A \in Acks,
         AcksReached(T, A), AcksKept(T, A), NEW v \in Server, NEW u \in Nat
  PROVE  CarriesAcks(T, A, currentTerm, log[v], v, u)
<1> SUFFICES ASSUME NEW t \in Nat, NEW n \in 1..A[v][t], Own(T, t, n)
             PROVE  Carries(T, A, currentTerm, log[v], t, n)
  BY DEF CarriesAcks
<1>1. A[v][t] \in Nat /\ currentTerm[v] \in Nat /\ log[v] \in Seq(Entry)
      /\ T[t] \in Seq(Entry)
  BY DEF Acks, TypeOK, TermLogs
<1>2. CASE t < currentTerm[v]
  BY <1>2 DEF AcksKept, CarriesAcks
<1>3. CASE t = currentTerm[v]
  <2>1. SameUpTo(log[v], T[t], A[v][t]) /\ n \in Nat /\ n <= A[v][t]
    BY <1>1, <1>3 DEF AcksKept
  <2>2. Len(log[v]) \in Nat /\ Len(T[t]) \in Nat
    BY <1>1, LenProperties
  <2>3. SameUpTo(log[v], T[t], n)
    BY <1>1, <2>1, <2>2 DEF SameUpTo
  <2> QED BY <2>3 DEF Carries
<1>4. CASE currentTerm[v] < t
  BY <1>1, <1>4 DEF AcksReached
<1> QED BY <1>1, <1>2, <1>3, <1>4

-----------------------------------------------------------------------------
(* What every step leaves true *)

LEMMA KeptStill ==
  ASSUME TypeOK, TypeOK', NEW T, NEW A, NEW U, NEW B,
         Later(T, A, currentTerm, U, B, currentTerm'),
         AcksReached(T, A), AcksKept(T, A),
         NEW v \in Server, log'[v] = log[v], B[v] = A[v]
  PROVE  /\ SameUpTo(log'[v], U[currentTerm'[v]], B[v][currentTerm'[v]])
         /\ CarriesAcks(U, B, currentTerm', log'[v], v, currentTerm'[v])
<1> DEFINE t == currentTerm[v]
           u == currentTerm'[v]
<1>1. /\ t \in Nat /\ u \in Nat /\ t <= u /\ log[v] \in Seq(Entry)
      /\ T \in TermLogs /\ U \in TermLogs /\ Grows(T, U) /\ A \in Acks
      /\ A[v][t] \in Nat /\ U[u] \in Seq(Entry)
  <2>1. /\ t \in Nat /\ u \in Nat /\ log[v] \in Seq(Entry)
    BY DEF TypeOK
  <2>2. /\ t <= u /\ T \in TermLogs /\ U \in TermLogs /\ Grows(T, U) /\ A \in Acks
    BY DEF Later
  <2> QED BY <2>1, <2>2 DEF Acks, TermLogs
<1>2. SameUpTo(log[v], U[u], A[v][u])
  <2>1. CASE u = t
    <3>1. SameUpTo(log[v], T[t], A[v][t])
      BY DEF AcksKept
    <3> QED BY <1>1, <2>1, <3>1, SameStill
  <2>2. CASE u # t
    <3>1. A[v][u] = 0
      BY <1>1, <2>2 DEF AcksReached
    <3>2. Len(log[v]) \in Nat /\ Len(U[u]) \in Nat
      BY <1>1, LenProperties
    <3> QED BY <3>1, <3>2 DEF SameUpTo
  <2> QED BY <2>1, <2>2
<1>3. CarriesAcks(T, A, currentTerm, log[v], v, u)
  BY <1>1, KeptCarries
<1>4. SameUpTo(log[v], log[v], Len(log[v]))
  BY <1>1, SameSelf
<1>5. \A s \in Nat : A[v][s] <= Len(T[s]) /\ B[v][s] = A[v][s]
  BY DEF AcksReached
<1>6. CarriesAcks(U, B, currentTerm', log[v], v, u)
  BY <1>1, <1>3, <1>4, <1>5, CarriesAcksStill
<1> QED BY <1>2, <1>6

\* Leaders keep carrying entries that were there before the step.
LEMMA LeadersCarryStill ==
  ASSUME TypeOK, NEW T, NEW A, NEW U, NEW B,
         Later(T, A, currentTerm, U, B, currentTerm'), LeadersCarry(T, A),
         NEW e \in elected, NEW t \in Nat, NEW n \in Nat, t < e[1], Own(T, t, n)
  PROVE  Carries(U, B, currentTerm', U[e[1]], t, n)
<1>1. e[1] \in Nat /\ T[e[1]] \in Seq(Entry) /\ U[e[1]] \in Seq(Entry)
  BY DEF TypeOK, Later, TermLogs
<1>2. Carries(T, A, currentTerm, T[e[1]], t, n)
  BY DEF LeadersCarry, Own
<1>3. SameUpTo(U[e[1]], T[e[1]], Len(T[e[1]]))
  BY <1>1 DEF Later, Grows
<1> QED BY <1>1, <1>2, <1>3, CarriesStill

\* So do candidates that stay candidates.
LEMMA CandidatesCarryStill ==
  ASSUME TypeOK, NEW T, NEW A, NEW U, NEW B,
         Later(T, A, currentTerm, U, B, currentTerm'),
         BallotsReached, AcksReached(T, A), CandidatesCarry(T, A),
         NEW b \in ballots, state[b.candidate] = "CANDIDATE",
         currentTerm[b.candidate] = b.term, log'[b.candidate] = log[b.candidate]
  PROVE  CarriesAcks(U, B, currentTerm', log'[b.candidate], b.voter, b.term)
<1> DEFINE l == log[b.candidate]
           v == b.voter
           u == b.term
<1>1. v \in Server /\ u \in Nat /\ l \in Seq(Entry) /\ currentTerm[v] \in Nat
  BY DEF TypeOK
<1>2. CarriesAcks(T, A, currentTerm, l, v, u)
  BY DEF CandidatesCarry
<1>3. SameUpTo(l, l, Len(l))
  BY <1>1, SameSelf
<1>4. ASSUME NEW t \in Nat
      PROVE  A[v][t] <= Len(T[t]) /\ (t < u => B[v][t] = A[v][t])
  <2>1. u <= currentTerm[v]
    BY DEF BallotsReached
  <2>2. t < u => t < currentTerm[v]
    BY <1>1, <2>1
  <2> QED BY <1>1, <2>2 DEF AcksReached, Later
<1> HIDE DEF l, u, v
<1>5. CarriesAcks(U, B, currentTerm', l, v, u)
  BY <1>1, <1>2, <1>3, <1>4, CarriesAcksStill
<1> QED BY <1>5 DEF l, u, v

LEMMA VoteRequestsStill ==
  ASSUME TypeOK, RequestsReached, VoteRequestsTrue,
         \A x, y \in Server : \A m \in In(net'[x][y]) :
           IsVoteRequest(m) => m \in In(net[x][y]) \/ m \in Sent(x),
         \A x \in Server : state'[x] = "CANDIDATE" =>
           /\ log'[x] = log[x]
           /\ \/ currentTerm[x] < currentTerm'[x]
              \/ state[x] = "CANDIDATE" /\ currentTerm'[x] = currentTerm[x]
  PROVE  VoteRequestsTrue'
<1> SUFFICES ASSUME NEW x \in Server, NEW y \in Server,
                    NEW m \in In(net'[x][y]), IsVoteRequest(m),
                    state'[x] = "CANDIDATE", currentTerm'[x] = m.term
             PROVE  /\ m.lastLogIndex = Len(log'[x])
                    /\ m.lastLogTerm = TermAt(log'[x], Len(log'[x]))
  BY DEF VoteRequestsTrue
<1>1. log'[x] = log[x]
  OBVIOUS
<1>2. CASE m \in In(net[x][y])
  <2>1. m.term \in Nat /\ m.term <= currentTerm[x] /\ currentTerm[x] \in Nat
    BY <1>2, InMessages DEF RequestsReached, IsRequest, TypeOK
  <2>2. state[x] = "CANDIDATE" /\ currentTerm[x] = m.term
    BY <2>1
  <2> QED BY <1>1, <1>2, <2>2 DEF VoteRequestsTrue
<1>3. CASE m \in Sent(x)
  <2>1. m = VoteRequestMsg(x)
    BY <1>3 DEF Sent
  <2> QED BY <1>1, <2>1 DEF VoteRequestMsg
<1> QED BY <1>2, <1>3

LEMMA ReachedTail ==
  ASSUME NEW q \in Seq(Message), q # <<>>, Reached(q)
  PROVE  Reached(Tail(q)) /\ \A m \in In(Tail(q)) : Reaching(Head(q), m)
<1>1. /\ Len(q) \in Nat \ {0} /\ Head(q) = q[1]
      /\ Len(Tail(q)) = Len(q) - 1
      /\ \A n \in 1..Len(Tail(q)) : Tail(q)[n] = q[n + 1]
  BY HeadTailProperties, LenProperties, EmptySeq
<1>2. \A n \in 1..Len(Tail(q)) : n \in Nat /\ n + 1 \in 2..Len(q)
  BY <1>1
<1>3. ASSUME NEW n \in 1..Len(Tail(q))
      PROVE  Reaching(Head(q), Tail(q)[n])
  <2>1. 1 \in 1..Len(q) /\ n + 1 \in 1..Len(q) /\ 1 < n + 1
    BY <1>1, <1>2
  <2>2. Reaching(q[1], q[n + 1])
    BY <2>1 DEF Reached
  <2> QED BY <1>1, <2>2
<1>4. ASSUME NEW k \in 1..Len(Tail(q)), NEW n \in 1..Len(Tail(q)), k < n
      PROVE  Reaching(Tail(q)[k], Tail(q)[n])
  <2>1. k + 1 \in 1..Len(q) /\ n + 1 \in 1..Len(q) /\ k + 1 < n + 1
    BY <1>1, <1>2, <1>4
  <2>2. Reaching(q[k + 1], q[n + 1])
    BY <2>1 DEF Reached
  <2> QED BY <1>1, <2>2
<1> QED BY <1>3, <1>4 DEF Reached, In

LEMMA ReachedAppend ==
  ASSUME NEW q \in Seq(Message), NEW m \in Message, Reached(q),
         \A a \in In(q) : Reaching(a, m)
  PROVE  Reached(Append(q, m))
<1> DEFINE r == Append(q, m)
<1>1. /\ Len(q) \in Nat
      /\ Len(r) = Len(q) + 1
      /\ \A n \in 1..Len(q) : r[n] = q[n]
      /\ r[Len(q) + 1] = m
  BY AppendProperties, LenProperties
<1> HIDE DEF r
<1> SUFFICES ASSUME NEW k \in 1..Len(r), NEW n \in 1..Len(r), k < n
             PROVE  Reaching(r[k], r[n])
  BY DEF Reached, r
<1>2. k \in 1..Len(q) /\ r[k] = q[k]
  BY <1>1
<1>3. CASE n \in 1..Len(q)
  BY <1>1, <1>2, <1>3 DEF Reached
<1>4. CASE n = Len(q) + 1
  BY <1>1, <1>2, <1>4 DEF In
<1> QED BY <1>1, <1>3, <1>4

\* What a leader of the step's end sends reaches the end of its log.
LEMMA SentReaches ==
  ASSUME TypeOK, NEW U \in TermLogs, LeadersHave(U)', UNCHANGED log,
         NEW x \in Server, NEW m \in Sent(x), IsAppend(m)
  PROVE  /\ m.term \in Nat /\ End(m) = Len(U[m.term])
         /\ m.term = currentTerm[x] /\ m.leaderCommit = logCommitIndex[x]
<1>1. /\ state'[x] = "LEADER" /\ currentTerm'[x] = currentTerm[x]
      /\ currentTerm[x] \in Nat
  BY DEF Sent, TypeOK
<1>2. PICK n \in 1..(Len(log[x]) + 1) : m = AppendRequestMsg(x, n)
  BY DEF Sent
<1>3. End(m) = Len(log[x]) /\ m.term = currentTerm[x]
  BY <1>2, RequestPiece
<1>4. log[x] = U[currentTerm[x]]
  BY <1>1 DEF LeadersHave
<1>5. m.leaderCommit = logCommitIndex[x]
  BY <1>2 DEF AppendRequestMsg
<1> QED BY <1>1, <1>3, <1>4, <1>5

\* Channels in the steps in which nobody follows a leader.
LEMMA ChannelsStill ==
  ASSUME TypeOK, NEW T, NEW A, NEW U, NEW B,
         Later(T, A, currentTerm, U, B, currentTerm'),
         LogInv(T), LeadersHave(U)', AcksReached(U, B)', AckInv(T, A),
         SentNet, UNCHANGED net \/ UNCHANGED log, elected \subseteq elected',
         \A x, y \in Server : \A m \in In(net[x][y]) : IsAppend(m) =>
           /\ B[y][m.term] = A[y][m.term]
           /\ \A n \in 1..Len(U[m.term]) :
                n <= Len(T[m.term]) \/ U[m.term][n].term = m.term
  PROVE  RequestsReach(U, B)' /\ RequestsInOrder' /\ AcceptsTrue(B)'
<1>1. /\ T \in TermLogs /\ U \in TermLogs /\ Grows(T, U) /\ B \in Acks
      /\ \A t \in Nat : T[t] \in Seq(Entry) /\ U[t] \in Seq(Entry)
      /\ RequestsReach(T, A) /\ RequestsInOrder /\ AcceptsTrue(A)
  BY DEF Later, TermLogs, AckInv
<1>2. ASSUME NEW x \in Server, NEW y \in Server, NEW m \in In(net'[x][y]), IsAppend(m)
      PROVE  /\ B[y][m.term] <= End(m)
             /\ \A n \in (End(m) + 1)..Len(U[m.term]) : U[m.term][n].term = m.term
  <2>1. CASE m \in In(net[x][y])
    <3>1. m \in Message /\ m.term \in Nat
      BY <2>1, InMessages
    <3>2. End(m) \in Nat
      BY <1>2, <3>1, AppendIsRequest, LenProperties
         DEF AppendEntriesRequestEvent, End
    <3>3. Len(T[m.term]) \in Nat /\ Len(U[m.term]) \in Nat
      BY <1>1, <3>1, LenProperties
    <3>4. /\ A[y][m.term] <= End(m)
          /\ \A n \in (End(m) + 1)..Len(T[m.term]) : T[m.term][n].term = m.term
          /\ B[y][m.term] = A[y][m.term]
          /\ \A n \in 1..Len(U[m.term]) :
               n <= Len(T[m.term]) \/ U[m.term][n].term = m.term
      BY <1>1, <1>2, <2>1 DEF RequestsReach
    <3>5. SameUpTo(U[m.term], T[m.term], Len(T[m.term]))
      BY <1>1, <3>1 DEF Grows
    <3>6. ASSUME NEW n \in (End(m) + 1)..Len(U[m.term])
          PROVE  U[m.term][n].term = m.term
      <4>1. n \in 1..Len(U[m.term])
        BY <3>2, <3>3
      <4>2. CASE n <= Len(T[m.term])
        <5>1. n \in 1..Len(T[m.term]) /\ n \in (End(m) + 1)..Len(T[m.term])
          BY <3>2, <3>3, <4>1, <4>2
        <5> QED BY <3>4, <3>5, <5>1 DEF SameUpTo
      <4> QED BY <3>4, <4>1, <4>2
    <3> QED BY <3>4, <3>6
  <2>2. CASE m \notin In(net[x][y])
    <3>1. m \in Sent(x) /\ UNCHANGED log
      BY <1>2, <2>2, SentIn
    <3>2. m.term \in Nat /\ End(m) = Len(U[m.term])
      BY <1>1, <1>2, <3>1, SentReaches
    <3>3. Len(U[m.term]) \in Nat /\ B[y][m.term] <= Len(U[m.term])
      BY <1>1, <3>2, LenProperties DEF AcksReached
    <3> QED BY <3>2, <3>3
  <2> QED BY <2>1, <2>2
<1>3. ASSUME NEW x \in Server, NEW y \in Server
      PROVE  Reached(net'[x][y])
  <2>1. net[x][y] \in Seq(Message) /\ Reached(net[x][y])
    BY <1>1 DEF TypeOK, RequestsInOrder
  <2>2. CASE UNCHANGED net
    BY <2>1, <2>2
  <2>3. CASE UNCHANGED log
    <3>1. PICK r \in Seq(Message) :
            /\ r = net[x][y] \/ (net[x][y] # <<>> /\ r = Tail(net[x][y]))
            /\ net'[x][y] = r \/ \E m \in Sent(x) : net'[x][y] = Append(r, m)
      BY DEF SentNet, Moved
    <3>2. Reached(r) /\ In(r) \subseteq In(net[x][y])
      BY <2>1, <3>1, ReachedTail, InTail
    <3>3. ASSUME NEW m \in Sent(x), NEW a \in In(r)
          PROVE  Reaching(a, m)
      <4> SUFFICES ASSUME IsAppend(a), IsAppend(m), a.term = m.term
                   PROVE  End(a) <= End(m)
        BY DEF Reaching
      <4>1. a \in In(net[x][y])
        BY <3>2
      <4>2. m.term \in Nat /\ End(m) = Len(U[m.term])
        BY <1>1, <2>3, SentReaches
      <4>3. PieceOf(a, T[m.term])
        BY <4>1 DEF LogInv, RequestsMade
      <4>4. a \in AppendEntriesRequestEvent
        BY <4>1, InMessages, AppendIsRequest
      <4>5. End(a) \in Nat /\ End(a) <= Len(T[m.term])
        BY <4>3, <4>4, LenProperties DEF PieceOf, End, AppendEntriesRequestEvent
      <4>6. /\ Len(T[m.term]) \in Nat /\ Len(U[m.term]) \in Nat
            /\ Len(T[m.term]) <= Len(U[m.term])
        BY <1>1, <4>2, LenProperties DEF Grows, SameUpTo
      <4> QED BY <4>2, <4>5, <4>6
    <3>4. Sent(x) \subseteq Message
      BY DEF Sent
    <3> QED BY <3>1, <3>2, <3>3, <3>4, ReachedAppend
  <2> QED BY <2>2, <2>3
<1>4. ASSUME NEW x \in Server, NEW y \in Server, NEW m \in In(net'[y][x]), IsAccept(m)
      PROVE  <<m.term, x>> \in elected' /\ m.index <= B[y][m.term]
  <2>1. m \in In(net[y][x])
    BY <1>4, SentIn DEF Sent
  <2>2. m \in Message /\ m.term \in Nat
    BY <2>1, InMessages
  <2>3. m.index \in Nat
    BY <1>4, <2>2 DEF Message, IsAccept, VoteRequestEvent, VoteResponseEvent,
       AppendEntriesRequestEvent, AppendEntriesResponseEvent
  <2>4. <<m.term, x>> \in elected /\ m.index <= A[y][m.term]
    BY <1>1, <1>4, <2>1 DEF AcceptsTrue
  <2>5. A[y][m.term] \in Nat /\ B[y][m.term] \in Nat /\ A[y][m.term] <= B[y][m.term]
    <3>1. /\ A \in Acks /\ B \in Acks
          /\ \A t \in Nat : A[y][t] <= B[y][t]
      BY DEF Later
    <3> QED BY <2>2, <3>1 DEF Acks
  <2> QED BY <2>3, <2>4, <2>5
<1>5. RequestsReach(U, B)'
  BY <1>2 DEF RequestsReach
<1>6. RequestsInOrder'
  BY <1>3 DEF RequestsInOrder
<1>7. AcceptsTrue(B)'
  BY <1>4 DEF AcceptsTrue
<1> QED BY <1>5, <1>6, <1>7

-----------------------------------------------------------------------------
(* Steps in which logs stay: nobody takes over more *)

LEMMA LaterSame ==
  ASSUME ElectionInv, TypeOK', [Next]_vars, NEW T \in TermLogs, NEW A \in Acks
  PROVE  Later(T, A, currentTerm, T, A, currentTerm')
<1>1. /\ currentTerm \in [Server -> Nat] /\ currentTerm' \in [Server -> Nat]
      /\ \A x \in Server : currentTerm[x] <= currentTerm'[x]
  <2>1. currentTerm \in [Server -> Nat] /\ currentTerm' \in [Server -> Nat]
    BY DEF ElectionInv, TypeOK
  <2> QED BY <2>1, TermsForward
<1>2. Grows(T, T)
  <2>1. \A t \in Nat : T[t] \in Seq(Entry)
    BY DEF TermLogs
  <2> QED BY <2>1, SameSelf DEF Grows
<1>3. \A v \in Server, t \in Nat : A[v][t] <= A[v][t]
  BY DEF Acks
<1> QED BY <1>1, <1>2, <1>3 DEF Later

LEMMA AckInvStay ==
  ASSUME ElectionInv, TypeOK', [Next]_vars, LogsStay,
         NEW T \in TermLogs, NEW A \in Acks, LogInv(T), LogInv(T)', AckInv(T, A),
         CandidatesCarry(T, A)',
         \A x \in Server : state'[x] = "CANDIDATE" =>
           \/ currentTerm[x] < currentTerm'[x]
           \/ state[x] = "CANDIDATE" /\ currentTerm'[x] = currentTerm[x]
  PROVE  AckInv(T, A)'
<1>1. /\ TypeOK /\ RequestsReached /\ SentNet /\ UNCHANGED <<log, elected>>
      /\ LeadersHave(T)' /\ Later(T, A, currentTerm, T, A, currentTerm')
  BY LaterSame DEF ElectionInv, LogsStay, LogInv
<1>2. /\ AcksReached(T, A) /\ AcksKept(T, A) /\ LeadersAck(A)
      /\ LeadersCarry(T, A) /\ VoteRequestsTrue
  BY DEF AckInv
<1>3. AcksReached(T, A)'
  <2>1. \A v \in Server, t \in Nat : currentTerm'[v] < t => currentTerm[v] < t
    <3>1. \A v \in Server : currentTerm[v] \in Nat /\ currentTerm'[v] \in Nat
                              /\ currentTerm[v] <= currentTerm'[v]
      BY TermsForward
    <3> QED BY <3>1
  <2> QED BY <1>2, <2>1 DEF AcksReached
<1>4. AcksKept(T, A)'
  <2> SUFFICES ASSUME NEW v \in Server
               PROVE  /\ SameUpTo(log'[v], T[currentTerm'[v]], A[v][currentTerm'[v]])
                      /\ CarriesAcks(T, A, currentTerm', log'[v], v, currentTerm'[v])
    BY DEF AcksKept
  <2> QED BY <1>1, <1>2, KeptStill
<1>5. LeadersAck(A)'
  BY <1>1, <1>2 DEF LeadersAck, LogsStay
<1>6. LeadersCarry(T, A)'
  <2> SUFFICES ASSUME NEW e \in elected, NEW t \in Nat, NEW n \in 1..Len(T[t]),
                      t < e[1], Own(T, t, n)
               PROVE  Carries(T, A, currentTerm', T[e[1]], t, n)
    BY <1>1 DEF LeadersCarry
  <2> QED BY <1>1, <1>2, LeadersCarryStill
<1>7. VoteRequestsTrue'
  <2>1. \A x, y \in Server : \A m \in In(net'[x][y]) :
          m \in In(net[x][y]) \/ m \in Sent(x)
    BY <1>1, SentIn
  <2>2. \A x \in Server : log'[x] = log[x]
    BY <1>1
  <2> QED BY <1>1, <1>2, <2>1, <2>2, VoteRequestsStill
<1>8. RequestsReach(T, A)' /\ RequestsInOrder' /\ AcceptsTrue(A)'
  <2>1. \A x, y \in Server : \A m \in In(net[x][y]) : IsAppend(m) =>
          \A n \in 1..Len(T[m.term]) : n <= Len(T[m.term])
    <3>1. ASSUME NEW x \in Server, NEW y \in Server, NEW m \in In(net[x][y]),
                 NEW n \in 1..Len(T[m.term])
          PROVE  n <= Len(T[m.term])
      <4>1. Len(T[m.term]) \in Nat
        BY <1>1, InMessages, LenProperties DEF TermLogs
      <4> QED BY <4>1
    <3> QED BY <3>1
  <2> QED BY <1>1, <1>3, <2>1, ChannelsStill
<1> QED BY <1>3, <1>4, <1>5, <1>6, <1>7, <1>8 DEF AckInv

\* The answers to nobody's campaign.
LEMMA AckInvIdle ==
  ASSUME ElectionInv, TypeOK', [Next]_vars,
         IdleStep \/ \E i, j \in Server : MatchStep(i, j),
         NEW T \in TermLogs, NEW A \in Acks, LogInv(T), LogInv(T)', AckInv(T, A)
  PROVE  AckInv(T, A)'
<1>1. /\ TypeOK /\ LogsStay /\ BallotsReached
      /\ Later(T, A, currentTerm, T, A, currentTerm')
  BY StepsStay, LaterSame DEF ElectionInv
<1>2. /\ UNCHANGED <<ballots, log>>
      /\ \A x \in Server : state'[x] = "CANDIDATE" =>
           state[x] = "CANDIDATE" /\ currentTerm'[x] = currentTerm[x]
  BY DEF IdleStep, Settles, MatchStep, termVars
<1>3. CandidatesCarry(T, A)'
  <2> SUFFICES ASSUME NEW b \in ballots, state'[b.candidate] = "CANDIDATE",
                      currentTerm'[b.candidate] = b.term
               PROVE  CarriesAcks(T, A, currentTerm', log'[b.candidate],
                                  b.voter, b.term)
    BY <1>2 DEF CandidatesCarry
  <2>1. b.candidate \in Server
    BY <1>1 DEF TypeOK
  <2>2. /\ state[b.candidate] = "CANDIDATE" /\ currentTerm[b.candidate] = b.term
        /\ log'[b.candidate] = log[b.candidate]
    BY <1>2, <2>1
  <2> QED BY <1>1, <2>2, CandidatesCarryStill DEF AckInv
<1> QED BY <1>1, <1>2, <1>3, AckInvStay

\* A new candidate carries what it has taken over itself.
LEMMA AckInvCampaign ==
  ASSUME ElectionInv, TypeOK', [Next]_vars, NEW i \in Server, CampaignStep(i),
         NEW T \in TermLogs, NEW A \in Acks, LogInv(T), LogInv(T)', AckInv(T, A)
  PROVE  AckInv(T, A)'
<1> DEFINE u == currentTerm[i] + 1
<1>1. /\ TypeOK /\ LogsStay /\ BallotsReached /\ UNCHANGED log
      /\ Later(T, A, currentTerm, T, A, currentTerm')
      /\ AcksReached(T, A) /\ AcksKept(T, A) /\ CandidatesCarry(T, A)
  BY StepsStay, LaterSame DEF ElectionInv, AckInv, LogsStay
<1>2. /\ currentTerm'[i] = u /\ currentTerm[i] \in Nat /\ log[i] \in Seq(Entry)
      /\ ballots' = ballots \cup {[term |-> u, voter |-> i, candidate |-> i]}
      /\ \A x \in Server \ {i} : /\ currentTerm'[x] = currentTerm[x]
                                 /\ state'[x] = state[x]
  BY <1>1 DEF CampaignStep, TimeoutElection, TypeOK
<1>3. CandidatesCarry(T, A)'
  <2> SUFFICES ASSUME NEW b \in ballots', state'[b.candidate] = "CANDIDATE",
                      currentTerm'[b.candidate] = b.term
               PROVE  CarriesAcks(T, A, currentTerm', log'[b.candidate],
                                  b.voter, b.term)
    BY DEF CandidatesCarry
  <2>1. CASE b = [term |-> u, voter |-> i, candidate |-> i]
    <3>1. CarriesAcks(T, A, currentTerm, log[i], i, u)
      BY <1>1, <1>2, KeptCarries
    <3>2. SameUpTo(log[i], log[i], Len(log[i]))
      BY <1>2, SameSelf
    <3>3. \A t \in Nat : A[i][t] <= Len(T[t]) /\ (t < u => A[i][t] = A[i][t])
      BY <1>1 DEF AcksReached
    <3>4. u \in Nat
      BY <1>2
    <3> HIDE DEF u
    <3>5. CarriesAcks(T, A, currentTerm', log[i], i, u)
      BY <1>1, <1>2, <3>1, <3>2, <3>3, <3>4, CarriesAcksStill
    <3> QED BY <1>1, <2>1, <3>5
  <2>2. CASE b \in ballots
    <3>1. b.candidate \in Server /\ b.term \in Nat
      BY <1>1, <2>2 DEF TypeOK
    <3>2. b.term <= currentTerm[b.candidate]
      BY <1>1, <2>2 DEF BallotsReached
    <3>3. b.candidate # i
      BY <1>2, <3>1, <3>2
    <3>4. /\ state[b.candidate] = "CANDIDATE" /\ currentTerm[b.candidate] = b.term
          /\ log'[b.candidate] = log[b.candidate]
      BY <1>1, <1>2, <3>1, <3>3
    <3> QED BY <1>1, <2>2, <3>4, CandidatesCarryStill
  <2> QED BY <1>2, <2>1, <2>2
<1>4. \A x \in Server : state'[x] = "CANDIDATE" =>
        \/ currentTerm[x] < currentTerm'[x]
        \/ state[x] = "CANDIDATE" /\ currentTerm'[x] = currentTerm[x]
  BY <1>2
<1> QED BY <1>1, <1>3, <1>4, AckInvStay

\* A log that ends in term w has, like any log, at most entries of term w, and
\* what the leader of w carries from terms before is not behind its end.
LEMMA LaterLogCarries ==
  ASSUME TypeOK, NEW T \in TermLogs, NEW A \in Acks, TermsLed(T), TermLogsMade(T),
         LeadersCarry(T, A), NEW l \in Seq(Entry), FromLeaders(T, l), l # <<>>,
         NEW t \in Nat, NEW n \in Nat, Own(T, t, n), t < l[Len(l)].term
  PROVE  Carries(T, A, currentTerm, l, t, n)
<1> DEFINE q == Len(l)
           w == l[q].term
<1>1. q \in Nat \ {0} /\ q \in 1..Len(l)
  BY LenProperties, EmptySeq
<1>2. l[q] \in Entry /\ w \in Nat
  <2>1. l[q] \in Entry
    BY <1>1, ElementOfSeq
  <2> QED BY <2>1 DEF Entry
<1>3. SameUpTo(l, T[w], q)
  BY <1>1 DEF FromLeaders
<1> HIDE DEF q
<1>4. T[w] \in Seq(Entry) /\ T[t] \in Seq(Entry)
  BY <1>2 DEF TermLogs
<1>5. /\ Len(T[w]) \in Nat /\ q <= Len(T[w]) /\ T[w] # <<>>
      /\ T[w][q].term = w
  <2>1. Len(T[w]) \in Nat /\ (T[w] = <<>> => Len(T[w]) = 0)
    BY <1>4, LenProperties
  <2> QED BY <1>1, <1>3, <2>1 DEF SameUpTo, q
<1>6. PICK x \in Server : <<w, x>> \in elected
  BY <1>2, <1>5 DEF TermsLed
<1>7. Carries(T, A, currentTerm, T[w], t, n)
  <2>1. n \in 1..Len(T[t]) /\ <<w, x>>[1] = w /\ t < w
    BY <1>2 DEF Own, q
  <2> HIDE DEF w
  <2> QED BY <1>6, <2>1 DEF LeadersCarry
<1>8. CASE SameUpTo(T[w], T[t], n)
  <2>1. n \in 1..Len(T[w]) /\ T[w][n].term = t
    <3>1. n \in 1..Len(T[t]) /\ T[t][n].term = t
      BY DEF Own
    <3>2. n \in 1..n /\ n <= Len(T[w])
      BY <1>8, <3>1 DEF SameUpTo
    <3> QED BY <1>4, <1>5, <1>8, <3>1, <3>2 DEF SameUpTo
  <2>2. n <= q
    <3> SUFFICES ASSUME q < n PROVE FALSE
      BY <1>1, <2>1
    <3>1. q \in 1..n
      BY <1>1, <2>1
    <3>2. FromLeaders(T, T[w])
      BY <1>2 DEF TermLogsMade
    <3>3. T[w][q].term <= T[w][n].term
      BY <1>4, <2>1, <3>1, <3>2, TermsRise
    <3> QED BY <1>2, <1>5, <2>1, <3>3 DEF q
  <2>3. SameUpTo(l, T[t], n)
    BY <1>1, <1>3, <1>4, <1>8, <2>2, SameTrans
  <2> QED BY <2>3 DEF Carries
<1> QED BY <1>7, <1>8 DEF Carries

\* A voter finds the candidate's log up to date: that log carries what the
\* voter has taken over.
LEMMA GrantCarries ==
  ASSUME TypeOK, NEW T \in TermLogs, NEW A \in Acks, LogInv(T), AckInv(T, A),
         NEW i \in Server, NEW j \in Server, GrantStep(i, j),
         state[j] = "CANDIDATE", currentTerm[j] = Head(net[j][i]).term
  PROVE  CarriesAcks(T, A, currentTerm, log[j], i, Head(net[j][i]).term)
<1> DEFINE m == Head(net[j][i])
           p == Len(log[i])
           q == Len(log[j])
<1>1. /\ net[j][i] # <<>> /\ IsVoteRequest(m) /\ UpToDate(log[i], m)
      /\ log[i] \in Seq(Entry) /\ log[j] \in Seq(Entry) /\ p \in Nat /\ q \in Nat
  BY LenProperties DEF GrantStep, VoteStep, TypeOK
<1>2. m \in In(net[j][i]) /\ m.term \in Nat
  BY <1>1, HeadTerm
<1>3. m.lastLogIndex = q /\ m.lastLogTerm = TermAt(log[j], q)
  BY <1>1, <1>2 DEF AckInv, VoteRequestsTrue
<1>4. /\ TermsLed(T) /\ TermLogsMade(T) /\ LeadersCarry(T, A)
      /\ FromLeaders(T, log[i]) /\ FromLeaders(T, log[j])
  BY DEF LogInv, LogsMade, AckInv
<1> SUFFICES ASSUME NEW t \in Nat, NEW n \in 1..A[i][t], Own(T, t, n)
             PROVE  Carries(T, A, currentTerm, log[j], t, n)
  BY DEF CarriesAcks
<1>5. n \in Nat \ {0} /\ T[t] \in Seq(Entry)
  BY DEF Acks, TermLogs
<1>6. Carries(T, A, currentTerm, log[i], t, n)
  <2>1. CarriesAcks(T, A, currentTerm, log[i], i, t + 1)
    BY KeptCarries DEF AckInv
  <2> QED BY <2>1 DEF CarriesAcks
<1>7. CASE SameUpTo(log[i], T[t], n)
  <2>1. n \in 1..p /\ log[i][n].term = t
    <3>1. n <= p /\ n \in 1..n
      BY <1>5, <1>7 DEF SameUpTo
    <3>2. log[i][n] = T[t][n]
      BY <1>7, <3>1 DEF SameUpTo
    <3> QED BY <1>1, <1>5, <3>1, <3>2 DEF Own
  <2>2. p \in 1..Len(log[i]) /\ log[i][p].term \in Nat /\ t <= log[i][p].term
    <3>1. p \in 1..Len(log[i]) /\ n \in 1..p
      BY <1>1, <2>1
    <3>2. t <= log[i][p].term
      BY <1>1, <1>4, <2>1, <3>1, TermsRise
    <3>3. log[i][p] \in Entry
      BY <1>1, <3>1, ElementOfSeq
    <3> QED BY <3>1, <3>2, <3>3 DEF Entry
  <2>3. TermAt(log[i], p) = log[i][p].term
    BY <2>2 DEF TermAt
  <2>4. q # 0
    BY <1>1, <1>3, <2>2, <2>3 DEF UpToDate, TermAt
  <2> DEFINE w == log[j][q].term
  <2>5. w \in Nat /\ TermAt(log[j], q) = w
    <3>1. q \in 1..Len(log[j])
      BY <1>1, <2>4
    <3>2. log[j][q] \in Entry
      BY <1>1, <3>1, ElementOfSeq
    <3> QED BY <2>4, <3>2 DEF Entry, TermAt
  <2> HIDE DEF w, p, q
  <2>6. t < w \/ (w = t /\ p <= q)
    BY <1>1, <1>3, <2>2, <2>3, <2>5 DEF UpToDate, p
  <2>7. CASE t < w
    <3>1. log[j] # <<>>
      BY <1>1, <2>4, EmptySeq DEF q
    <3> QED BY <1>1, <1>4, <1>5, <2>7, <3>1, LaterLogCarries DEF w, q
  <2>8. CASE w = t /\ p <= q
    <3>1. q \in 1..Len(log[j])
      BY <1>1, <2>4 DEF q
    <3>2. SameUpTo(log[j], T[t], q)
      BY <1>4, <2>8, <3>1 DEF FromLeaders, w
    <3>3. n <= q /\ n \in Nat
      BY <1>1, <2>1, <2>8
    <3>4. SameUpTo(T[t], T[t], Len(T[t])) /\ Len(T[t]) \in Nat /\ n <= Len(T[t])
      BY <1>5, SameSelf, LenProperties DEF Own
    <3>5. SameUpTo(log[j], T[t], n)
      BY <1>1, <1>5, <3>2, <3>3, <3>4, SameTrans
    <3> QED BY <3>5 DEF Carries
  <2> QED BY <2>6, <2>7, <2>8
<1> QED BY <1>6, <1>7 DEF Carries

LEMMA AckInvGrant ==
  ASSUME ElectionInv, TypeOK', [Next]_vars,
         NEW i \in Server, NEW j \in Server, GrantStep(i, j),
         NEW T \in TermLogs, NEW A \in Acks, LogInv(T), LogInv(T)', AckInv(T, A)
  PROVE  AckInv(T, A)'
<1> DEFINE u == Head(net[j][i]).term
<1>1. /\ TypeOK /\ LogsStay /\ BallotsReached /\ UNCHANGED log
      /\ Later(T, A, currentTerm, T, A, currentTerm')
      /\ AcksReached(T, A) /\ CandidatesCarry(T, A) /\ net[j][i] # <<>>
  BY StepsStay, LaterSame DEF ElectionInv, AckInv, LogsStay, GrantStep, VoteStep
<1>2. i # j /\ u \in Nat
  BY <1>1, NotFromSelf, HeadTerm DEF ElectionInv
<1>3. /\ ballots' = ballots \cup {Ballot(u, i, j)} /\ state'[i] = "FOLLOWER"
      /\ \A x \in Server \ {i} : /\ currentTerm'[x] = currentTerm[x]
                                 /\ state'[x] = state[x]
  BY <1>1 DEF GrantStep, VoteStep, TypeOK
<1>4. CandidatesCarry(T, A)'
  <2> SUFFICES ASSUME NEW b \in ballots', state'[b.candidate] = "CANDIDATE",
                      currentTerm'[b.candidate] = b.term
               PROVE  CarriesAcks(T, A, currentTerm', log'[b.candidate],
                                  b.voter, b.term)
    BY DEF CandidatesCarry
  <2>1. CASE b = Ballot(u, i, j)
    <3>1. b.candidate = j /\ b.term = u /\ b.voter = i
      BY <2>1 DEF Ballot
    <3>2. state[j] = "CANDIDATE" /\ currentTerm[j] = u /\ log'[j] = log[j]
      BY <1>1, <1>2, <1>3, <3>1
    <3>3. CarriesAcks(T, A, currentTerm, log[j], i, u)
      BY <1>1, <3>2, GrantCarries
    <3> HIDE DEF u
    <3>4. log[j] \in Seq(Entry) /\ SameUpTo(log[j], log[j], Len(log[j]))
      BY <1>1, SameSelf DEF TypeOK
    <3>5. \A t \in Nat : A[i][t] <= Len(T[t]) /\ (t < u => A[i][t] = A[i][t])
      BY <1>1 DEF AcksReached
    <3>6. CarriesAcks(T, A, currentTerm', log[j], i, u)
      BY <1>1, <1>2, <3>3, <3>4, <3>5, CarriesAcksStill
    <3> QED BY <3>1, <3>2, <3>6
  <2>2. CASE b \in ballots
    <3>1. b.candidate \in Server /\ b.candidate # i
      BY <1>1, <1>3, <2>2 DEF TypeOK
    <3>2. /\ state[b.candidate] = "CANDIDATE" /\ currentTerm[b.candidate] = b.term
          /\ log'[b.candidate] = log[b.candidate]
      BY <1>1, <1>3, <3>1
    <3> QED BY <1>1, <2>2, <3>2, CandidatesCarryStill
  <2> QED BY <1>3, <2>1, <2>2
<1>5. \A x \in Server : state'[x] = "CANDIDATE" =>
        \/ currentTerm[x] < currentTerm'[x]
        \/ state[x] = "CANDIDATE" /\ currentTerm'[x] = currentTerm[x]
  BY <1>3
<1> QED BY <1>1, <1>4, <1>5, AckInvStay

-----------------------------------------------------------------------------
(* Steps of leaders: to lead, and to log *)

\* Leader i's log of its term becomes l, and it has taken all of it over.
LeaderTakes(T, A, U, B, i, t, l) ==
  /\ U = [T EXCEPT ![t] = l]
  /\ B = [A EXCEPT ![i][t] = Len(l)]

LEMMA LeaderTakesAll ==
  ASSUME NEW T \in TermLogs, NEW A \in Acks, NEW i \in Server, NEW t \in Nat,
         NEW l \in Seq(Entry), NEW U, NEW B, LeaderTakes(T, A, U, B, i, t, l)
  PROVE  /\ B \in Acks
         /\ U[t] = l /\ \A s \in Nat \ {t} : U[s] = T[s]
         /\ B[i][t] = Len(l) /\ \A s \in Nat \ {t} : B[i][s] = A[i][s]
         /\ \A v \in Server \ {i} : B[v] = A[v]
<1>1. Len(l) \in Nat
  BY LenProperties
<1>2. U[t] = l /\ \A s \in Nat \ {t} : U[s] = T[s]
  BY DEF TermLogs, LeaderTakes
<1>3. B = [A EXCEPT ![i] = [A[i] EXCEPT ![t] = Len(l)]]
  BY DEF LeaderTakes
<1>4. [A[i] EXCEPT ![t] = Len(l)] \in [Nat -> Nat] /\ A[i] \in [Nat -> Nat]
  BY <1>1 DEF Acks
<1>5. B \in Acks
  BY <1>3, <1>4 DEF Acks
<1>6. B[i] = [A[i] EXCEPT ![t] = Len(l)] /\ \A v \in Server \ {i} : B[v] = A[v]
  BY <1>3 DEF Acks
<1> QED BY <1>2, <1>4, <1>5, <1>6

\* Nothing else changes of what counts for the past.
LEMMA LaterTakes ==
  ASSUME ElectionInv, TypeOK', [Next]_vars,
         NEW T \in TermLogs, NEW A \in Acks, NEW U \in TermLogs, Grows(T, U),
         AcksReached(T, A), NEW i \in Server, NEW l \in Seq(Entry), NEW B,
         LeaderTakes(T, A, U, B, i, currentTerm[i], l)
  PROVE  Later(T, A, currentTerm, U, B, currentTerm')
<1> DEFINE t == currentTerm[i]
<1>1. /\ t \in Nat /\ currentTerm \in [Server -> Nat]
      /\ currentTerm' \in [Server -> Nat]
  BY DEF ElectionInv, TypeOK
<1>2. \A x \in Server : currentTerm[x] <= currentTerm'[x]
  BY TermsForward
<1>3. /\ B \in Acks /\ U[t] = l /\ B[i][t] = Len(l)
      /\ \A s \in Nat \ {t} : B[i][s] = A[i][s]
      /\ \A v \in Server \ {i} : B[v] = A[v]
  BY <1>1, LeaderTakesAll
<1>4. ASSUME NEW v \in Server, NEW s \in Nat
      PROVE  A[v][s] <= B[v][s] /\ (s < currentTerm[v] => B[v][s] = A[v][s])
  <2>1. A[v][s] \in Nat /\ B[v][s] \in Nat
    BY <1>3 DEF Acks
  <2>2. CASE v = i /\ s = t
    <3>1. A[i][t] <= Len(T[t]) /\ Len(T[t]) <= Len(U[t])
      BY <1>1 DEF AcksReached, Grows, SameUpTo
    <3>2. Len(T[t]) \in Nat /\ Len(l) \in Nat
      BY <1>1, LenProperties DEF TermLogs
    <3> QED BY <1>1, <1>3, <2>1, <2>2, <3>1, <3>2
  <2>3. CASE ~(v = i /\ s = t)
    <3>1. B[v][s] = A[v][s]
      BY <1>3, <2>3
    <3> QED BY <2>1, <3>1
  <2> QED BY <2>2, <2>3
<1> QED BY <1>1, <1>2, <1>3, <1>4 DEF Later

LEMMA AckInvLeader ==
  ASSUME ElectionInv, TypeOK', [Next]_vars,
         NEW T \in TermLogs, NEW A \in Acks, NEW U \in TermLogs, NEW B,
         Grows(T, U), LogInv(T), LogInv(U)', AckInv(T, A), NEW i \in Server,
         LeaderTakes(T, A, U, B, i, currentTerm[i], log'[i]),
         SentNet, UNCHANGED net \/ UNCHANGED log, UNCHANGED <<currentTerm, ballots>>,
         elected \subseteq elected', state'[i] = "LEADER",
         \A x \in Server \ {i} : state'[x] = state[x] /\ log'[x] = log[x],
         SameUpTo(log'[i], log[i], Len(log[i])), LeadersCarry(U, B)',
         \A x, y \in Server : \A m \in In(net[x][y]) :
           IsAppend(m) /\ m.term = currentTerm[i] =>
             /\ y # i
             /\ \A n \in 1..Len(U[m.term]) :
                  n <= Len(T[m.term]) \/ U[m.term][n].term = m.term
  PROVE  AckInv(U, B)'
<1> DEFINE t == currentTerm[i]
           l == log'[i]
<1>1. /\ TypeOK /\ RequestsReached /\ BallotsReached /\ LeadersHave(U)'
      /\ AcksReached(T, A) /\ AcksKept(T, A) /\ LeadersAck(A)
      /\ CandidatesCarry(T, A) /\ VoteRequestsTrue
  BY DEF ElectionInv, AckInv, LogInv
<1>2. t \in Nat /\ l \in Seq(Entry) /\ log[i] \in Seq(Entry)
  BY <1>1 DEF TypeOK
<1>3. Later(T, A, currentTerm, U, B, currentTerm')
  BY <1>1, <1>2, LaterTakes
<1>4. /\ B \in Acks /\ U[t] = l /\ \A s \in Nat \ {t} : U[s] = T[s]
      /\ B[i][t] = Len(l) /\ \A s \in Nat \ {t} : B[i][s] = A[i][s]
      /\ \A v \in Server \ {i} : B[v] = A[v]
  BY <1>2, LeaderTakesAll
<1>5. \A v \in Server, s \in Nat :
        ~(v = i /\ s = t) => B[v][s] = A[v][s]
  BY <1>4
<1>6. AcksReached(U, B)'
  <2> SUFFICES ASSUME NEW v \in Server, NEW s \in Nat
               PROVE  B[v][s] <= Len(U[s]) /\ (currentTerm'[v] < s => B[v][s] = 0)
    BY DEF AcksReached
  <2>1. Len(U[s]) \in Nat /\ Len(T[s]) \in Nat /\ Len(T[s]) <= Len(U[s])
    BY LenProperties DEF TermLogs, Grows, SameUpTo
  <2>2. CASE v = i /\ s = t
    BY <1>2, <1>4, <2>1, <2>2
  <2>3. CASE ~(v = i /\ s = t)
    <3>1. B[v][s] = A[v][s] /\ A[v][s] \in Nat
      BY <1>5, <2>3 DEF Acks
    <3>2. A[v][s] <= Len(T[s]) /\ (currentTerm[v] < s => A[v][s] = 0)
      BY <1>1 DEF AcksReached
    <3> QED BY <2>1, <3>1, <3>2
  <2> QED BY <2>2, <2>3
<1>7. AcksKept(U, B)'
  <2> SUFFICES ASSUME NEW v \in Server
               PROVE  /\ SameUpTo(log'[v], U[currentTerm'[v]], B[v][currentTerm'[v]])
                      /\ CarriesAcks(U, B, currentTerm', log'[v], v, currentTerm'[v])
    BY DEF AcksKept
  <2>1. CASE v = i
    <3>1. SameUpTo(l, U[t], B[i][t])
      BY <1>2, <1>4, SameSelf
    <3>2. CarriesAcks(T, A, currentTerm, log[i], i, t)
      BY <1>1 DEF AcksKept
    <3>3. \A s \in Nat : A[i][s] <= Len(T[s]) /\ (s < t => B[i][s] = A[i][s])
      BY <1>1, <1>2, <1>4 DEF AcksReached
    <3>4. CarriesAcks(U, B, currentTerm', l, i, t)
      <4> HIDE DEF t, l
      <4>1. l \in Seq(Entry) /\ log[i] \in Seq(Entry) /\ t \in Nat
            /\ SameUpTo(l, log[i], Len(log[i]))
        BY <1>2 DEF l
      <4> QED BY <1>3, <3>2, <3>3, <4>1, CarriesAcksStill
    <3> QED BY <2>1, <3>1, <3>4
  <2>2. CASE v # i
    BY <1>1, <1>3, <1>4, <2>2, KeptStill
  <2> QED BY <2>1, <2>2
<1>8. LeadersAck(B)'
  <2> SUFFICES ASSUME NEW x \in Server, state'[x] = "LEADER"
               PROVE  B[x][currentTerm'[x]] = Len(log'[x])
    BY DEF LeadersAck
  <2>1. CASE x = i
    BY <1>4, <2>1
  <2>2. CASE x # i
    BY <1>1, <1>4, <2>2 DEF LeadersAck
  <2> QED BY <2>1, <2>2
<1>9. CandidatesCarry(U, B)'
  <2> SUFFICES ASSUME NEW b \in ballots, state'[b.candidate] = "CANDIDATE",
                      currentTerm'[b.candidate] = b.term
               PROVE  CarriesAcks(U, B, currentTerm', log'[b.candidate],
                                  b.voter, b.term)
    BY DEF CandidatesCarry
  <2>1. b.candidate \in Server \ {i}
    BY <1>1 DEF TypeOK
  <2>2. /\ state[b.candidate] = "CANDIDATE" /\ currentTerm[b.candidate] = b.term
        /\ log'[b.candidate] = log[b.candidate]
    BY <2>1
  <2> QED BY <1>1, <1>3, <2>2, CandidatesCarryStill
<1>10. VoteRequestsTrue'
  <2>1. \A x, y \in Server : \A m \in In(net'[x][y]) :
          m \in In(net[x][y]) \/ m \in Sent(x)
    BY <1>1, SentIn
  <2>2. \A x \in Server : state'[x] = "CANDIDATE" =>
          /\ log'[x] = log[x] /\ state[x] = "CANDIDATE"
          /\ currentTerm'[x] = currentTerm[x]
    BY <1>1
  <2> QED BY <1>1, <2>1, <2>2, VoteRequestsStill
<1>11. RequestsReach(U, B)' /\ RequestsInOrder' /\ AcceptsTrue(B)'
  <2>1. ASSUME NEW x \in Server, NEW y \in Server, NEW m \in In(net[x][y]), IsAppend(m)
        PROVE  /\ B[y][m.term] = A[y][m.term]
               /\ \A n \in 1..Len(U[m.term]) :
                    n <= Len(T[m.term]) \/ U[m.term][n].term = m.term
    <3>1. m.term \in Nat
      BY <1>1, InMessages
    <3>2. CASE m.term = t
      BY <1>4, <2>1, <3>2
    <3>3. CASE m.term # t
      <4>1. U[m.term] = T[m.term] /\ B[y][m.term] = A[y][m.term]
        BY <1>4, <1>5, <3>1, <3>3
      <4>2. Len(T[m.term]) \in Nat
        BY <3>1, LenProperties DEF TermLogs
      <4> QED BY <4>1, <4>2
    <3> QED BY <3>2, <3>3
  <2>2. \A x, y \in Server : \A m \in In(net[x][y]) : IsAppend(m) =>
          /\ B[y][m.term] = A[y][m.term]
          /\ \A n \in 1..Len(U[m.term]) :
               n <= Len(T[m.term]) \/ U[m.term][n].term = m.term
    BY <2>1
  <2>3. TypeOK /\ LeadersHave(U)'
    BY <1>1
  <2> HIDE DEF t, l
  <2> QED BY <1>3, <1>6, <2>2, <2>3, ChannelsStill
<1> QED BY <1>6, <1>7, <1>8, <1>9, <1>10, <1>11 DEF AckInv

LEMMA AckInvLog ==
  ASSUME OddCluster, ElectionInv, TypeOK', [Next]_vars, NEW i \in Server, LogStep(i),
         NEW T \in TermLogs, NEW A \in Acks, NEW U \in TermLogs, NEW B,
         Grows(T, U), LogInv(T), LogInv(U)', AckInv(T, A),
         LeaderTakes(T, A, U, B, i, currentTerm[i], log'[i])
  PROVE  AckInv(U, B)'
<1> DEFINE t == currentTerm[i]
           l == log'[i]
<1>1. /\ TypeOK /\ RequestsReached /\ ChannelsInOrder /\ SentNet
      /\ state[i] = "LEADER" /\ UNCHANGED <<state, currentTerm, net, ballots, elected>>
      /\ <<t, i>> \in elected /\ AcksReached(T, A) /\ LeadersCarry(T, A)
  BY DEF ElectionInv, LogStep, termVars, LeaderElected, AckInv
<1>2. PICK c \in Cmd : log' = [log EXCEPT ![i] =
                                 Append(@, [term |-> currentTerm[i], cmd |-> c])]
  BY DEF LogStep
<1> DEFINE e == [term |-> t, cmd |-> c]
<1>3. /\ t \in Nat /\ l \in Seq(Entry) /\ log[i] \in Seq(Entry)
      /\ log[i] = T[t] /\ l = Append(log[i], e) /\ e \in Entry /\ e.term = t
      /\ \A x \in Server \ {i} : log'[x] = log[x]
  BY <1>1, <1>2 DEF TypeOK, Entry, LogInv, LeadersHave
<1> HIDE DEF e
<1>4. /\ Len(log[i]) \in Nat /\ Len(l) = Len(log[i]) + 1
      /\ \A n \in 1..Len(log[i]) : l[n] = log[i][n]
      /\ l[Len(log[i]) + 1] = e
  BY <1>3, AppendProperties, LenProperties
<1>5. SameUpTo(l, log[i], Len(log[i]))
  BY <1>4 DEF SameUpTo
<1>6. /\ B \in Acks /\ U[t] = l /\ \A s \in Nat \ {t} : U[s] = T[s]
      /\ \A v \in Server \ {i} : B[v] = A[v]
  <2>1. t \in Nat /\ l \in Seq(Entry)
    BY <1>3
  <2> HIDE DEF t, l
  <2>2. LeaderTakes(T, A, U, B, i, t, l)
    BY DEF t, l
  <2> QED BY <2>1, <2>2, LeaderTakesAll
<1>7. Later(T, A, currentTerm, U, B, currentTerm')
  BY <1>1, <1>3, LaterTakes
<1>8. \A n \in 1..Len(U[t]) : n <= Len(T[t]) \/ U[t][n].term = t
  BY <1>3, <1>4, <1>6
<1>9. LeadersCarry(U, B)'
  <2> SUFFICES ASSUME NEW d \in elected, NEW s \in Nat, NEW n \in 1..Len(U[s]),
                      s < d[1], Own(U, s, n)
               PROVE  Carries(U, B, currentTerm', U[d[1]], s, n)
    BY <1>1 DEF LeadersCarry
  <2>1. Len(T[s]) \in Nat /\ Len(U[s]) \in Nat /\ n \in Nat
    <3>1. T[s] \in Seq(Entry) /\ U[s] \in Seq(Entry)
      BY DEF TermLogs
    <3> QED BY <3>1, LenProperties
  <2>2. CASE n <= Len(T[s])
    <3>1. Own(T, s, n)
      BY <2>1, <2>2, OwnStill
    <3> QED BY <1>1, <1>7, <2>1, <3>1, LeadersCarryStill
  <2>3. CASE ~(n <= Len(T[s]))
    <3>1. s = t
      BY <1>6, <2>1, <2>3
    <3>2. PICK Q \in Majorities : \A v \in Q : d[1] <= currentTerm[v]
      BY ElectedVoters DEF MajorityVoted
    <3>3. ASSUME NEW v \in Q
          PROVE  s < currentTerm'[v] /\ B[v][s] < n
      <4>1. v \in Server /\ d[1] \in Nat
        BY <1>1 DEF Majorities, TypeOK
      <4>2. currentTerm[v] \in Nat /\ d[1] <= currentTerm[v]
        BY <1>1, <3>2, <4>1 DEF TypeOK
      <4>3. v # i /\ s < currentTerm[v]
        BY <1>3, <3>1, <4>1, <4>2
      <4>4. B[v][s] = A[v][s] /\ A[v][s] \in Nat /\ A[v][s] <= Len(T[s])
        BY <1>1, <1>6, <4>1, <4>3 DEF Acks, AcksReached
      <4> QED BY <1>1, <2>1, <2>3, <4>3, <4>4
    <3> QED BY <3>3 DEF Lost, Carries
  <2> QED BY <2>2, <2>3
<1>10. ASSUME NEW x \in Server, NEW y \in Server, NEW m \in In(net[x][y]),
              IsAppend(m), m.term = t
       PROVE  y # i
  <2>1. <<t, x>> \in elected /\ ElectionSafety
    BY <1>1, <1>10, SafetyImplied DEF RequestsReached
  <2>2. x = i
    BY <1>1, <2>1 DEF ElectionSafety
  <2>3. net[i][i] = <<>>
    BY <1>1 DEF ChannelsInOrder
  <2> QED BY <2>2, <2>3, InEmpty
<1> HIDE DEF t, l
<1>11. \A x, y \in Server : \A m \in In(net[x][y]) :
         IsAppend(m) /\ m.term = t =>
           /\ y # i
           /\ \A n \in 1..Len(U[m.term]) :
                n <= Len(T[m.term]) \/ U[m.term][n].term = m.term
  BY <1>8, <1>10
<1>12. /\ state'[i] = "LEADER" /\ elected \subseteq elected'
       /\ UNCHANGED <<currentTerm, ballots>>
       /\ UNCHANGED net \/ UNCHANGED log
       /\ \A x \in Server \ {i} : state'[x] = state[x] /\ log'[x] = log[x]
  BY <1>1, <1>3
<1> QED BY <1>1, <1>5, <1>9, <1>11, <1>12, AckInvLeader DEF t, l

LEMMA AckInvLead ==
  ASSUME OddCluster, ElectionInv, ElectionInv', [Next]_vars,
         NEW i \in Server, LeadStep(i),
         NEW T \in TermLogs, NEW A \in Acks, NEW U \in TermLogs, NEW B,
         Grows(T, U), LogInv(T), LogInv(U)', AckInv(T, A),
         LeaderTakes(T, A, U, B, i, currentTerm[i], log'[i])
  PROVE  AckInv(U, B)'
<1> DEFINE t == currentTerm[i]
           l == log[i]
<1>1. /\ TypeOK /\ TypeOK' /\ RequestsReached /\ SentNet
      /\ state[i] = "CANDIDATE" /\ UNCHANGED <<currentTerm, log, ballots>>
      /\ elected' = elected \cup {<<t, i>>}
      /\ state' = [state EXCEPT ![i] = "LEADER"]
      /\ LeadersCarry(T, A) /\ CandidatesCarry(T, A) /\ AcksReached(T, A)
  BY DEF ElectionInv, LeadStep, AckInv
<1>2. /\ t \in Nat /\ l \in Seq(Entry) /\ log'[i] = l /\ state'[i] = "LEADER"
      /\ \A x \in Server \ {i} : state'[x] = state[x] /\ log'[x] = log[x]
  BY <1>1 DEF TypeOK
<1>3. T[t] = <<>> /\ \A x \in Server : <<t, x>> \notin elected
  BY NewReign
<1>4. /\ U[t] = l /\ \A s \in Nat \ {t} : U[s] = T[s]
  BY <1>2, LeaderTakesAll
<1>5. Later(T, A, currentTerm, U, B, currentTerm')
  BY <1>1, <1>2, LaterTakes
<1>6. SameUpTo(l, l, Len(l))
  BY <1>2, SameSelf
<1>7. ASSUME NEW s \in Nat, NEW n \in Nat, Own(U, s, n)
      PROVE  Own(T, s, n)
  <2>1. CASE s = t
    <3>1. n \in 1..Len(l) /\ l[n].term = t
      BY <1>4, <1>7, <2>1 DEF Own
    <3>2. SameUpTo(l, T[t], n)
      BY <3>1 DEF LogInv, LogsMade, FromLeaders
    <3>3. n <= 0
      BY <1>3, <3>2 DEF SameUpTo
    <3>4. 1 <= n
      BY <3>1
    <3> QED BY <3>3, <3>4
  <2>2. CASE s # t
    BY <1>4, <1>7, <2>2 DEF Own
  <2> QED BY <2>1, <2>2
<1>8. LeadersCarry(U, B)'
  <2> SUFFICES ASSUME NEW d \in elected', NEW s \in Nat, NEW n \in 1..Len(U[s]),
                      s < d[1], Own(U, s, n)
               PROVE  Carries(U, B, currentTerm', U[d[1]], s, n)
    BY DEF LeadersCarry
  <2>1. n \in Nat \ {0} /\ Own(T, s, n)
    BY <1>7
  <2>2. CASE d \in elected
    BY <1>1, <1>5, <2>1, <2>2, LeadersCarryStill
  <2>3. CASE d = <<t, i>>
    <3>1. d[1] = t /\ d[2] = i /\ s < t
      BY <2>3
    <3>2. PICK Q \in Majorities :
            \A v \in Q : Ballot(t, v, i) \in ballots /\ t <= currentTerm[v]
      BY <1>1, <3>1, ElectedVotersAfter DEF MajorityVoted
    <3>3. CASE \A v \in Q : A[v][s] < n
      <4>1. \A v \in Q : s < currentTerm[v]
        <5>1. \A v \in Q : currentTerm[v] \in Nat
          BY <1>1 DEF TypeOK, Majorities
        <5> QED BY <1>2, <3>1, <3>2, <5>1
      <4>2. Lost(A, currentTerm, s, n)
        BY <3>3, <4>1 DEF Lost
      <4>3. Lost(B, currentTerm', s, n)
        BY <1>5, <2>1, <4>2, LostStill
      <4> QED BY <4>3 DEF Carries
    <3>4. CASE \E v \in Q : ~(A[v][s] < n)
      <4>1. PICK v \in Q : ~(A[v][s] < n)
        BY <3>4
      <4>2. v \in Server /\ A[v][s] \in Nat
        BY DEF Majorities, Acks
      <4>3. n \in 1..A[v][s]
        BY <2>1, <4>1, <4>2
      <4>4. Ballot(t, v, i) \in ballots
        BY <3>2
      <4>5. CarriesAcks(T, A, currentTerm, l, v, t)
        BY <1>1, <4>4 DEF CandidatesCarry, Ballot
      <4>6. Carries(T, A, currentTerm, l, s, n)
        BY <2>1, <3>1, <4>3, <4>5 DEF CarriesAcks
      <4>7. Carries(U, B, currentTerm', l, s, n)
        BY <1>2, <1>5, <1>6, <2>1, <4>6, CarriesStill
      <4> QED BY <1>4, <3>1, <4>7
    <3> QED BY <3>3, <3>4
  <2> QED BY <1>1, <2>2, <2>3
<1>9. \A x, y \in Server : \A m \in In(net[x][y]) : IsAppend(m) => m.term # t
  BY <1>1, <1>3 DEF RequestsReached
<1> QED BY <1>1, <1>2, <1>6, <1>8, <1>9, AckInvLeader

-----------------------------------------------------------------------------
(* Steps of followers: to take over what a leader sends *)

\* Server i takes over, if it accepts it, what the request m of a leader has.
Takes(A, B, i, m, ok) == B = IF ok THEN [A EXCEPT ![i][m.term] = End(m)] ELSE A

\* What is known of the request m of j that i takes.
Taken(T, A, i, j, m) ==
  /\ net[j][i] # <<>> /\ IsAppend(m) /\ m \in In(net[j][i])
  /\ m.term \in Nat /\ End(m) \in Nat
  /\ <<m.term, j>> \in elected /\ End(m) <= Len(T[m.term])
  /\ A[i][m.term] <= End(m)
  /\ \A n \in (End(m) + 1)..Len(T[m.term]) : T[m.term][n].term = m.term
  /\ currentTerm[i] <= m.term
  /\ currentTerm' = [currentTerm EXCEPT ![i] = m.term]
  /\ state' = [state EXCEPT ![i] = "FOLLOWER"]

LEMMA TakenRequest ==
  ASSUME ElectionInv, NEW T \in TermLogs, NEW A \in Acks, LogInv(T), AckInv(T, A),
         NEW i \in Server, NEW j \in Server, TakeStep(i, j),
         NEW m, m = Head(net[j][i])
  PROVE  Taken(T, A, i, j, m)
<1>1. TypeOK /\ RequestsReached /\ RequestsReach(T, A) /\ RequestsMade(T)
  BY DEF ElectionInv, AckInv, LogInv
<1>2. /\ net[j][i] # <<>> /\ IsAppend(m) /\ currentTerm[i] <= m.term
      /\ currentTerm' = [currentTerm EXCEPT ![i] = m.term]
      /\ state' = [state EXCEPT ![i] = "FOLLOWER"]
  BY DEF TakeStep, FollowStep, FollowLeader
<1>3. m \in In(net[j][i]) /\ m.term \in Nat
  BY <1>1, <1>2, HeadTerm
<1>4. m \in AppendEntriesRequestEvent
  BY <1>1, <1>2, <1>3, InMessages, AppendIsRequest
<1>5. End(m) \in Nat /\ End(m) <= Len(T[m.term])
  BY <1>1, <1>2, <1>3, <1>4, LenProperties
     DEF RequestsMade, PieceOf, AppendEntriesRequestEvent, End
<1> QED BY <1>1, <1>2, <1>3, <1>5 DEF RequestsReached, RequestsReach, Taken

LEMMA LaterTaken ==
  ASSUME ElectionInv, TypeOK', [Next]_vars,
         NEW T \in TermLogs, NEW A \in Acks, LogInv(T), AckInv(T, A),
         NEW i \in Server, NEW j \in Server, TakeStep(i, j),
         NEW m, m = Head(net[j][i]), NEW ok \in BOOLEAN, NEW B, Takes(A, B, i, m, ok)
  PROVE  /\ Later(T, A, currentTerm, T, B, currentTerm')
         /\ \A v \in Server \ {i} : B[v] = A[v]
         /\ \A s \in Nat \ {m.term} : B[i][s] = A[i][s]
         /\ B[i][m.term] = IF ok THEN End(m) ELSE A[i][m.term]
<1>1. /\ m.term \in Nat /\ End(m) \in Nat /\ A[i][m.term] <= End(m)
      /\ currentTerm[i] <= m.term
  <2>1. Taken(T, A, i, j, m)
    BY TakenRequest
  <2> QED BY <2>1 DEF Taken
<1>2. Later(T, A, currentTerm, T, A, currentTerm')
  BY LaterSame
<1>3. CASE ~ok
  BY <1>2, <1>3 DEF Takes
<1>4. CASE ok
  <2>1. B = [A EXCEPT ![i] = [A[i] EXCEPT ![m.term] = End(m)]]
    BY <1>4 DEF Takes
  <2>2. [A[i] EXCEPT ![m.term] = End(m)] \in [Nat -> Nat] /\ A[i] \in [Nat -> Nat]
    BY <1>1 DEF Acks
  <2>3. /\ B \in Acks /\ \A v \in Server \ {i} : B[v] = A[v]
        /\ B[i] = [A[i] EXCEPT ![m.term] = End(m)]
    BY <2>1, <2>2 DEF Acks
  <2>4. B[i][m.term] = End(m) /\ \A s \in Nat \ {m.term} : B[i][s] = A[i][s]
    BY <1>1, <2>2, <2>3
  <2>5. ASSUME NEW v \in Server, NEW s \in Nat
        PROVE  A[v][s] <= B[v][s] /\ (s < currentTerm[v] => B[v][s] = A[v][s])
    <3>1. A[v][s] \in Nat /\ B[v][s] \in Nat
      BY <2>3 DEF Acks
    <3>2. CASE v = i /\ s = m.term
      <4>1. currentTerm[i] \in Nat
        BY DEF ElectionInv, TypeOK
      <4> QED BY <1>1, <2>4, <3>2, <4>1
    <3>3. CASE ~(v = i /\ s = m.term)
      <4>1. B[v][s] = A[v][s]
        BY <2>3, <2>4, <3>3
      <4> QED BY <3>1, <4>1
    <3> QED BY <3>2, <3>3
  <2> QED BY <1>2, <1>4, <2>3, <2>4, <2>5 DEF Later
<1> QED BY <1>3, <1>4

\* An entry of an earlier term that the leader of term t carries has come with
\* what the leader began with: no request of it ends before.
LEMMA CarriedWithin ==
  ASSUME NEW T \in TermLogs, NEW t \in Nat, NEW s \in Nat, NEW n \in Nat, s # t,
         Own(T, s, n), SameUpTo(T[t], T[s], n), NEW e \in Nat,
         \A k \in (e + 1)..Len(T[t]) : T[t][k].term = t
  PROVE  n <= e
<1> SUFFICES ASSUME e < n PROVE FALSE
  OBVIOUS
<1>1. Len(T[t]) \in Nat /\ Len(T[s]) \in Nat
  BY LenProperties DEF TermLogs
<1>2. n \in 1..n /\ n <= Len(T[t])
  BY DEF Own, SameUpTo
<1>3. n \in (e + 1)..Len(T[t])
  BY <1>1, <1>2
<1>4. T[t][n] = T[s][n] /\ T[s][n].term = s
  BY <1>2 DEF SameUpTo, Own
<1> QED BY <1>3, <1>4

LEMMA AckInvTake ==
  ASSUME OddCluster, ElectionInv, TypeOK', [Next]_vars,
         NEW T \in TermLogs, NEW A \in Acks, LogInv(T), AckInv(T, A),
         NEW i \in Server, NEW j \in Server, TakeStep(i, j),
         NEW m, m = Head(net[j][i]), NEW ok, ok = PrevMatches(log[i], m),
         NEW B, Takes(A, B, i, m, ok)
  PROVE  AckInv(T, B)'
<1> DEFINE t == m.term
<1>1. /\ TypeOK /\ ChannelsInOrder /\ RequestsReached /\ BallotsReached
      /\ AcksReached(T, A) /\ AcksKept(T, A) /\ LeadersAck(A) /\ LeadersCarry(T, A)
      /\ CandidatesCarry(T, A) /\ VoteRequestsTrue /\ RequestsReach(T, A)
      /\ RequestsInOrder /\ AcceptsTrue(A)
      /\ UNCHANGED <<ballots, elected>> /\ i # j /\ ok \in BOOLEAN
  BY DEF ElectionInv, AckInv, TakeStep, PrevMatches
<1>2. /\ net[j][i] # <<>> /\ IsAppend(m) /\ m \in In(net[j][i])
      /\ t \in Nat /\ End(m) \in Nat /\ <<t, j>> \in elected
      /\ End(m) <= Len(T[t]) /\ A[i][t] <= End(m)
      /\ \A n \in (End(m) + 1)..Len(T[t]) : T[t][n].term = t
      /\ currentTerm[i] <= t
      /\ currentTerm' = [currentTerm EXCEPT ![i] = t]
      /\ state' = [state EXCEPT ![i] = "FOLLOWER"]
  <2>1. Taken(T, A, i, j, m)
    BY TakenRequest
  <2> QED BY <2>1 DEF Taken
<1>3. /\ currentTerm'[i] = t /\ state'[i] = "FOLLOWER"
      /\ \A x \in Server \ {i} : /\ state'[x] = state[x]
                                 /\ currentTerm'[x] = currentTerm[x]
                                 /\ log'[x] = log[x]
      /\ ~ok => log'[i] = log[i]
  <2>1. /\ currentTerm'[i] = t /\ state'[i] = "FOLLOWER"
        /\ \A x \in Server \ {i} : /\ state'[x] = state[x]
                                   /\ currentTerm'[x] = currentTerm[x]
    BY <1>1, <1>2 DEF TypeOK
  <2>2. AppendEntries(i, m)
    BY DEF TakeStep
  <2> QED BY <1>1, <2>1, <2>2 DEF AppendEntries, TypeOK, logVars
<1>4. /\ Later(T, A, currentTerm, T, B, currentTerm')
      /\ \A v \in Server \ {i} : B[v] = A[v]
      /\ \A s \in Nat \ {t} : B[i][s] = A[i][s]
      /\ B[i][t] = IF ok THEN End(m) ELSE A[i][t]
  <2>1. ok \in BOOLEAN
    BY <1>1
  <2> QED BY <2>1, LaterTaken
<1>5. ok => Len(log'[i]) = End(m) /\ SameUpTo(log'[i], T[t], Len(log'[i]))
  BY <1>1, <1>3, TakeLog
<1> HIDE DEF t
<1>6. /\ log'[i] \in Seq(Entry) /\ \A s \in Nat : T[s] \in Seq(Entry) /\ Len(T[s]) \in Nat
      /\ B \in Acks
  BY <1>4, LenProperties DEF TypeOK, TermLogs, Later
<1>7. AcksReached(T, B)'
  <2> SUFFICES ASSUME NEW v \in Server, NEW s \in Nat
               PROVE  B[v][s] <= Len(T[s]) /\ (currentTerm'[v] < s => B[v][s] = 0)
    BY DEF AcksReached
  <2>1. A[v][s] <= Len(T[s]) /\ (currentTerm[v] < s => A[v][s] = 0)
    BY <1>1 DEF AcksReached
  <2>2. /\ currentTerm[v] \in Nat /\ currentTerm'[v] \in Nat
        /\ currentTerm[v] <= currentTerm'[v]
    BY TermsForward
  <2>3. CASE v = i /\ s = t
    BY <1>2, <1>3, <1>4, <2>1, <2>2, <2>3
  <2>4. CASE ~(v = i /\ s = t)
    <3>1. B[v][s] = A[v][s]
      BY <1>4, <2>4
    <3> QED BY <2>1, <2>2, <3>1
  <2> QED BY <2>3, <2>4
<1>8. AcksKept(T, B)'
  <2> SUFFICES ASSUME NEW v \in Server
               PROVE  /\ SameUpTo(log'[v], T[currentTerm'[v]], B[v][currentTerm'[v]])
                      /\ CarriesAcks(T, B, currentTerm', log'[v], v, currentTerm'[v])
    BY DEF AcksKept
  <2>1. CASE log'[v] = log[v] /\ B[v] = A[v]
    BY <1>1, <1>4, <2>1, KeptStill
  <2>2. CASE v = i /\ ok
    <3>1. SameUpTo(log'[i], T[t], B[i][t])
      BY <1>4, <1>5, <2>2
    <3>2. ASSUME NEW s \in Nat, NEW n \in 1..B[i][s], s < t, Own(T, s, n)
          PROVE  Carries(T, B, currentTerm', log'[i], s, n)
      <4>1. n \in 1..Len(T[s]) /\ n \in Nat /\ <<t, j>>[1] = t
        BY <3>2 DEF Own
      <4>2. Carries(T, A, currentTerm, T[t], s, n)
        BY <1>1, <1>2, <3>2, <4>1 DEF LeadersCarry
      <4>3. CASE Lost(A, currentTerm, s, n)
        BY <1>4, <4>1, <4>3, LostStill DEF Carries
      <4>4. CASE SameUpTo(T[t], T[s], n)
        <5>1. s # t
          BY <1>2, <3>2
        <5>2. n <= End(m)
          BY <1>2, <3>2, <4>1, <4>4, <5>1, CarriedWithin
        <5>3. SameUpTo(log'[i], T[s], n)
          BY <1>2, <1>5, <1>6, <2>2, <4>1, <4>4, <5>2, SameTrans
        <5> QED BY <5>3 DEF Carries
      <4> QED BY <4>2, <4>3, <4>4 DEF Carries
    <3> QED BY <1>3, <2>2, <3>1, <3>2 DEF CarriesAcks
  <2>3. v = i /\ ~ok => B[v] = A[v]
    BY DEF Takes
  <2> QED BY <1>3, <1>4, <2>1, <2>2, <2>3
<1>9. LeadersAck(B)'
  BY <1>1, <1>3, <1>4 DEF LeadersAck
<1>10. LeadersCarry(T, B)'
  <2> SUFFICES ASSUME NEW e \in elected, NEW s \in Nat, NEW n \in 1..Len(T[s]),
                      s < e[1], Own(T, s, n)
               PROVE  Carries(T, B, currentTerm', T[e[1]], s, n)
    BY <1>1 DEF LeadersCarry
  <2> QED BY <1>1, <1>4, LeadersCarryStill
<1>11. CandidatesCarry(T, B)'
  <2> SUFFICES ASSUME NEW b \in ballots, state'[b.candidate] = "CANDIDATE",
                      currentTerm'[b.candidate] = b.term
               PROVE  CarriesAcks(T, B, currentTerm', log'[b.candidate],
                                  b.voter, b.term)
    BY <1>1 DEF CandidatesCarry
  <2>1. b.candidate \in Server \ {i}
    BY <1>1, <1>3 DEF TypeOK
  <2>2. /\ state[b.candidate] = "CANDIDATE" /\ currentTerm[b.candidate] = b.term
        /\ log'[b.candidate] = log[b.candidate]
    BY <1>3, <2>1
  <2> QED BY <1>1, <1>4, <2>2, CandidatesCarryStill
<1>12. VoteRequestsTrue'
  <2>1. \A x, y \in Server : \A a \in In(net'[x][y]) :
          IsVoteRequest(a) => a \in In(net[x][y])
    BY <1>1, TakeIn DEF IsVoteRequest
  <2>2. \A x \in Server : state'[x] = "CANDIDATE" =>
          /\ log'[x] = log[x] /\ state[x] = "CANDIDATE"
          /\ currentTerm'[x] = currentTerm[x]
    BY <1>3
  <2> QED BY <1>1, <2>1, <2>2, VoteRequestsStill
<1>13. RequestsReach(T, B)'
  <2> SUFFICES ASSUME NEW x \in Server, NEW y \in Server,
                      NEW a \in In(net'[x][y]), IsAppend(a)
               PROVE  /\ B[y][a.term] <= End(a)
                      /\ \A n \in (End(a) + 1)..Len(T[a.term]) :
                           T[a.term][n].term = a.term
    BY DEF RequestsReach
  <2>1. a \in In(net[x][y]) /\ a.term \in Nat
    BY <1>1, TakeIn, InMessages DEF IsAppend
  <2>2. /\ A[y][a.term] <= End(a)
        /\ \A n \in (End(a) + 1)..Len(T[a.term]) : T[a.term][n].term = a.term
    BY <1>1, <2>1 DEF RequestsReach
  <2>3. CASE y = i /\ a.term = t /\ ok
    <3>1. <<t, x>> \in elected /\ ElectionSafety
      BY <1>1, <2>1, <2>3, SafetyImplied DEF RequestsReached
    <3>2. x = j
      BY <1>2, <3>1 DEF ElectionSafety
    <3>3. net'[j][i] = Tail(net[j][i]) /\ net[j][i] \in Seq(Message)
          /\ Reached(net[j][i])
      BY <1>1 DEF TakeStep, FollowStep, TypeOK, RequestsInOrder
    <3>4. Reaching(m, a)
      BY <1>2, <2>3, <3>2, <3>3, ReachedTail
    <3>5. End(m) <= End(a)
      BY <1>2, <2>3, <3>4 DEF Reaching, t
    <3> QED BY <1>4, <2>2, <2>3, <3>5
  <2>4. CASE ~(y = i /\ a.term = t /\ ok)
    <3>1. B[y][a.term] = A[y][a.term]
      BY <1>4, <2>1, <2>4
    <3> QED BY <2>2, <3>1
  <2> QED BY <2>3, <2>4
<1>14. RequestsInOrder'
  <2> SUFFICES ASSUME NEW x \in Server, NEW y \in Server
               PROVE  Reached(net'[x][y])
    BY DEF RequestsInOrder
  <2>1. net[x][y] \in Seq(Message) /\ Reached(net[x][y])
    BY <1>1 DEF TypeOK, RequestsInOrder
  <2>2. CASE x = i /\ y = j
    <3>1. CASE net'[i][j] = net[i][j]
      BY <2>1, <2>2, <3>1
    <3>2. CASE net'[i][j] # net[i][j]
      <4>1. PICK a \in Message : /\ net'[i][j] = Append(net[i][j], a)
                                 /\ a.type = "AppendEntriesResponse"
        BY <3>2 DEF TakeStep
      <4>2. \A b \in In(net[i][j]) : Reaching(b, a)
        BY <4>1 DEF Reaching, IsAppend
      <4> QED BY <2>1, <2>2, <4>1, <4>2, ReachedAppend
    <3> QED BY <3>1, <3>2
  <2>3. CASE ~(x = i /\ y = j)
    <3>1. net'[x][y] = IF x = j /\ y = i THEN Tail(net[x][y]) ELSE net[x][y]
      BY <2>3 DEF TakeStep
    <3> QED BY <1>2, <2>1, <3>1, ReachedTail
  <2> QED BY <2>2, <2>3
<1>15. AcceptsTrue(B)'
  <2> SUFFICES ASSUME NEW x \in Server, NEW y \in Server,
                      NEW a \in In(net'[y][x]), IsAccept(a)
               PROVE  <<a.term, x>> \in elected /\ a.index <= B[y][a.term]
    BY <1>1 DEF AcceptsTrue
  <2>1. CASE a \in In(net[y][x])
    <3>1. a \in Message /\ a.term \in Nat
      BY <1>1, <2>1, InMessages
    <3>2. a.index \in Nat
      BY <3>1 DEF Message, IsAccept, VoteRequestEvent, VoteResponseEvent,
         AppendEntriesRequestEvent, AppendEntriesResponseEvent
    <3>3. <<a.term, x>> \in elected /\ a.index <= A[y][a.term]
      BY <1>1, <2>1 DEF AcceptsTrue
    <3>4. A[y][a.term] \in Nat /\ B[y][a.term] \in Nat /\ A[y][a.term] <= B[y][a.term]
      <4>1. \A s \in Nat : A[y][s] <= B[y][s]
        BY <1>4 DEF Later
      <4> QED BY <1>6, <3>1, <4>1 DEF Acks
    <3> QED BY <3>2, <3>3, <3>4
  <2>2. CASE a \notin In(net[y][x])
    <3>1. /\ y = i /\ x = j /\ ok /\ a.term = t /\ a.index = Len(log'[i])
      BY <1>1, <2>2, TakeIn DEF IsAccept, t
    <3> QED BY <1>2, <1>4, <1>5, <3>1
  <2> QED BY <2>1, <2>2
<1> QED BY <1>7, <1>8, <1>9, <1>10, <1>11, <1>12, <1>13, <1>14, <1>15 DEF AckInv

-----------------------------------------------------------------------------
(* What is committed stays safe *)

\* What is safe is in the log of its leader.
LEMMA SafeWithin ==
  ASSUME NEW T \in TermLogs, NEW A, NEW c \in Nat, NEW t \in Nat, Safe(T, A, c, t)
  PROVE  c <= Len(T[t])
<1>1. Len(T[t]) \in Nat
  BY LenProperties DEF TermLogs
<1> QED BY <1>1 DEF Safe, Chosen, Own

LEMMA SafeBefore ==
  ASSUME NEW T, NEW A, NEW c \in Nat, NEW t, Safe(T, A, c, t), NEW n \in Nat, n <= c
  PROVE  Safe(T, A, n, t)
<1>1. PICK m \in Nat : c <= m /\ Chosen(T, A, t, m)
  BY DEF Safe
<1>2. n <= m
  BY <1>1
<1> QED BY <1>1, <1>2 DEF Safe

\* A server that commits nothing more.
LEMMA CommitStill ==
  ASSUME TypeOK, TypeOK', NEW T, NEW A, NEW U, NEW B,
         Later(T, A, currentTerm, U, B, currentTerm'), CommitsSafe(T, A),
         NEW x \in Server, logCommitIndex'[x] = logCommitIndex[x],
         SameUpTo(log'[x], log[x], Len(log[x])), logCommitIndex[x] # 0
  PROVE  \E t \in 0..currentTerm'[x] :
           /\ Safe(U, B, logCommitIndex'[x], t)
           /\ SameUpTo(log'[x], U[t], logCommitIndex'[x])
           /\ t = currentTerm'[x] => logCommitIndex'[x] <= B[x][t]
<1> DEFINE c == logCommitIndex[x]
<1>1. /\ c \in Nat /\ log[x] \in Seq(Entry) /\ log'[x] \in Seq(Entry)
      /\ currentTerm[x] \in Nat /\ currentTerm'[x] \in Nat /\ Len(log[x]) \in Nat
  BY LenProperties DEF TypeOK
<1>2. /\ T \in TermLogs /\ U \in TermLogs /\ Grows(T, U)
      /\ currentTerm[x] <= currentTerm'[x]
  BY DEF Later
<1>3. PICK t \in 0..currentTerm[x] :
        /\ Safe(T, A, c, t) /\ SameUpTo(log[x], T[t], c)
        /\ t = currentTerm[x] => c <= A[x][t]
  BY DEF CommitsSafe
<1>4. t \in Nat /\ t \in 0..currentTerm'[x] /\ T[t] \in Seq(Entry)
  <2>1. t \in Nat /\ t \in 0..currentTerm'[x]
    BY <1>1, <1>2
  <2> QED BY <1>2, <2>1 DEF TermLogs
<1>5. Safe(U, B, c, t)
  BY <1>3, <1>4, SafeStill
<1>6. c <= Len(log[x])
  BY <1>3 DEF SameUpTo
<1>7. SameUpTo(log'[x], T[t], c)
  BY <1>1, <1>3, <1>4, <1>6, SameTrans
<1>8. SameUpTo(log'[x], U[t], c)
  BY <1>1, <1>2, <1>4, <1>7, SameStill
<1>9. t = currentTerm'[x] => c <= B[x][t]
  <2>1. A[x][t] \in Nat /\ B[x][t] \in Nat /\ A[x][t] <= B[x][t]
    BY <1>4 DEF Later, Acks
  <2> QED BY <1>1, <1>2, <1>3, <2>1
<1> QED BY <1>4, <1>5, <1>8, <1>9

LEMMA RequestsSafeStill ==
  ASSUME TypeOK, NEW T, NEW A, NEW U, NEW B,
         Later(T, A, currentTerm, U, B, currentTerm'),
         CommitsSafe(T, A), RequestsSafe(T, A),
         \A x, y \in Server : \A m \in In(net'[x][y]) : IsAppend(m) =>
           \/ m \in In(net[x][y])
           \/ m.term = currentTerm[x] /\ m.leaderCommit = logCommitIndex[x]
  PROVE  RequestsSafe(U, B)'
<1> SUFFICES ASSUME NEW x \in Server, NEW y \in Server, NEW m \in In(net'[x][y]),
                    IsAppend(m), m.leaderCommit # 0
             PROVE  \E t \in 0..m.term : Safe(U, B, m.leaderCommit, t)
  BY DEF RequestsSafe
<1>1. CASE m \in In(net[x][y])
  <2>1. m.term \in Nat
    BY <1>1, InMessages
  <2>2. PICK t \in 0..m.term : Safe(T, A, m.leaderCommit, t)
    BY <1>1 DEF RequestsSafe
  <2> QED BY <2>1, <2>2, SafeStill
<1>2. CASE m.term = currentTerm[x] /\ m.leaderCommit = logCommitIndex[x]
  <2>1. m.term \in Nat
    BY <1>2 DEF TypeOK
  <2>2. PICK t \in 0..m.term : Safe(T, A, m.leaderCommit, t)
    BY <1>2 DEF CommitsSafe
  <2> QED BY <2>1, <2>2, SafeStill
<1> QED BY <1>1, <1>2

LEMMA MatchesStill ==
  ASSUME TypeOK, NEW T, NEW A, NEW U, NEW B,
         Later(T, A, currentTerm, U, B, currentTerm'), MatchesTrue(A),
         NEW i \in Server, state'[i] = "LEADER", state[i] = "LEADER",
         currentTerm'[i] = currentTerm[i], NEW p \in Peers(i),
         matchIndex'[i][p] = matchIndex[i][p]
  PROVE  matchIndex'[i][p] <= B[p][currentTerm'[i]]
<1>1. /\ p \in Server /\ currentTerm[i] \in Nat /\ matchIndex[i][p] \in Nat
  BY DEF TypeOK, Peers
<1>2. /\ A[p][currentTerm[i]] \in Nat /\ B[p][currentTerm[i]] \in Nat
      /\ A[p][currentTerm[i]] <= B[p][currentTerm[i]]
  BY <1>1 DEF Later, Acks
<1>3. matchIndex[i][p] <= A[p][currentTerm[i]]
  BY DEF MatchesTrue
<1> QED BY <1>1, <1>2, <1>3

-----------------------------------------------------------------------------
(* CommitCh *)

\* x puts in CommitCh what it commits in the step, or gives a command back.
Delivers(x) ==
  \/ Redirects(x)
  \/ commitCh'[x] = commitCh[x] \o
       CommitInfos(log'[x], logCommitIndex[x], logCommitIndex'[x])

\* Element a of CommitCh of x is new and tells of an entry committed in the step.
Delivered(x, a) ==
  LET n == logCommitIndex[x] + (a - Len(commitCh[x])) IN
  /\ n \in (logCommitIndex[x] + 1)..logCommitIndex'[x]
  /\ commitCh'[x][a].index = n
  /\ commitCh'[x][a].cmd = log'[x][n].cmd

LEMMA DeliveredElement ==
  ASSUME TypeOK, TypeOK', NEW x \in Server, Delivers(x),
         logCommitIndex[x] <= logCommitIndex'[x],
         logCommitIndex'[x] <= Len(log'[x]),
         NEW a \in 1..Len(commitCh'[x]), ~commitCh'[x][a].err
  PROVE  \/ a \in 1..Len(commitCh[x]) /\ commitCh'[x][a] = commitCh[x][a]
         \/ a > Len(commitCh[x]) /\ Delivered(x, a)
<1> DEFINE q == commitCh[x]
           c == logCommitIndex[x]
           d == logCommitIndex'[x]
           s == CommitInfos(log'[x], c, d)
<1>1. /\ q \in Seq(CommitInfo) /\ Len(q) \in Nat /\ c \in Nat /\ d \in Nat
      /\ log'[x] \in Seq(Entry)
  BY LenProperties DEF TypeOK
<1>2. CASE commitCh'[x] = q
  BY <1>2
<1>3. ASSUME NEW ci \in CommitInfo, ci.err, commitCh'[x] = Append(q, ci)
      PROVE  a \in 1..Len(q) /\ commitCh'[x][a] = q[a]
  <2>1. /\ Len(Append(q, ci)) = Len(q) + 1 /\ Append(q, ci)[Len(q) + 1] = ci
        /\ \A b \in 1..Len(q) : Append(q, ci)[b] = q[b]
    BY <1>1, AppendProperties
  <2>2. a # Len(q) + 1
    BY <1>3, <2>1
  <2> QED BY <1>1, <1>3, <2>1, <2>2
<1>4. CASE commitCh'[x] = q \o s
  <2>1. s \in Seq(CommitInfo) /\ Len(s) = d - c
    <3>1. s \in Seq(CommitInfo)
      BY <1>1, CommitInfosType
    <3>2. DOMAIN s = 1..Len(s) /\ Len(s) \in Nat /\ DOMAIN s = 1..(d - c)
          /\ d - c \in Nat
      BY <1>1, <3>1, LenProperties DEF CommitInfos
    <3> QED BY <3>1, <3>2
  <2> HIDE DEF q, s, c, d
  <2>2. /\ Len(q \o s) = Len(q) + Len(s)
        /\ \A b \in 1..(Len(q) + Len(s)) :
             (q \o s)[b] = IF b <= Len(q) THEN q[b] ELSE s[b - Len(q)]
    BY <1>1, <2>1, ConcatProperties
  <2>3. CASE a <= Len(q)
    BY <1>1, <1>4, <2>1, <2>2, <2>3 DEF q
  <2>4. CASE ~(a <= Len(q))
    <3> DEFINE k == a - Len(q)
    <3>1. k \in 1..(d - c)
      <4>1. a \in 1..(Len(q) + Len(s))
        BY <1>4, <2>2
      <4> QED BY <1>1, <2>1, <2>4, <4>1
    <3>2. commitCh'[x][a] = s[k]
      BY <1>4, <2>2, <2>4
    <3>3. s[k] = [index |-> c + k, cmd |-> log'[x][c + k].cmd, err |-> FALSE]
      BY <3>1 DEF CommitInfos, s, c, d
    <3>4. c + k \in (c + 1)..d /\ a > Len(q)
      BY <1>1, <2>4, <3>1
    <3> QED BY <3>2, <3>3, <3>4 DEF Delivered, q, c, d
  <2> QED BY <2>3, <2>4
<1> QED BY <1>2, <1>3, <1>4 DEF Delivers, Redirects

\* What a step may do to commits, for CommitCh to stay right.
DeliverStep ==
  \A x \in Server : Delivers(x) /\ logCommitIndex[x] <= logCommitIndex'[x]

LEMMA CommitWithin ==
  ASSUME TypeOK, NEW T, NEW A, CommitsSafe(T, A), NEW x \in Server
  PROVE  logCommitIndex[x] <= Len(log[x])
<1>1. logCommitIndex[x] \in Nat /\ Len(log[x]) \in Nat
  BY LenProperties DEF TypeOK
<1>2. CASE logCommitIndex[x] = 0
  BY <1>1, <1>2
<1>3. CASE logCommitIndex[x] # 0
  BY <1>3 DEF CommitsSafe, SameUpTo
<1> QED BY <1>2, <1>3

LEMMA CommitWithinAfter ==
  ASSUME TypeOK', NEW U, NEW B, CommitsSafe(U, B)', NEW x \in Server
  PROVE  logCommitIndex'[x] <= Len(log'[x])
<1>1. logCommitIndex'[x] \in Nat /\ Len(log'[x]) \in Nat
  BY LenProperties DEF TypeOK
<1>2. CASE logCommitIndex'[x] = 0
  BY <1>1, <1>2
<1>3. CASE logCommitIndex'[x] # 0
  BY <1>3 DEF CommitsSafe, SameUpTo
<1> QED BY <1>2, <1>3

LEMMA CommitChStill ==
  ASSUME TypeOK, TypeOK', NEW T, NEW A, NEW U, NEW B,
         Later(T, A, currentTerm, U, B, currentTerm'),
         CommitChSafe(T, A), CommitChRising, CommitsSafe(U, B)', DeliverStep
  PROVE  CommitChSafe(U, B)' /\ CommitChRising'
<1>1. ASSUME NEW x \in Server, NEW a \in 1..Len(commitCh'[x]), ~commitCh'[x][a].err
      PROVE  \/ a \in 1..Len(commitCh[x]) /\ commitCh'[x][a] = commitCh[x][a]
             \/ a > Len(commitCh[x]) /\ Delivered(x, a)
  BY <1>1, CommitWithinAfter, DeliveredElement DEF DeliverStep
<1>2. \A x \in Server : /\ logCommitIndex[x] \in Nat /\ logCommitIndex'[x] \in Nat
                        /\ logCommitIndex[x] <= logCommitIndex'[x]
                        /\ Len(commitCh[x]) \in Nat
  BY LenProperties DEF TypeOK, DeliverStep
<1>3. CommitChSafe(U, B)'
  <2> SUFFICES ASSUME NEW x \in Server, NEW a \in 1..Len(commitCh'[x]),
                      ~commitCh'[x][a].err
               PROVE  /\ commitCh'[x][a].index \in 1..logCommitIndex'[x]
                      /\ \E t \in Nat :
                           /\ Safe(U, B, commitCh'[x][a].index, t)
                           /\ U[t][commitCh'[x][a].index].cmd = commitCh'[x][a].cmd
    BY DEF CommitChSafe
  <2> DEFINE n == commitCh'[x][a].index
             d == logCommitIndex'[x]
  <2>1. CASE a \in 1..Len(commitCh[x]) /\ commitCh'[x][a] = commitCh[x][a]
    <3>1. n \in 1..logCommitIndex[x]
      BY <2>1 DEF CommitChSafe
    <3>2. n \in Nat /\ n \in 1..d
      BY <1>2, <3>1
    <3>3. PICK t \in Nat : Safe(T, A, n, t) /\ T[t][n].cmd = commitCh'[x][a].cmd
      BY <2>1 DEF CommitChSafe
    <3>4. T \in TermLogs /\ Grows(T, U)
      BY DEF Later
    <3>5. n <= Len(T[t]) /\ Len(T[t]) \in Nat
      BY <3>2, <3>3, <3>4, SafeWithin, LenProperties DEF TermLogs
    <3>6. U[t][n] = T[t][n]
      <4>1. n \in 1..Len(T[t])
        BY <3>1, <3>2, <3>5
      <4>2. SameUpTo(U[t], T[t], Len(T[t]))
        BY <3>4 DEF Grows
      <4> QED BY <4>1, <4>2 DEF SameUpTo
    <3>7. Safe(U, B, n, t)
      BY <3>3, SafeStill
    <3> QED BY <3>2, <3>3, <3>6, <3>7
  <2>2. CASE Delivered(x, a)
    <3>1. /\ n \in (logCommitIndex[x] + 1)..d
          /\ commitCh'[x][a].cmd = log'[x][n].cmd
      BY <2>2 DEF Delivered
    <3>2. n \in Nat /\ n \in 1..d /\ n <= d /\ d # 0 /\ d \in Nat
      BY <1>2, <3>1
    <3>3. PICK t \in 0..currentTerm'[x] :
            Safe(U, B, d, t) /\ SameUpTo(log'[x], U[t], d)
      BY <3>2 DEF CommitsSafe
    <3>4. t \in Nat /\ log'[x][n] = U[t][n]
      <4>1. currentTerm'[x] \in Nat
        BY DEF TypeOK
      <4>2. n \in 1..d
        BY <3>2
      <4>3. t \in Nat
        BY <3>3, <4>1
      <4> QED BY <3>3, <4>2, <4>3 DEF SameUpTo
    <3>5. Safe(U, B, n, t)
      BY <3>2, <3>3, SafeBefore
    <3> QED BY <3>1, <3>2, <3>4, <3>5
  <2> QED BY <1>1, <2>1, <2>2
<1>4. CommitChRising'
  <2> SUFFICES ASSUME NEW x \in Server,
                      NEW a \in 1..Len(commitCh'[x]), NEW b \in 1..Len(commitCh'[x]),
                      a < b, ~commitCh'[x][a].err, ~commitCh'[x][b].err
               PROVE  commitCh'[x][a].index < commitCh'[x][b].index
    BY DEF CommitChRising
  <2> DEFINE c == logCommitIndex[x]
  <2>1. CASE b \in 1..Len(commitCh[x]) /\ commitCh'[x][b] = commitCh[x][b]
    <3>1. ~(a > Len(commitCh[x]))
      BY <1>2, <2>1
    <3>2. a \in 1..Len(commitCh[x]) /\ commitCh'[x][a] = commitCh[x][a]
      BY <1>1, <3>1
    <3> QED BY <2>1, <3>2 DEF CommitChRising
  <2>2. CASE b > Len(commitCh[x]) /\ Delivered(x, b)
    <3>1. commitCh'[x][b].index = c + (b - Len(commitCh[x]))
      BY <2>2 DEF Delivered
    <3>2. CASE a \in 1..Len(commitCh[x]) /\ commitCh'[x][a] = commitCh[x][a]
      <4>1. commitCh'[x][a].index \in 1..c
        BY <3>2 DEF CommitChSafe
      <4> QED BY <1>2, <2>2, <3>1, <4>1
    <3>3. CASE Delivered(x, a)
      <4>1. commitCh'[x][a].index = c + (a - Len(commitCh[x]))
        BY <3>3 DEF Delivered
      <4> QED BY <1>2, <3>1, <4>1
    <3> QED BY <1>1, <3>2, <3>3
  <2> QED BY <1>1, <2>1, <2>2
<1> QED BY <1>3, <1>4

-----------------------------------------------------------------------------
(* Every step, while servers lead once *)

\* No new request tells of commits but those of a leader before the step.
RequestStep ==
  \A x, y \in Server : \A m \in In(net'[x][y]) : IsAppend(m) =>
    \/ m \in In(net[x][y])
    \/ m.term = currentTerm[x] /\ m.leaderCommit = logCommitIndex[x]

LEMMA RequestsSent ==
  ASSUME TypeOK, SentNet
  PROVE  RequestStep
<1> SUFFICES ASSUME NEW x \in Server, NEW y \in Server, NEW m \in In(net'[x][y]),
                    IsAppend(m), m \in Sent(x)
             PROVE  m.term = currentTerm[x] /\ m.leaderCommit = logCommitIndex[x]
  BY SentIn DEF RequestStep
<1>1. PICK n \in 1..(Len(log[x]) + 1) : m = AppendRequestMsg(x, n)
  BY DEF Sent
<1> QED BY <1>1 DEF AppendRequestMsg

\* The steps in which nobody commits more.
LEMMA CommitInvStay ==
  ASSUME TypeOK, TypeOK', NEW T, NEW A, NEW U, NEW B,
         Later(T, A, currentTerm, U, B, currentTerm'), CommitInv(T, A), SentNet,
         \A x \in Server : /\ Redirects(x)
                           /\ logCommitIndex'[x] = logCommitIndex[x]
                           /\ SameUpTo(log'[x], log[x], Len(log[x])),
         MatchesTrue(B)'
  PROVE  CommitInv(U, B)'
<1>1. /\ CommitsSafe(T, A) /\ RequestsSafe(T, A) /\ CommitChSafe(T, A)
      /\ CommitChRising
  BY DEF CommitInv
<1>2. CommitsSafe(U, B)'
  <2> SUFFICES ASSUME NEW x \in Server, logCommitIndex'[x] # 0
               PROVE  \E t \in 0..currentTerm'[x] :
                        /\ Safe(U, B, logCommitIndex'[x], t)
                        /\ SameUpTo(log'[x], U[t], logCommitIndex'[x])
                        /\ t = currentTerm'[x] => logCommitIndex'[x] <= B[x][t]
    BY DEF CommitsSafe
  <2> QED BY <1>1, CommitStill
<1>3. RequestsSafe(U, B)'
  <2>1. RequestStep
    BY RequestsSent
  <2> QED BY <1>1, <2>1, RequestsSafeStill DEF RequestStep
<1>4. DeliverStep
  <2> SUFFICES ASSUME NEW x \in Server
               PROVE  Delivers(x) /\ logCommitIndex[x] <= logCommitIndex'[x]
    BY DEF DeliverStep
  <2>1. logCommitIndex[x] \in Nat /\ logCommitIndex'[x] = logCommitIndex[x]
    BY DEF TypeOK
  <2>2. logCommitIndex[x] <= logCommitIndex'[x]
    BY <2>1
  <2>3. Redirects(x)
    OBVIOUS
  <2> QED BY <2>2, <2>3 DEF Delivers
<1>5. CommitChSafe(U, B)' /\ CommitChRising'
  BY <1>1, <1>2, <1>4, CommitChStill
<1> QED BY <1>2, <1>3, <1>5 DEF CommitInv

LEMMA CommitInvQuiet ==
  ASSUME ElectionInv, TypeOK', [Next]_vars,
         \/ IdleStep
         \/ \E i \in Server : CampaignStep(i)
         \/ \E i, j \in Server : GrantStep(i, j),
         NEW T \in TermLogs, NEW A \in Acks, CommitInv(T, A)
  PROVE  CommitInv(T, A)'
<1>1. /\ TypeOK /\ LogsStay /\ MatchesTrue(A)
      /\ Later(T, A, currentTerm, T, A, currentTerm')
  BY StepsStay, LaterSame DEF ElectionInv, CommitInv
<1>2. /\ SentNet /\ UNCHANGED <<log, logCommitIndex, matchIndex>>
      /\ \A x \in Server : Redirects(x)
  BY DEF IdleStep, CampaignStep, GrantStep, Redirects
<1>3. \A x \in Server : SameUpTo(log'[x], log[x], Len(log[x]))
  <2>1. \A x \in Server : log[x] \in Seq(Entry) /\ log'[x] = log[x]
    BY <1>1, <1>2 DEF TypeOK
  <2> QED BY <2>1, SameSelf
<1>4. MatchesTrue(A)'
  <2> SUFFICES ASSUME NEW x \in Server, state'[x] = "LEADER", NEW p \in Peers(x)
               PROVE  matchIndex'[x][p] <= A[p][currentTerm'[x]]
    BY DEF MatchesTrue
  <2>1. state[x] = "LEADER" /\ currentTerm'[x] = currentTerm[x]
    BY <1>1 DEF LogsStay
  <2> QED BY <1>1, <1>2, <2>1, MatchesStill
<1>5. \A x \in Server : /\ Redirects(x)
                        /\ logCommitIndex'[x] = logCommitIndex[x]
                        /\ SameUpTo(log'[x], log[x], Len(log[x]))
  BY <1>2, <1>3
<1> QED BY <1>1, <1>2, <1>4, <1>5, CommitInvStay

LEMMA CommitInvLog ==
  ASSUME ElectionInv, TypeOK', [Next]_vars, NEW i \in Server, LogStep(i),
         NEW T \in TermLogs, NEW A \in Acks, NEW U \in TermLogs, NEW B,
         Grows(T, U), AcksReached(T, A), CommitInv(T, A),
         LeaderTakes(T, A, U, B, i, currentTerm[i], log'[i])
  PROVE  CommitInv(U, B)'
<1>1. /\ TypeOK /\ MatchesTrue(A) /\ SentNet
      /\ UNCHANGED <<state, currentTerm, logCommitIndex, matchIndex, commitCh>>
      /\ log'[i] \in Seq(Entry)
  BY DEF ElectionInv, CommitInv, LogStep, termVars, TypeOK
<1>2. Later(T, A, currentTerm, U, B, currentTerm')
  BY <1>1, LaterTakes
<1>3. PICK c \in Cmd : log' = [log EXCEPT ![i] =
                                 Append(@, [term |-> currentTerm[i], cmd |-> c])]
  BY DEF LogStep
<1>4. ASSUME NEW x \in Server
      PROVE  SameUpTo(log'[x], log[x], Len(log[x]))
  <2> DEFINE e == [term |-> currentTerm[i], cmd |-> c]
  <2>1. log[x] \in Seq(Entry) /\ Len(log[x]) \in Nat /\ e \in Entry
    BY <1>1, LenProperties DEF TypeOK, Entry
  <2>2. log'[x] = IF x = i THEN Append(log[x], e) ELSE log[x]
    BY <1>1, <1>3 DEF TypeOK
  <2> HIDE DEF e
  <2>3. /\ Len(Append(log[x], e)) = Len(log[x]) + 1
        /\ \A b \in 1..Len(log[x]) : Append(log[x], e)[b] = log[x][b]
    BY <2>1, AppendProperties
  <2> QED BY <2>1, <2>2, <2>3 DEF SameUpTo
<1>5. MatchesTrue(B)'
  <2> SUFFICES ASSUME NEW x \in Server, state'[x] = "LEADER", NEW p \in Peers(x)
               PROVE  matchIndex'[x][p] <= B[p][currentTerm'[x]]
    BY DEF MatchesTrue
  <2> QED BY <1>1, <1>2, MatchesStill
<1>6. \A x \in Server : /\ Redirects(x)
                        /\ logCommitIndex'[x] = logCommitIndex[x]
                        /\ SameUpTo(log'[x], log[x], Len(log[x]))
  BY <1>1, <1>4 DEF Redirects
<1> QED BY <1>1, <1>2, <1>5, <1>6, CommitInvStay

LEMMA CommitInvLead ==
  ASSUME ElectionInv, TypeOK', [Next]_vars, NEW i \in Server, LeadStep(i),
         NEW T \in TermLogs, NEW A \in Acks, NEW U \in TermLogs, NEW B,
         Grows(T, U), AcksReached(T, A), CommitInv(T, A),
         LeaderTakes(T, A, U, B, i, currentTerm[i], log'[i])
  PROVE  CommitInv(U, B)'
<1>1. /\ TypeOK /\ MatchesTrue(A) /\ SentNet
      /\ UNCHANGED <<currentTerm, log, logCommitIndex, commitCh>>
      /\ log'[i] \in Seq(Entry)
  BY DEF ElectionInv, CommitInv, LeadStep, TypeOK
<1>2. Later(T, A, currentTerm, U, B, currentTerm')
  BY <1>1, LaterTakes
<1>3. \A x \in Server : SameUpTo(log'[x], log[x], Len(log[x]))
  <2>1. \A x \in Server : log[x] \in Seq(Entry) /\ log'[x] = log[x]
    BY <1>1 DEF TypeOK
  <2> QED BY <2>1, SameSelf
<1>4. /\ matchIndex'[i] = [p \in Server |-> 0]
      /\ \A x \in Server \ {i} : /\ matchIndex'[x] = matchIndex[x]
                                 /\ state'[x] = state[x]
  BY <1>1 DEF LeadStep, TypeOK
<1>5. MatchesTrue(B)'
  <2> SUFFICES ASSUME NEW x \in Server, state'[x] = "LEADER", NEW p \in Peers(x)
               PROVE  matchIndex'[x][p] <= B[p][currentTerm'[x]]
    BY DEF MatchesTrue
  <2>1. CASE x = i
    <3>1. p \in Server /\ currentTerm'[x] \in Nat /\ B \in Acks
      BY <1>2 DEF Later, Peers, TypeOK
    <3>2. B[p][currentTerm'[x]] \in Nat
      BY <3>1 DEF Acks
    <3> QED BY <1>4, <2>1, <3>1, <3>2
  <2>2. CASE x # i
    BY <1>1, <1>2, <1>4, <2>2, MatchesStill
  <2> QED BY <2>1, <2>2
<1>6. \A x \in Server : /\ Redirects(x)
                        /\ logCommitIndex'[x] = logCommitIndex[x]
                        /\ SameUpTo(log'[x], log[x], Len(log[x]))
  BY <1>1, <1>3 DEF Redirects
<1> QED BY <1>1, <1>2, <1>5, <1>6, CommitInvStay

-----------------------------------------------------------------------------
(* A leader that leads once learns what its peers have, and commits *)

LEMMA MajorityHas ==
  ASSUME OddCluster, NEW i \in Server, NEW S \in SUBSET Peers(i),
         1 + Cardinality(S) >= Majority
  PROVE  S \cup {i} \in Majorities
<1>1. IsFiniteSet(S) /\ S \subseteq Server /\ i \notin S
  BY ServerAssumption, FS_Subset DEF Peers
<1>2. Cardinality(S \cup {i}) = Cardinality(S) + 1 /\ Cardinality(S) \in Nat
  BY <1>1, FS_AddElement, FS_CardinalityType
<1>3. Majority \in Nat /\ 2 * Majority > Cardinality(Server)
      /\ Cardinality(Server) \in Nat
  BY MajorityOfOdd, ServerAssumption, FS_CardinalityType
<1>4. 2 * Cardinality(S \cup {i}) > Cardinality(Server)
  BY <1>2, <1>3
<1> QED BY <1>1, <1>4 DEF Majorities

LEMMA CommittableChosen ==
  ASSUME OddCluster, TypeOK, NEW T \in TermLogs, NEW A \in Acks,
         LeadersHave(T), LeadersAck(A), NEW i \in Server, state[i] = "LEADER",
         NEW match \in [Server -> Nat], ~BeyondLog(i, match),
         \A p \in Peers(i) : match[p] <= A[p][currentTerm[i]],
         NEW n \in Committable(i, match)
  PROVE  /\ n \in 1..Len(log[i]) /\ n > logCommitIndex[i]
         /\ Chosen(T, A, currentTerm[i], n)
<1> DEFINE t == currentTerm[i]
           S == {p \in Peers(i) : match[p] >= n}
<1>1. /\ n \in {match[p] : p \in Peers(i)} /\ n > logCommitIndex[i]
      /\ TermAt(log[i], n) = t /\ 1 + Cardinality(S) >= Majority
  BY DEF Committable
<1>2. /\ t \in Nat /\ log[i] \in Seq(Entry) /\ Len(log[i]) \in Nat
      /\ logCommitIndex[i] \in Nat /\ log[i] = T[t] /\ A[i][t] = Len(log[i])
  BY LenProperties DEF TypeOK, LeadersHave, LeadersAck
<1>3. PICK p \in Peers(i) : n = match[p]
  BY <1>1
<1>4. n \in Nat
  BY <1>3 DEF Peers
<1>5. n <= Len(log[i])
  BY <1>1, <1>2, <1>3, <1>4 DEF BeyondLog
<1>6. n \in 1..Len(log[i])
  BY <1>1, <1>2, <1>4, <1>5
<1>7. Own(T, t, n)
  BY <1>1, <1>2, <1>6 DEF Own, TermAt
<1>8. S \cup {i} \in Majorities
  BY <1>1, MajorityHas
<1>9. ASSUME NEW v \in S \cup {i}
      PROVE  n <= A[v][t]
  <2>1. CASE v = i
    BY <1>2, <1>5, <2>1
  <2>2. CASE v \in S
    <3>1. v \in Server /\ match[v] \in Nat /\ match[v] <= A[v][t] /\ n <= match[v]
      BY <1>4, <2>2 DEF Peers
    <3>2. A[v][t] \in Nat
      BY <1>2, <3>1 DEF Acks
    <3> QED BY <1>4, <3>1, <3>2
  <2> QED BY <2>1, <2>2
<1> QED BY <1>1, <1>6, <1>7, <1>8, <1>9 DEF Chosen

\* The answer is to a request of the present reign.
LEMMA MatchesLearned ==
  ASSUME ElectionInv, OneReign, NEW A \in Acks, AcceptsTrue(A), MatchesTrue(A),
         NEW i \in Server, NEW j \in Server, MatchStep(i, j),
         NEW m, m = Head(net[j][i]), NEW match,
         match = [matchIndex[i] EXCEPT ![j] = m.index]
  PROVE  /\ match \in [Server -> Nat] /\ state[i] = "LEADER"
         /\ \A p \in Peers(i) : match[p] <= A[p][currentTerm[i]]
<1>1. /\ TypeOK /\ LeaderElected /\ state[i] = "LEADER"
      /\ net[j][i] # <<>> /\ IsAccept(m)
  BY DEF ElectionInv, MatchStep
<1>2. m \in In(net[j][i]) /\ m \in Message
  BY <1>1, HeadTerm, InMessages
<1>3. m.index \in Nat
  BY <1>1, <1>2 DEF Message, IsAccept, VoteRequestEvent, VoteResponseEvent,
     AppendEntriesRequestEvent, AppendEntriesResponseEvent
<1>4. <<m.term, i>> \in elected /\ m.index <= A[j][m.term]
  BY <1>1, <1>2 DEF AcceptsTrue
<1>5. <<currentTerm[i], i>> \in elected
  BY <1>1 DEF LeaderElected
<1>6. m.term = currentTerm[i]
  BY <1>4, <1>5 DEF OneReign
<1>7. matchIndex[i] \in [Server -> Nat]
  BY <1>1 DEF TypeOK
<1>8. match \in [Server -> Nat] /\ match[j] = m.index
      /\ \A p \in Server \ {j} : match[p] = matchIndex[i][p]
  BY <1>3, <1>7
<1>9. \A p \in Peers(i) : match[p] <= A[p][currentTerm[i]]
  BY <1>1, <1>4, <1>6, <1>8 DEF MatchesTrue, Peers
<1> QED BY <1>1, <1>8, <1>9

LEMMA CommitInvMatch ==
  ASSUME OddCluster, ElectionInv, TypeOK', [Next]_vars, OneReign,
         NEW i \in Server, NEW j \in Server, MatchStep(i, j),
         NEW T \in TermLogs, NEW A \in Acks, LogInv(T), AckInv(T, A), CommitInv(T, A)
  PROVE  CommitInv(T, A)'
<1>1. /\ TypeOK /\ MatchesTrue(A) /\ CommitsSafe(T, A) /\ RequestsSafe(T, A)
      /\ CommitChSafe(T, A) /\ CommitChRising /\ AcceptsTrue(A)
      /\ LeadersHave(T) /\ LeadersAck(A) /\ SentNet
      /\ Later(T, A, currentTerm, T, A, currentTerm')
      /\ UNCHANGED <<state, currentTerm, log>>
  BY LaterSame DEF ElectionInv, CommitInv, AckInv, LogInv, MatchStep, termVars
<1>2. PICK m, match : m = Head(net[j][i])
                        /\ match = [matchIndex[i] EXCEPT ![j] = m.index]
  OBVIOUS
<1>3. /\ match \in [Server -> Nat] /\ state[i] = "LEADER"
      /\ \A p \in Peers(i) : match[p] <= A[p][currentTerm[i]]
  BY <1>1, <1>2, MatchesLearned
<1>4. /\ matchIndex' = [matchIndex EXCEPT ![i] = match]
      /\ ~BeyondLog(i, match) /\ AdvanceCommit(i, match)
  BY <1>2 DEF MatchStep
<1>5. matchIndex'[i] = match /\ \A x \in Server \ {i} : matchIndex'[x] = matchIndex[x]
  BY <1>1, <1>4 DEF TypeOK
<1>6. MatchesTrue(A)'
  BY <1>1, <1>3, <1>5 DEF MatchesTrue
<1>7. ASSUME NEW x \in Server
      PROVE  /\ log[x] \in Seq(Entry) /\ log'[x] = log[x]
             /\ SameUpTo(log'[x], log[x], Len(log[x]))
             /\ logCommitIndex[x] \in Nat
  BY <1>1, SameSelf DEF TypeOK
<1>8. ASSUME NEW x \in Server
      PROVE  \/ logCommitIndex'[x] = logCommitIndex[x] /\ commitCh'[x] = commitCh[x]
             \/ /\ x = i /\ logCommitIndex'[i] \in Committable(i, match)
                /\ commitCh'[i] = commitCh[i] \o
                     CommitInfos(log[i], logCommitIndex[i], logCommitIndex'[i])
  <2>1. CASE UNCHANGED <<logCommitIndex, commitCh>>
    BY <2>1
  <2>2. CASE ~UNCHANGED <<logCommitIndex, commitCh>>
    <3>1. PICK n \in Committable(i, match) :
            /\ commitCh' = [commitCh EXCEPT ![i] =
                 @ \o CommitInfos(log[i], logCommitIndex[i], n)]
            /\ logCommitIndex' = [logCommitIndex EXCEPT ![i] = n]
      BY <1>4, <2>2 DEF AdvanceCommit
    <3>2. DOMAIN commitCh = Server /\ DOMAIN logCommitIndex = Server
      BY <1>1 DEF TypeOK
    <3>3. /\ logCommitIndex'[x] = IF x = i THEN n ELSE logCommitIndex[x]
          /\ logCommitIndex'[i] = n
      BY <3>1, <3>2
    <3>4. commitCh'[x] = IF x = i
            THEN commitCh[i] \o CommitInfos(log[i], logCommitIndex[i], n)
            ELSE commitCh[x]
      BY <3>1, <3>2
    <3> QED BY <3>3, <3>4
  <2> QED BY <2>1, <2>2
<1>9. ASSUME NEW n \in Committable(i, match)
      PROVE  /\ n \in 1..Len(log[i]) /\ n > logCommitIndex[i]
             /\ Chosen(T, A, currentTerm[i], n)
  BY <1>1, <1>3, <1>4, CommittableChosen
<1>10. CommitsSafe(T, A)'
  <2> SUFFICES ASSUME NEW x \in Server, logCommitIndex'[x] # 0
               PROVE  \E t \in 0..currentTerm'[x] :
                        /\ Safe(T, A, logCommitIndex'[x], t)
                        /\ SameUpTo(log'[x], T[t], logCommitIndex'[x])
                        /\ t = currentTerm'[x] => logCommitIndex'[x] <= A[x][t]
    BY DEF CommitsSafe
  <2>1. CASE logCommitIndex'[x] = logCommitIndex[x]
    BY <1>1, <1>7, <2>1, CommitStill
  <2>2. CASE x = i /\ logCommitIndex'[i] \in Committable(i, match)
    <3> DEFINE n == logCommitIndex'[i]
               t == currentTerm[i]
    <3>1. /\ n \in 1..Len(log[i]) /\ Chosen(T, A, t, n)
          /\ t \in Nat /\ Len(log[i]) \in Nat
      BY <1>1, <1>7, <1>9, <2>2, LenProperties DEF TypeOK
    <3>2. log[i] = T[t] /\ A[i][t] = Len(log[i])
      BY <1>1, <1>3 DEF LeadersHave, LeadersAck
    <3>3. n \in Nat /\ n <= n /\ n <= Len(log[i]) /\ t \in 0..t
      BY <3>1
    <3>4. Safe(T, A, n, t)
      BY <3>1, <3>3 DEF Safe
    <3>5. SameUpTo(log'[i], T[t], n) /\ n <= A[i][t]
      BY <1>1, <3>2, <3>3 DEF SameUpTo
    <3> QED BY <1>1, <2>2, <3>3, <3>4, <3>5
  <2> QED BY <1>8, <2>1, <2>2
<1>11. RequestsSafe(T, A)'
  <2>1. RequestStep
    BY <1>1, RequestsSent
  <2> QED BY <1>1, <2>1, RequestsSafeStill DEF RequestStep
<1>12. DeliverStep
  <2> SUFFICES ASSUME NEW x \in Server
               PROVE  Delivers(x) /\ logCommitIndex[x] <= logCommitIndex'[x]
    BY DEF DeliverStep
  <2>1. CASE logCommitIndex'[x] = logCommitIndex[x] /\ commitCh'[x] = commitCh[x]
    <3>1. logCommitIndex[x] <= logCommitIndex'[x]
      BY <1>7, <2>1
    <3> QED BY <2>1, <3>1 DEF Delivers, Redirects
  <2>2. CASE /\ x = i /\ logCommitIndex'[i] \in Committable(i, match)
             /\ commitCh'[i] = commitCh[i] \o
                  CommitInfos(log[i], logCommitIndex[i], logCommitIndex'[i])
    <3>1. logCommitIndex'[i] > logCommitIndex[i] /\ logCommitIndex'[i] \in Int
      BY <1>9, <2>2
    <3>2. logCommitIndex[x] <= logCommitIndex'[x]
      BY <1>7, <2>2, <3>1
    <3>3. Delivers(x)
      BY <1>1, <2>2 DEF Delivers
    <3> QED BY <3>2, <3>3
  <2> QED BY <1>8, <2>1, <2>2
<1>13. CommitChSafe(T, A)' /\ CommitChRising'
  BY <1>1, <1>10, <1>12, CommitChStill
<1> QED BY <1>6, <1>10, <1>11, <1>13 DEF CommitInv

-----------------------------------------------------------------------------
(* A follower learns what its leader has committed *)

\* What is safe in term t or one before is in the log of the leader of term t,
\* and in what that leader began with if it is older.
LEMMA SafeCarried ==
  ASSUME NEW T \in TermLogs, NEW A \in Acks, LeadersCarry(T, A),
         NEW e \in elected, e[1] \in Nat, NEW s \in 0..e[1],
         NEW c \in Nat, Safe(T, A, c, s)
  PROVE  /\ SameUpTo(T[e[1]], T[s], c)
         /\ s # e[1] => \A k \in Nat :
              (\A n \in (k + 1)..Len(T[e[1]]) : T[e[1]][n].term = e[1]) => c <= k
<1> DEFINE t == e[1]
<1>1. PICK n \in Nat : c <= n /\ Chosen(T, A, s, n)
  BY DEF Safe
<1>2. s \in Nat /\ Own(T, s, n) /\ T[s] \in Seq(Entry) /\ T[t] \in Seq(Entry)
  <2>1. s \in Nat /\ t \in Nat
    OBVIOUS
  <2>2. Own(T, s, n)
    BY <1>1 DEF Chosen
  <2> QED BY <2>1, <2>2 DEF TermLogs
<1>3. CASE s = t
  <2>1. c <= Len(T[t]) /\ Len(T[t]) \in Nat
    BY <1>2, <1>3, SafeWithin, LenProperties
  <2> QED BY <1>3, <2>1 DEF SameUpTo
<1>4. CASE s # t
  <2>1. s < t
    BY <1>4
  <2>2. SameUpTo(T[t], T[s], n)
    BY <1>1, <1>2, <2>1, LeadersHaveChosen
  <2>3. SameUpTo(T[t], T[s], c)
    <3>1. Len(T[t]) \in Nat /\ Len(T[s]) \in Nat
      BY <1>2, LenProperties
    <3> QED BY <1>1, <2>2, <3>1 DEF SameUpTo
  <2>4. ASSUME NEW k \in Nat, \A a \in (k + 1)..Len(T[t]) : T[t][a].term = t
        PROVE  c <= k
    <3>1. n <= k
      BY <1>2, <1>4, <2>2, <2>4, CarriedWithin
    <3> QED BY <1>1, <3>1
  <2> QED BY <2>3, <2>4
<1> QED BY <1>3, <1>4

LEMMA CommitWithinRequest ==
  ASSUME ElectionInv, NEW T \in TermLogs, NEW A \in Acks, LogInv(T), AckInv(T, A),
         CommitsSafe(T, A), NEW i \in Server, NEW j \in Server, TakeStep(i, j),
         NEW m, m = Head(net[j][i])
  PROVE  logCommitIndex[i] <= End(m)
<1> DEFINE c == logCommitIndex[i]
           z == End(m)
<1>1. Taken(T, A, i, j, m)
  BY TakenRequest
<1>2. /\ m.term \in Nat /\ z \in Nat /\ <<m.term, j>> \in elected
      /\ A[i][m.term] <= z /\ currentTerm[i] <= m.term
  BY <1>1 DEF Taken
<1>3. \A n \in (z + 1)..Len(T[m.term]) : T[m.term][n].term = m.term
  BY <1>1 DEF Taken
<1>4. /\ c \in Nat /\ currentTerm[i] \in Nat /\ LeadersCarry(T, A)
  <2>1. TypeOK /\ LeadersCarry(T, A)
    BY DEF ElectionInv, AckInv
  <2> QED BY <2>1 DEF TypeOK
<1> HIDE DEF c, z
<1>5. CASE c = 0
  <2>1. 0 <= z
    BY <1>2
  <2> QED BY <1>5, <2>1 DEF c, z
<1>6. CASE c # 0
  <2>1. PICK s \in 0..currentTerm[i] :
          Safe(T, A, c, s) /\ (s = currentTerm[i] => c <= A[i][s])
    BY <1>6 DEF CommitsSafe, c
  <2>2. CASE s = m.term
    <3>1. s = currentTerm[i] /\ s \in Nat
      BY <1>2, <1>4, <2>1, <2>2
    <3>2. A[i][s] \in Nat
      BY <3>1 DEF Acks
    <3>3. c <= A[i][s] /\ A[i][s] <= z
      BY <1>2, <2>1, <2>2, <3>1
    <3>4. c <= z
      BY <1>2, <1>4, <3>2, <3>3
    <3> QED BY <3>4 DEF c, z
  <2>3. CASE s # m.term
    <3> DEFINE e == <<m.term, j>>
    <3>1. e \in elected /\ e[1] = m.term
      BY <1>2
    <3> HIDE DEF e
    <3>2. e[1] \in Nat /\ s \in 0..e[1] /\ s # e[1]
      BY <1>2, <1>4, <2>1, <2>3, <3>1
    <3>3. \A k \in Nat :
            (\A n \in (k + 1)..Len(T[e[1]]) : T[e[1]][n].term = e[1]) => c <= k
      BY <1>4, <2>1, <3>1, <3>2, SafeCarried
    <3>4. c <= z
      BY <1>2, <1>3, <3>1, <3>3
    <3> QED BY <3>4 DEF c, z
  <2> QED BY <2>2, <2>3
<1> QED BY <1>5, <1>6

LEMMA NewCommitBounds ==
  ASSUME NEW c \in Nat, NEW n \in Nat, c <= n, NEW m \in AppendEntriesRequestEvent
  PROVE  /\ NewCommit(c, n, m) \in Nat /\ c <= NewCommit(c, n, m)
         /\ NewCommit(c, n, m) <= n
         /\ \/ NewCommit(c, n, m) = c
            \/ m.leaderCommit # 0 /\ NewCommit(c, n, m) <= m.leaderCommit
<1>1. m.leaderCommit \in Nat
  BY DEF AppendEntriesRequestEvent
<1>2. CASE m.leaderCommit > c
  <2>1. /\ Min({m.leaderCommit, n}) \in {m.leaderCommit, n}
        /\ Min({m.leaderCommit, n}) <= n
        /\ Min({m.leaderCommit, n}) <= m.leaderCommit
    BY <1>1 DEF Min
  <2> QED BY <1>1, <1>2, <2>1 DEF NewCommit
<1>3. CASE ~(m.leaderCommit > c)
  BY <1>3 DEF NewCommit
<1> QED BY <1>2, <1>3

LEMMA CommitInvTake ==
  ASSUME OddCluster, ElectionInv, TypeOK', [Next]_vars,
         NEW T \in TermLogs, NEW A \in Acks, LogInv(T), AckInv(T, A), CommitInv(T, A),
         NEW i \in Server, NEW j \in Server, TakeStep(i, j),
         NEW m, m = Head(net[j][i]), NEW ok, ok = PrevMatches(log[i], m),
         NEW B, Takes(A, B, i, m, ok)
  PROVE  CommitInv(T, B)'
<1> DEFINE t == m.term
           c == logCommitIndex[i]
           d == logCommitIndex'[i]
<1>1. /\ TypeOK /\ MatchesTrue(A) /\ CommitsSafe(T, A) /\ RequestsSafe(T, A)
      /\ CommitChSafe(T, A) /\ CommitChRising /\ LeadersCarry(T, A)
      /\ UNCHANGED <<matchIndex, elected>> /\ ok \in BOOLEAN
  BY DEF ElectionInv, CommitInv, AckInv, TakeStep, PrevMatches
<1>2. /\ net[j][i] # <<>> /\ IsAppend(m) /\ m \in In(net[j][i])
      /\ t \in Nat /\ End(m) \in Nat /\ <<t, j>> \in elected
      /\ End(m) <= Len(T[t]) /\ A[i][t] <= End(m)
      /\ \A n \in (End(m) + 1)..Len(T[t]) : T[t][n].term = t
      /\ currentTerm[i] <= t
      /\ currentTerm' = [currentTerm EXCEPT ![i] = t]
      /\ state' = [state EXCEPT ![i] = "FOLLOWER"]
  <2>1. Taken(T, A, i, j, m)
    BY TakenRequest
  <2> QED BY <2>1 DEF Taken
<1>3. /\ currentTerm'[i] = t /\ state'[i] = "FOLLOWER"
      /\ \A x \in Server \ {i} : /\ state'[x] = state[x]
                                 /\ currentTerm'[x] = currentTerm[x]
  BY <1>1, <1>2 DEF TypeOK
<1>4. /\ Later(T, A, currentTerm, T, B, currentTerm')
      /\ B[i][t] = IF ok THEN End(m) ELSE A[i][t]
  <2>1. ok \in BOOLEAN
    BY <1>1
  <2> QED BY <2>1, LaterTaken
<1>5. m \in AppendEntriesRequestEvent
  BY <1>1, <1>2, InMessages, AppendIsRequest
<1>6. ok => Len(log'[i]) = End(m) /\ SameUpTo(log'[i], T[t], Len(log'[i]))
  BY <1>1, <1>3, TakeLog
<1>7. /\ \A x \in Server \ {i} : /\ log'[x] = log[x]
                                 /\ logCommitIndex'[x] = logCommitIndex[x]
      /\ ~ok => log'[i] = log[i] /\ d = c
      /\ ok => d = NewCommit(c, Len(log'[i]), m)
  <2>1. AppendEntries(i, m)
    BY DEF TakeStep
  <2>2. DOMAIN log = Server /\ DOMAIN logCommitIndex = Server
    BY <1>1 DEF TypeOK
  <2> QED BY <2>1, <2>2 DEF AppendEntries, logVars
<1> HIDE DEF t
<1>8. /\ log'[i] \in Seq(Entry) /\ c \in Nat /\ d \in Nat
      /\ \A s \in Nat : T[s] \in Seq(Entry) /\ Len(T[s]) \in Nat
  <2>1. log'[i] \in Seq(Entry) /\ c \in Nat /\ d \in Nat
    BY <1>1 DEF TypeOK
  <2> QED BY <2>1, LenProperties DEF TermLogs
<1>9. c <= End(m)
  BY <1>1, CommitWithinRequest
<1>10. ok => /\ c <= d /\ d <= End(m)
             /\ d = c \/ (m.leaderCommit # 0 /\ d <= m.leaderCommit)
  <2>1. /\ c <= NewCommit(c, End(m), m) /\ NewCommit(c, End(m), m) <= End(m)
        /\ \/ NewCommit(c, End(m), m) = c
           \/ /\ m.leaderCommit # 0
              /\ NewCommit(c, End(m), m) <= m.leaderCommit
    BY <1>2, <1>5, <1>8, <1>9, NewCommitBounds
  <2>2. ok => d = NewCommit(c, End(m), m)
    BY <1>6, <1>7
  <2> QED BY <2>1, <2>2
<1>11. MatchesTrue(B)'
  <2> SUFFICES ASSUME NEW x \in Server, state'[x] = "LEADER", NEW p \in Peers(x)
               PROVE  matchIndex'[x][p] <= B[p][currentTerm'[x]]
    BY DEF MatchesTrue
  <2>1. x # i
    BY <1>3
  <2>2. state[x] = "LEADER" /\ currentTerm'[x] = currentTerm[x]
        /\ matchIndex'[x][p] = matchIndex[x][p]
    BY <1>1, <1>3, <2>1
  <2> QED BY <1>1, <1>4, <2>2, MatchesStill
<1>12. ASSUME ok, d # 0
       PROVE  \E s \in 0..t : Safe(T, A, d, s)
  <2>1. CASE d = c
    <3>1. PICK s \in 0..currentTerm[i] : Safe(T, A, c, s)
      BY <1>1, <1>12, <2>1 DEF CommitsSafe
    <3>2. currentTerm[i] \in Nat
      BY <1>1 DEF TypeOK
    <3>3. s \in 0..t
      BY <1>2, <3>1, <3>2
    <3> QED BY <2>1, <3>1, <3>3
  <2>2. CASE m.leaderCommit # 0 /\ d <= m.leaderCommit
    <3>1. PICK s \in 0..t : Safe(T, A, m.leaderCommit, s)
      BY <1>1, <1>2, <2>2 DEF RequestsSafe, t
    <3>2. m.leaderCommit \in Nat
      BY <1>5 DEF AppendEntriesRequestEvent
    <3> QED BY <1>8, <2>2, <3>1, <3>2, SafeBefore
  <2> QED BY <1>10, <1>12, <2>1, <2>2
<1>13. CommitsSafe(T, B)'
  <2> SUFFICES ASSUME NEW x \in Server, logCommitIndex'[x] # 0
               PROVE  \E s \in 0..currentTerm'[x] :
                        /\ Safe(T, B, logCommitIndex'[x], s)
                        /\ SameUpTo(log'[x], T[s], logCommitIndex'[x])
                        /\ s = currentTerm'[x] => logCommitIndex'[x] <= B[x][s]
    BY DEF CommitsSafe
  <2>1. CASE log'[x] = log[x] /\ logCommitIndex'[x] = logCommitIndex[x]
    <3>1. log[x] \in Seq(Entry) /\ SameUpTo(log'[x], log[x], Len(log[x]))
      BY <1>1, <2>1, SameSelf DEF TypeOK
    <3> QED BY <1>1, <1>4, <2>1, <3>1, CommitStill
  <2>2. CASE x = i /\ ok
    <3>1. PICK s \in 0..t : Safe(T, A, d, s)
      BY <1>12, <2>2
    <3>2. s \in Nat
      BY <1>2
    <3>3. Safe(T, B, d, s)
      BY <1>4, <3>1, <3>2, SafeStill
    <3>4. SameUpTo(T[t], T[s], d)
      <4> DEFINE e == <<t, j>>
      <4>1. e \in elected /\ e[1] = t
        BY <1>2
      <4> HIDE DEF e
      <4> HIDE DEF d
      <4>2. s \in 0..e[1] /\ e[1] \in Nat
        BY <1>2, <3>1, <4>1
      <4>3. d \in Nat /\ LeadersCarry(T, A)
        BY <1>1, <1>8
      <4>4. SameUpTo(T[e[1]], T[s], d)
        BY <3>1, <4>1, <4>2, <4>3, SafeCarried
      <4> QED BY <4>1, <4>4 DEF d
    <3>5. SameUpTo(log'[i], T[s], d)
      <4> DEFINE l == log'[i]
      <4>1. /\ SameUpTo(l, T[t], Len(l)) /\ d <= Len(l) /\ d \in Nat /\ d <= d
            /\ Len(l) \in Nat
        BY <1>2, <1>6, <1>8, <1>10, <2>2
      <4>2. l \in Seq(Entry) /\ T[t] \in Seq(Entry) /\ T[s] \in Seq(Entry)
        BY <1>2, <1>8, <3>2
      <4> HIDE DEF l, d
      <4>3. SameUpTo(l, T[s], d)
        BY <3>4, <4>1, <4>2, SameTrans
      <4> QED BY <4>3 DEF l, d
    <3>6. d <= B[i][t]
      BY <1>4, <1>10, <2>2
    <3> QED BY <1>3, <2>2, <3>3, <3>5, <3>6
  <2> QED BY <1>7, <2>1, <2>2
<1>14. RequestsSafe(T, B)'
  <2>1. RequestStep
    BY <1>1, TakeIn DEF RequestStep, IsAppend
  <2> QED BY <1>1, <1>4, <2>1, RequestsSafeStill DEF RequestStep
<1>15. DeliverStep
  <2> SUFFICES ASSUME NEW x \in Server
               PROVE  Delivers(x) /\ logCommitIndex[x] <= logCommitIndex'[x]
    BY DEF DeliverStep
  <2>1. Delivers(x)
    BY DEF TakeStep, Delivers, Redirects
  <2>2. logCommitIndex[x] \in Nat
    BY <1>1 DEF TypeOK
  <2>3. logCommitIndex[x] <= logCommitIndex'[x]
    <3>1. CASE x = i /\ ok
      BY <1>10, <3>1
    <3>2. CASE ~(x = i /\ ok)
      <4>1. logCommitIndex'[x] = logCommitIndex[x]
        BY <1>7, <3>2
      <4> QED BY <2>2, <4>1
    <3> QED BY <3>1, <3>2
  <2> QED BY <2>1, <2>3
<1>16. CommitChSafe(T, B)' /\ CommitChRising'
  BY <1>1, <1>4, <1>13, <1>15, CommitChStill
<1> QED BY <1>11, <1>13, <1>14, <1>16 DEF CommitInv

-----------------------------------------------------------------------------
(* Every step, from the first on *)

RaftInv(T, A) == LogInv(T) /\ AckInv(T, A) /\ (OneReign => CommitInv(T, A))

HistoryInv == ElectionInv /\ \E T \in TermLogs, A \in Acks : RaftInv(T, A)

LEMMA HistoryInit == Init => HistoryInv
<1> SUFFICES ASSUME Init PROVE HistoryInv
  OBVIOUS
<1>1. ElectionInv
  BY ElectionInit
<1>2. PICK T, A : T = [t \in Nat |-> <<>>] /\ A = [v \in Server |-> [t \in Nat |-> 0]]
  OBVIOUS
<1>3. /\ \A t \in Nat : T[t] = <<>> /\ Len(T[t]) = 0
      /\ \A v \in Server, t \in Nat : A[v][t] = 0
  BY <1>2
<1>4. T \in TermLogs /\ A \in Acks
  BY <1>2 DEF TermLogs, Acks
<1>5. \A x, y \in Server : net[x][y] = <<>> /\ In(net[x][y]) = {}
  BY InEmpty DEF Init
<1>6. \A x \in Server : /\ currentTerm[x] = 0 /\ log[x] = <<>> /\ Len(log[x]) = 0
                        /\ state[x] = "FOLLOWER" /\ logCommitIndex[x] = 0
                        /\ commitCh[x] = <<>> /\ Len(commitCh[x]) = 0
  BY DEF Init
<1>7. ballots = {} /\ elected = {}
  BY DEF Init
<1>8. LogInv(T)
  <2>1. TermsLed(T) /\ TermLogsMade(T)
    BY <1>3 DEF TermsLed, TermLogsMade, FromLeaders, TermsUpTo
  <2>2. LogsMade(T) /\ LeadersHave(T) /\ ReignsOver
    BY <1>6, <1>7 DEF LogsMade, FromLeaders, TermsUpTo, LeadersHave, ReignsOver
  <2>3. RequestsMade(T)
    BY <1>5 DEF RequestsMade
  <2> QED BY <2>1, <2>2, <2>3 DEF LogInv
<1>9. AckInv(T, A)
  <2>1. AcksReached(T, A)
    BY <1>3 DEF AcksReached
  <2>2. AcksKept(T, A)
    BY <1>3, <1>6 DEF AcksKept, SameUpTo, CarriesAcks
  <2>3. LeadersAck(A) /\ LeadersCarry(T, A) /\ CandidatesCarry(T, A)
    BY <1>6, <1>7 DEF LeadersAck, LeadersCarry, CandidatesCarry
  <2>4. VoteRequestsTrue /\ RequestsReach(T, A) /\ AcceptsTrue(A)
    BY <1>5 DEF VoteRequestsTrue, RequestsReach, AcceptsTrue
  <2>5. RequestsInOrder
    BY <1>5 DEF RequestsInOrder, Reached
  <2> QED BY <2>1, <2>2, <2>3, <2>4, <2>5 DEF AckInv
<1>10. CommitInv(T, A)
  <2>1. MatchesTrue(A)
    BY <1>6 DEF MatchesTrue
  <2>2. CommitsSafe(T, A) /\ RequestsSafe(T, A)
    BY <1>5, <1>6 DEF CommitsSafe, RequestsSafe
  <2>3. CommitChSafe(T, A) /\ CommitChRising
    BY <1>6 DEF CommitChSafe, CommitChRising
  <2> QED BY <2>1, <2>2, <2>3 DEF CommitInv
<1> QED BY <1>1, <1>4, <1>8, <1>9, <1>10 DEF HistoryInv, RaftInv

LEMMA ReignsKept ==
  ASSUME RaftStep, OneReign'
  PROVE  OneReign
<1>1. elected \subseteq elected'
  BY DEF RaftStep, IdleStep, CampaignStep, LogStep, LeadStep, GrantStep,
     MatchStep, TakeStep
<1> QED BY <1>1 DEF OneReign

\* The steps that leave the leaders' logs, and what has been taken over.
LEMMA HistoryStay ==
  ASSUME OddCluster, ElectionInv, ElectionInv', [Next]_vars,
         NEW T \in TermLogs, NEW A \in Acks, RaftInv(T, A),
         \/ IdleStep
         \/ \E i \in Server : CampaignStep(i)
         \/ \E i, j \in Server : GrantStep(i, j) \/ MatchStep(i, j)
  PROVE  RaftInv(T, A)'
<1>1. /\ TypeOK /\ TypeOK' /\ LogInv(T) /\ AckInv(T, A) /\ RaftStep
  BY NextRaftStep DEF ElectionInv, RaftInv
<1>2. LogsStay
  BY <1>1, StepsStay
<1>3. LogInv(T)'
  BY <1>1, <1>2, LogInvStay
<1>4. AckInv(T, A)'
  BY <1>1, <1>3, AckInvIdle, AckInvCampaign, AckInvGrant
<1>5. ASSUME OneReign'
      PROVE  CommitInv(T, A)'
  <2>1. OneReign /\ CommitInv(T, A)
    BY <1>1, <1>5, ReignsKept DEF RaftInv
  <2>2. CASE \E i, j \in Server : MatchStep(i, j)
    BY <1>1, <2>1, <2>2, CommitInvMatch
  <2>3. CASE \/ IdleStep
             \/ \E i \in Server : CampaignStep(i)
             \/ \E i, j \in Server : GrantStep(i, j)
    BY <1>1, <2>1, <2>3, CommitInvQuiet
  <2> QED BY <2>2, <2>3
<1> QED BY <1>3, <1>4, <1>5 DEF RaftInv

\* A leader's log grows, or a leader begins with its log.
LEMMA HistoryLeads ==
  ASSUME OddCluster, ElectionInv, ElectionInv', [Next]_vars,
         NEW T \in TermLogs, NEW A \in Acks, RaftInv(T, A),
         NEW i \in Server, LogStep(i) \/ LeadStep(i)
  PROVE  \E U \in TermLogs, B \in Acks : RaftInv(U, B)'
<1>1. /\ TypeOK /\ TypeOK' /\ LogInv(T) /\ AckInv(T, A) /\ RaftStep
      /\ AcksReached(T, A) /\ currentTerm[i] \in Nat /\ log'[i] \in Seq(Entry)
  BY NextRaftStep DEF ElectionInv, RaftInv, AckInv, TypeOK
<1>2. PICK U, B : LeaderTakes(T, A, U, B, i, currentTerm[i], log'[i])
  BY DEF LeaderTakes
<1>3. B \in Acks
  BY <1>1, <1>2, LeaderTakesAll
<1>4. U \in TermLogs /\ Grows(T, U) /\ LogInv(U)'
  <2>1. CASE LogStep(i)
    <3>1. U = [T EXCEPT ![currentTerm[i]] = log'[i]]
      BY <1>2 DEF LeaderTakes
    <3> QED BY <1>1, <2>1, <3>1, LogInvLog
  <2>2. CASE LeadStep(i)
    <3>1. U = [T EXCEPT ![currentTerm[i]] = log[i]]
      BY <1>2, <2>2 DEF LeaderTakes, LeadStep
    <3> QED BY <1>1, <2>2, <3>1, LogInvLead
  <2> QED BY <2>1, <2>2
<1>5. AckInv(U, B)'
  BY <1>1, <1>2, <1>4, AckInvLog, AckInvLead
<1>6. ASSUME OneReign'
      PROVE  CommitInv(U, B)'
  <2>1. CommitInv(T, A)
    BY <1>1, <1>6, ReignsKept DEF RaftInv
  <2> QED BY <1>1, <1>2, <1>4, <2>1, CommitInvLog, CommitInvLead
<1> QED BY <1>3, <1>4, <1>5, <1>6 DEF RaftInv

LEMMA HistoryTakes ==
  ASSUME OddCluster, ElectionInv, ElectionInv', [Next]_vars,
         NEW T \in TermLogs, NEW A \in Acks, RaftInv(T, A),
         NEW i \in Server, NEW j \in Server, TakeStep(i, j)
  PROVE  \E B \in Acks : RaftInv(T, B)'
<1>1. /\ TypeOK /\ TypeOK' /\ LogInv(T) /\ AckInv(T, A) /\ RaftStep
  BY NextRaftStep DEF ElectionInv, RaftInv
<1>2. PICK m, ok : m = Head(net[j][i]) /\ ok = PrevMatches(log[i], m)
  OBVIOUS
<1>3. PICK B : Takes(A, B, i, m, ok)
  BY DEF Takes
<1>4. B \in Acks
  <2>1. ok \in BOOLEAN
    BY <1>2 DEF PrevMatches
  <2>2. Later(T, A, currentTerm, T, B, currentTerm')
    BY <1>1, <1>2, <1>3, <2>1, LaterTaken
  <2> QED BY <2>2 DEF Later
<1>5. LogInv(T)'
  BY <1>1, LogInvTake
<1>6. AckInv(T, B)'
  BY <1>1, <1>2, <1>3, AckInvTake
<1>7. ASSUME OneReign'
      PROVE  CommitInv(T, B)'
  <2>1. CommitInv(T, A)
    BY <1>1, <1>7, ReignsKept DEF RaftInv
  <2> QED BY <1>1, <1>2, <1>3, <2>1, CommitInvTake
<1> QED BY <1>4, <1>5, <1>6, <1>7 DEF RaftInv

LEMMA HistoryNext ==
  ASSUME OddCluster
  PROVE  HistoryInv /\ [Next]_vars => HistoryInv'
<1> SUFFICES ASSUME HistoryInv, [Next]_vars PROVE HistoryInv'
  OBVIOUS
<1>1. ElectionInv /\ ElectionInv'
  BY ElectionNext DEF HistoryInv
<1>2. RaftStep
  BY <1>1, NextRaftStep DEF ElectionInv
<1>3. PICK T \in TermLogs, A \in Acks : RaftInv(T, A)
  BY DEF HistoryInv
<1>4. \E U \in TermLogs, B \in Acks : RaftInv(U, B)'
  <2>1. CASE \/ IdleStep
             \/ \E i \in Server : CampaignStep(i)
             \/ \E i, j \in Server : GrantStep(i, j) \/ MatchStep(i, j)
    BY <1>1, <1>3, <2>1, HistoryStay
  <2>2. CASE \E i \in Server : LogStep(i) \/ LeadStep(i)
    BY <1>1, <1>3, <2>2, HistoryLeads
  <2>3. CASE \E i, j \in Server : TakeStep(i, j)
    BY <1>1, <1>3, <2>3, HistoryTakes
  <2> QED BY <1>2, <2>1, <2>2, <2>3 DEF RaftStep
<1> QED BY <1>1, <1>4 DEF HistoryInv

LEMMA HistoryAlways ==
  ASSUME OddCluster
  PROVE  Spec => []HistoryInv
  BY HistoryInit, HistoryNext, PTL DEF Spec

-----------------------------------------------------------------------------
(* The theorems *)

LEMMA TruthfulImplied == HistoryInv => MatchTruthful
<1> SUFFICES ASSUME HistoryInv, OneReign, NEW i \in Server, NEW p \in Peers(i),
                    state[i] = "LEADER", currentTerm[p] = currentTerm[i]
             PROVE  LET n == matchIndex[i][p] IN
                      /\ n <= Len(log[p]) /\ n <= Len(log[i])
                      /\ SubSeq(log[p], 1, n) = SubSeq(log[i], 1, n)
  BY DEF MatchTruthful
<1> DEFINE n == matchIndex[i][p]
           t == currentTerm[i]
<1>1. PICK T \in TermLogs, A \in Acks : RaftInv(T, A)
  BY DEF HistoryInv
<1>2. /\ TypeOK /\ LeadersHave(T) /\ AcksKept(T, A) /\ MatchesTrue(A)
  BY <1>1 DEF HistoryInv, ElectionInv, RaftInv, LogInv, AckInv, CommitInv
<1>3. /\ p \in Server /\ t \in Nat /\ log[p] \in Seq(Entry) /\ log[i] \in Seq(Entry)
      /\ n \in Nat
  BY <1>2 DEF TypeOK, Peers
<1>4. /\ n <= A[p][t] /\ A[p][t] \in Nat /\ log[i] = T[t]
      /\ SameUpTo(log[p], T[t], A[p][t])
  BY <1>2, <1>3 DEF MatchesTrue, LeadersHave, AcksKept, Acks
<1>5. Len(log[p]) \in Nat /\ Len(log[i]) \in Nat
  BY <1>3, LenProperties
<1>6. SameUpTo(log[p], log[i], n)
  BY <1>3, <1>4, <1>5 DEF SameUpTo
<1>7. SubSeq(log[p], 1, n) = SubSeq(log[i], 1, n)
  BY <1>3, <1>6, SamePrefix
<1> QED BY <1>6, <1>7 DEF SameUpTo

LEMMA CompletenessImplied == HistoryInv => LeaderCompleteness
<1> SUFFICES ASSUME HistoryInv, OneReign, NEW i \in Server, NEW j \in Server,
                    state[i] = "LEADER", currentTerm[i] >= currentTerm[j]
             PROVE  LET c == logCommitIndex[j] IN
                      /\ c <= Len(log[i]) /\ c <= Len(log[j])
                      /\ SubSeq(log[i], 1, c) = SubSeq(log[j], 1, c)
  BY DEF LeaderCompleteness
<1> DEFINE c == logCommitIndex[j]
           t == currentTerm[i]
           e == <<t, i>>
<1>1. PICK T \in TermLogs, A \in Acks : RaftInv(T, A)
  BY DEF HistoryInv
<1>2. /\ TypeOK /\ LeadersHave(T) /\ LeadersCarry(T, A) /\ CommitsSafe(T, A)
      /\ e \in elected /\ e[1] = t
  BY <1>1 DEF HistoryInv, ElectionInv, LeaderElected, RaftInv, LogInv, AckInv,
     CommitInv
<1> HIDE DEF e
<1>3. /\ t \in Nat /\ currentTerm[j] \in Nat /\ c \in Nat
      /\ log[i] \in Seq(Entry) /\ log[j] \in Seq(Entry) /\ log[i] = T[t]
      /\ Len(log[i]) \in Nat /\ Len(log[j]) \in Nat
  BY <1>2, LenProperties DEF TypeOK, LeadersHave
<1>4. SameUpTo(log[i], log[j], c)
  <2>1. CASE c = 0
    BY <1>3, <2>1 DEF SameUpTo
  <2>2. CASE c # 0
    <3>1. PICK s \in 0..currentTerm[j] : Safe(T, A, c, s) /\ SameUpTo(log[j], T[s], c)
      BY <1>2, <2>2 DEF CommitsSafe
    <3>2. s \in Nat /\ s \in 0..t
      BY <1>3, <3>1
    <3>3. SameUpTo(T[t], T[s], c)
      BY <1>2, <1>3, <3>1, <3>2, SafeCarried
    <3>4. SameUpTo(T[s], log[j], c)
      BY <3>1, SameSym
    <3>5. T[s] \in Seq(Entry)
      BY <3>2 DEF TermLogs
    <3>6. c <= c
      BY <1>3
    <3> QED BY <1>3, <3>3, <3>4, <3>5, <3>6, SameTrans
  <2> QED BY <2>1, <2>2
<1>5. SubSeq(log[i], 1, c) = SubSeq(log[j], 1, c)
  BY <1>3, <1>4, SamePrefix
<1> QED BY <1>4, <1>5 DEF SameUpTo

\* What is safe by two terms is the same in both.
LEMMA SafeSame ==
  ASSUME TypeOK, NEW T \in TermLogs, NEW A \in Acks, TermsLed(T), LeadersCarry(T, A),
         NEW n \in Nat \ {0}, NEW s \in Nat, NEW t \in Nat, s <= t,
         Safe(T, A, n, s), Safe(T, A, n, t)
  PROVE  T[s][n] = T[t][n]
<1>1. n <= Len(T[t])
  BY SafeWithin
<1>2. T[t] # <<>>
  BY <1>1
<1>3. PICK i \in Server : <<t, i>> \in elected
  BY <1>2 DEF TermsLed
<1> DEFINE e == <<t, i>>
<1>4. e \in elected /\ e[1] = t /\ s \in 0..t
  BY <1>3
<1> HIDE DEF e
<1>5. SameUpTo(T[t], T[s], n)
  BY <1>4, SafeCarried
<1>6. n \in 1..n
  OBVIOUS
<1> QED BY <1>5, <1>6 DEF SameUpTo

LEMMA StateMachineImplied == HistoryInv => StateMachineSafety
<1> SUFFICES ASSUME HistoryInv, OneReign, NEW i \in Server, NEW j \in Server,
                    NEW a \in 1..Len(commitCh[i]), NEW b \in 1..Len(commitCh[j]),
                    ~commitCh[i][a].err, ~commitCh[j][b].err,
                    commitCh[i][a].index = commitCh[j][b].index
             PROVE  commitCh[i][a].cmd = commitCh[j][b].cmd
  BY DEF StateMachineSafety
<1> DEFINE n == commitCh[i][a].index
<1>1. PICK T \in TermLogs, A \in Acks : RaftInv(T, A)
  BY DEF HistoryInv
<1>2. TypeOK /\ TermsLed(T) /\ LeadersCarry(T, A) /\ CommitChSafe(T, A)
  BY <1>1 DEF HistoryInv, ElectionInv, RaftInv, LogInv, AckInv, CommitInv
<1>3. n \in 1..logCommitIndex[i] /\ logCommitIndex[i] \in Nat
  BY <1>2 DEF CommitChSafe, TypeOK
<1>4. n \in Nat \ {0}
  BY <1>3
<1>5. PICK s \in Nat : Safe(T, A, n, s) /\ T[s][n].cmd = commitCh[i][a].cmd
  BY <1>2 DEF CommitChSafe
<1>6. PICK t \in Nat : Safe(T, A, n, t) /\ T[t][n].cmd = commitCh[j][b].cmd
  BY <1>2 DEF CommitChSafe
<1>7. CASE s <= t
  <2>1. T[s][n] = T[t][n]
    BY <1>2, <1>4, <1>5, <1>6, <1>7, SafeSame
  <2> QED BY <1>5, <1>6, <2>1
<1>8. CASE ~(s <= t)
  <2>1. t <= s
    BY <1>8
  <2>2. T[t][n] = T[s][n]
    BY <1>2, <1>4, <1>5, <1>6, <2>1, SafeSame
  <2> QED BY <1>5, <1>6, <2>2
<1> QED BY <1>7, <1>8

LEMMA OrderedImplied == HistoryInv => CommitChOrdered
  BY DEF HistoryInv, RaftInv, CommitInv, CommitChRising, CommitChOrdered

\* In a cluster of odd size, while no server has led twice, what a leader
\* believes to be on a peer of its term is there (AppendEntriesResponse.go sets
\* matchIndex from whatever acknowledgement comes).
THEOREM MatchesAreTruthful ==
  ASSUME OddCluster
  PROVE  Spec => []MatchTruthful
  BY HistoryAlways, TruthfulImplied, PTL

\* In a cluster of odd size, while no server has led twice, a leader has every
\* entry that any server of its term or an earlier one knows to be committed
\* (VoteRequest.go compares logs, AppendEntriesResponse.go counts a majority).
THEOREM LeadersAreComplete ==
  ASSUME OddCluster
  PROVE  Spec => []LeaderCompleteness
  BY HistoryAlways, CompletenessImplied, PTL

\* In a cluster of odd size, while no server has led twice, no two servers ever
\* hand different commands of the same index to the file systems above them
\* (ActionHandler.go puts what is committed in CommitCh).
THEOREM StateMachinesAreSafe ==
  ASSUME OddCluster
  PROVE  Spec => []StateMachineSafety
  BY HistoryAlways, StateMachineImplied, PTL

\* In a cluster of odd size, while no server has led twice, each server hands on
\* committed entries in the order of the log and none twice (the loops that
\* commit in AppendEntriesRequest.go and AppendEntriesResponse.go).
THEOREM CommitsAreOrdered ==
  ASSUME OddCluster
  PROVE  Spec => []CommitChOrdered
  BY HistoryAlways, OrderedImplied, PTL
=============================================================================
