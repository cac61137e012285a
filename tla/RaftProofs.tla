----------------------------- MODULE RaftProofs -----------------------------
(***************************************************************************)
(* Theorems about Raft, for any set of servers and of commands: every      *)
(* variable keeps its type, no server votes twice in a term, a candidate   *)
(* counts no vote that was not cast, and in a cluster of odd size each     *)
(* term has at most one leader, which stays one, and two logs that have an *)
(* entry of the same term at the same index are the same up to there,      *)
(* because each of them is, up to each entry, what the leader of the       *)
(* entry's term had.                                                       *)
(***************************************************************************)
EXTENDS Raft, FiniteSetTheorems, SequenceTheorems, TLAPS

-----------------------------------------------------------------------------
(* Types of the operators the handlers are built from *)

\* A majority is a natural number, the code's len(peer)/2 + 1.
LEMMA MajorityType == Majority \in Int
  BY FS_CardinalityType, ServerAssumption DEF Majority

\* The term of an index of a log, or 0 before its first entry.
LEMMA TermAtType ==
  ASSUME NEW l \in Seq(Entry), NEW n \in Nat, n <= Len(l)
  PROVE  TermAt(l, n) \in Nat
<1>1. CASE n = 0
  BY <1>1 DEF TermAt
<1>2. CASE n # 0
  <2>1. n \in 1..Len(l)
    BY <1>2, LenProperties
  <2>2. l[n] \in Entry
    BY <2>1, ElementOfSeq
  <2> QED BY <1>2, <2>2 DEF TermAt, Entry
<1> QED BY <1>1, <1>2

\* There are n numbers from 1 to n.
LEMMA IntervalCardinality ==
  ASSUME NEW n \in Nat
  PROVE  IsFiniteSet(1..n) /\ Cardinality(1..n) = n
<1>1. 1 \in Int /\ n \in Int
  OBVIOUS
<1>2. /\ IsFiniteSet(1..n)
      /\ Cardinality(1..n) = IF 1 > n THEN 0 ELSE n - 1 + 1
  BY <1>1, FS_Interval
<1> QED BY <1>2

\* AppendEntriesRequestFollower keeps a prefix of its log that reaches at least
\* to PrevLogIndex, and adds what is left of the request.
LEMMA KeptBounds ==
  ASSUME NEW l \in Seq(Entry), NEW m \in AppendEntriesRequestEvent,
         PrevMatches(l, m)
  PROVE  /\ Kept(l, m) \in Nat
         /\ m.prevLogIndex <= Kept(l, m)
         /\ Kept(l, m) <= m.prevLogIndex + Len(m.entries)
         /\ Kept(l, m) <= Len(l)
<1> DEFINE es == m.entries
           p  == m.prevLogIndex
           S  == {n \in 1..Len(es) : AgreesUpTo(l, m, n)}
<1>1. es \in Seq(Entry) /\ p \in Nat /\ p <= Len(l)
  BY DEF AppendEntriesRequestEvent, PrevMatches
<1>2. IsFiniteSet(S) /\ Cardinality(S) \in Nat /\ Cardinality(S) <= Len(es)
  <2>1. IsFiniteSet(1..Len(es)) /\ Cardinality(1..Len(es)) = Len(es)
    <3>1. Len(es) \in Nat
      BY <1>1, LenProperties
    <3> QED BY <3>1, IntervalCardinality
  <2>2. S \subseteq 1..Len(es)
    OBVIOUS
  <2> QED BY <2>1, <2>2, FS_Subset, FS_CardinalityType
<1>3. Cardinality(S) <= Len(l) - p
  <2>1. S \subseteq 1..(Len(l) - p)
    <3> SUFFICES ASSUME NEW n \in 1..Len(es), AgreesUpTo(l, m, n)
                 PROVE  n \in 1..(Len(l) - p)
      OBVIOUS
    <3>1. Len(l) \in Nat /\ Len(es) \in Nat
      BY <1>1, LenProperties
    <3>2. p + n <= Len(l)
      BY <3>1 DEF AgreesUpTo
    <3> QED BY <1>1, <3>1, <3>2
  <2>2. Len(l) - p \in Nat
    BY <1>1
  <2>3. IsFiniteSet(1..(Len(l) - p)) /\ Cardinality(1..(Len(l) - p)) = Len(l) - p
    BY <2>2, IntervalCardinality
  <2> QED BY <2>1, <2>3, FS_Subset
<1>4. Kept(l, m) = p + Cardinality(S)
  BY DEF Kept
<1> QED BY <1>1, <1>2, <1>3, <1>4

\* The entries added are entries.
LEMMA AddedType ==
  ASSUME NEW l \in Seq(Entry), NEW m \in AppendEntriesRequestEvent,
         PrevMatches(l, m)
  PROVE  Added(l, m) \in Seq(Entry)
<1>1. m.entries \in Seq(Entry) /\ m.prevLogIndex \in Nat
  BY DEF AppendEntriesRequestEvent
<1>2. Kept(l, m) - m.prevLogIndex + 1 \in 1..(Len(m.entries) + 1)
  BY <1>1, KeptBounds, LenProperties
<1> QED BY <1>1, <1>2, SubSeqProperties, LenProperties DEF Added

\* So the new log is a log.
LEMMA NewLogType ==
  ASSUME NEW l \in Seq(Entry), NEW m \in AppendEntriesRequestEvent,
         PrevMatches(l, m)
  PROVE  NewLog(l, m) \in Seq(Entry)
<1>1. SubSeq(l, 1, Kept(l, m)) \in Seq(Entry)
  BY KeptBounds, SubSeqProperties, LenProperties
<1> QED BY <1>1, AddedType, ConcatProperties DEF NewLog

\* What a commit emits is a sequence of CommitInfo.
LEMMA CommitInfosType ==
  ASSUME NEW l \in Seq(Entry), NEW from \in Nat, NEW to \in Nat, to <= Len(l)
  PROVE  CommitInfos(l, from, to) \in Seq(CommitInfo)
<1> DEFINE n == IF to > from THEN to - from ELSE 0
<1>1. n \in Nat /\ 1..n = 1..(to - from)
  OBVIOUS
<1>2. ASSUME NEW k \in 1..n
      PROVE  [index |-> from + k, cmd |-> l[from + k].cmd, err |-> FALSE]
               \in CommitInfo
  <2>1. from + k \in 1..Len(l)
    BY LenProperties
  <2>2. l[from + k] \in Entry
    BY <2>1, ElementOfSeq
  <2> QED BY <2>1, <2>2 DEF Entry, CommitInfo
<1>3. CommitInfos(l, from, to) \in [1..n -> CommitInfo]
  BY <1>1, <1>2 DEF CommitInfos
<1> QED BY <1>1, <1>3

\* Nothing is emitted when the commit index stays.
LEMMA NoCommitInfos ==
  ASSUME NEW l, NEW n \in Nat
  PROVE  CommitInfos(l, n, n) \in Seq(CommitInfo)
<1>1. n - n = 0 /\ 1..0 = {}
  OBVIOUS
<1>2. CommitInfos(l, n, n) \in [1..0 -> CommitInfo]
  BY <1>1 DEF CommitInfos
<1> QED BY <1>2

\* Storing entries leaves a sequence of entries on disk.
LEMMA LogStoresType ==
  ASSUME NEW f \in Seq(Entry), NEW s \in Nat, NEW new \in Seq(Entry)
  PROVE  LogStores(f, s, new) \in Seq(Entry)
<1>1. CASE new # <<>> /\ Len(f) > s
  <2>1. \A k \in 1..s : f[k] \in Entry
    BY <1>1, ElementOfSeq, LenProperties
  <2>2. SubSeq(f, 1, s) \in Seq(Entry)
    BY <2>1, SubSeqProperties
  <2>3. Tail(new) \in Seq(Entry)
    BY <1>1, HeadTailProperties
  <2> QED BY <1>1, <2>2, <2>3, ConcatProperties DEF LogStores
<1>2. CASE ~(new # <<>> /\ Len(f) > s)
  BY <1>2, ConcatProperties DEF LogStores
<1> QED BY <1>1, <1>2

-----------------------------------------------------------------------------
(* Types of the messages *)

NetType == [Server -> [Server -> Seq(Message)]]

LEMMA VoteResponseMsgType ==
  ASSUME NEW t \in Nat, NEW yes \in BOOLEAN
  PROVE  VoteResponseMsg(t, yes) \in Message
  BY DEF VoteResponseMsg, Message, VoteResponseEvent

LEMMA AppendResponseMsgType ==
  ASSUME NEW t \in Nat, NEW ok \in BOOLEAN, NEW n \in Nat
  PROVE  AppendResponseMsg(t, ok, n) \in Message
  BY DEF AppendResponseMsg, Message, AppendEntriesResponseEvent

LEMMA AppendRequestMsgType ==
  ASSUME TypeOK, NEW i \in Server, NEW n \in Nat \ {0}, CanBuildAppend(i, n)
  PROVE  AppendRequestMsg(i, n) \in Message
<1>1. log[i] \in Seq(Entry) /\ currentTerm[i] \in Nat /\ logCommitIndex[i] \in Nat
  BY DEF TypeOK
<1>2. n - 1 \in Nat /\ n - 1 <= Len(log[i]) /\ Len(log[i]) \in Nat
  BY <1>1, LenProperties DEF CanBuildAppend
<1>3. TermAt(log[i], n - 1) \in Nat
  BY <1>1, <1>2, TermAtType
<1>4. \A k \in n..Len(log[i]) : log[i][k] \in Entry
  BY <1>1, <1>2, ElementOfSeq
<1>5. SubSeq(log[i], n, Len(log[i])) \in Seq(Entry)
  BY <1>2, <1>4, SubSeqProperties
<1> QED BY <1>1, <1>2, <1>3, <1>5
        DEF AppendRequestMsg, Message, AppendEntriesRequestEvent

LEMMA VoteRequestMsgType ==
  ASSUME TypeOK, NEW i \in Server, currentTerm'[i] \in Nat
  PROVE  VoteRequestMsg(i) \in Message
<1>1. log[i] \in Seq(Entry)
  BY DEF TypeOK
<1>2. Len(log[i]) \in Nat
  BY <1>1, LenProperties
<1>3. TermAt(log[i], Len(log[i])) \in Nat
  BY <1>1, <1>2, TermAtType
<1> QED BY <1>2, <1>3 DEF VoteRequestMsg, Message, VoteRequestEvent

\* The message a server processes next is one of the four kinds.
LEMMA ReceivedType ==
  ASSUME TypeOK, NEW i \in Server, NEW j \in Server, NEW type,
         Receives(i, j, type)
  PROVE  /\ Head(net[j][i]) \in Message
         /\ Tail(net[j][i]) \in Seq(Message)
         /\ type = "VoteRequest" => Head(net[j][i]) \in VoteRequestEvent
         /\ type = "VoteResponse" => Head(net[j][i]) \in VoteResponseEvent
         /\ type = "AppendEntriesRequest" =>
              Head(net[j][i]) \in AppendEntriesRequestEvent
         /\ type = "AppendEntriesResponse" =>
              Head(net[j][i]) \in AppendEntriesResponseEvent
<1>1. net[j][i] \in Seq(Message) /\ net[j][i] # <<>>
  BY DEF TypeOK, Receives
<1>2. Head(net[j][i]) \in Message /\ Tail(net[j][i]) \in Seq(Message)
  BY <1>1, HeadTailProperties
<1>3. Head(net[j][i]).type = type
  BY DEF Receives
<1> QED BY <1>2, <1>3 DEF Message, VoteRequestEvent, VoteResponseEvent,
          AppendEntriesRequestEvent, AppendEntriesResponseEvent

LEMMA ConsumeType ==
  ASSUME TypeOK, NEW i \in Server, NEW j \in Server,
         Tail(net[j][i]) \in Seq(Message), Consume(i, j)
  PROVE  net' \in NetType
  BY DEF TypeOK, Consume, NetType

LEMMA ConsumeAndSendType ==
  ASSUME TypeOK, NEW i \in Server, NEW j \in Server, NEW m \in Message,
         Tail(net[j][i]) \in Seq(Message), ConsumeAndSend(i, j, m)
  PROVE  net' \in NetType
<1> DEFINE n == [net EXCEPT ![j][i] = Tail(@)]
<1>1. n \in NetType
  BY DEF TypeOK, NetType
<1>2. n[i][j] \in Seq(Message)
  BY <1>1 DEF NetType
<1>3. Append(n[i][j], m) \in Seq(Message)
  BY <1>2, AppendProperties
<1>4. net' = [n EXCEPT ![i][j] = Append(@, m)]
  BY DEF ConsumeAndSend
<1> HIDE DEF n
<1> QED BY <1>1, <1>3, <1>4 DEF NetType

LEMMA SendToPeersType ==
  ASSUME NEW n \in NetType, NEW i \in Server, NEW m \in [Peers(i) -> Message]
  PROVE  SendToPeers(n, i, m) \in NetType
<1>1. ASSUME NEW p \in Server
      PROVE  (IF p = i THEN n[i][p] ELSE Append(n[i][p], m[p])) \in Seq(Message)
  <2>1. n[i][p] \in Seq(Message)
    BY DEF NetType
  <2>2. ASSUME p # i PROVE Append(n[i][p], m[p]) \in Seq(Message)
    <3>1. m[p] \in Message
      BY <2>2 DEF Peers
    <3> QED BY <2>1, <3>1, AppendProperties
  <2> QED BY <2>1, <2>2
<1> QED BY <1>1 DEF SendToPeers, NetType

-----------------------------------------------------------------------------
(* Type correctness, one lemma for each action *)

TermType ==
  /\ state \in [Server -> {"FOLLOWER", "CANDIDATE", "LEADER"}]
  /\ currentTerm \in [Server -> Nat]
  /\ votedFor \in [Server -> Server \cup {Nobody}]

StateFileType ==
  stateFile \in [Server -> [state : {"FOLLOWER", "CANDIDATE", "LEADER"},
                            term : Nat, votedFor : Server \cup {Nobody}]]

\* What is stored of a typed state is typed.
LEMMA StateStoreType ==
  ASSUME TypeOK, NEW i \in Server, TermType', StateStore(i)
  PROVE  StateFileType'
<1>1. /\ state'[i] \in {"FOLLOWER", "CANDIDATE", "LEADER"}
      /\ currentTerm'[i] \in Nat
      /\ votedFor'[i] \in Server \cup {Nobody}
  BY DEF TermType
<1> QED BY <1>1 DEF TypeOK, StateStore, StateFileType

LEMMA TypeTimeoutLeader ==
  ASSUME TypeOK, NEW i \in Server, TimeoutLeader(i)
  PROVE  TypeOK'
<1>1. net' \in NetType /\ up' \subseteq Server
  <2>1. CASE \A p \in Peers(i) : CanBuildAppend(i, nextIndex[i][p])
    <3> DEFINE m == [p \in Peers(i) |-> AppendRequestMsg(i, nextIndex[i][p])]
    <3>1. m \in [Peers(i) -> Message]
      <4>1. ASSUME NEW p \in Peers(i)
            PROVE  AppendRequestMsg(i, nextIndex[i][p]) \in Message
        <5>1. nextIndex[i][p] \in Nat \ {0}
          BY DEF TypeOK, Peers
        <5> QED BY <2>1, <5>1, AppendRequestMsgType
      <4> QED BY <4>1
    <3>2. net \in NetType
      BY DEF TypeOK, NetType
    <3>3. SendToPeers(net, i, m) \in NetType
      BY <3>1, <3>2, SendToPeersType
    <3> QED BY <2>1, <3>3 DEF TimeoutLeader, TypeOK
  <2>2. CASE ~\A p \in Peers(i) : CanBuildAppend(i, nextIndex[i][p])
    BY <2>2 DEF TimeoutLeader, TypeOK, NetType
  <2> QED BY <2>1, <2>2
<1> QED BY <1>1 DEF TypeOK, NetType, TimeoutLeader, termVars, logVars,
          leaderVars, tallyVars, diskVars, history

LEMMA TypeTimeoutElection ==
  ASSUME TypeOK, NEW i \in Server, TimeoutElection(i)
  PROVE  TypeOK'
<1>1. TermType' /\ currentTerm'[i] \in Nat
  BY DEF TypeOK, TimeoutElection, TermType
<1>2. StateFileType'
  BY <1>1, StateStoreType DEF TimeoutElection
<1>3. net' \in NetType
  <2> DEFINE m == [p \in Peers(i) |-> VoteRequestMsg(i)]
  <2>1. m \in [Peers(i) -> Message]
    BY <1>1, VoteRequestMsgType
  <2>2. net \in NetType
    BY DEF TypeOK, NetType
  <2>3. SendToPeers(net, i, m) \in NetType
    BY <2>1, <2>2, SendToPeersType
  <2> QED BY <2>3 DEF TimeoutElection
<1>4. ballots' \subseteq [term : Nat, voter : Server, candidate : Server]
  BY <1>1 DEF TypeOK, TimeoutElection
<1> QED BY <1>1, <1>2, <1>3, <1>4 DEF TypeOK, TermType, StateFileType, NetType,
          TimeoutElection, logVars, leaderVars

LEMMA TypeAppendLeader ==
  ASSUME TypeOK, NEW i \in Server, NEW c \in Cmd, AppendLeader(i, c)
  PROVE  TypeOK'
<1> DEFINE e == [term |-> currentTerm[i], cmd |-> c]
<1>1. e \in Entry /\ log[i] \in Seq(Entry) /\ logFile[i] \in Seq(Entry)
  BY DEF TypeOK, Entry
<1>2. Append(log[i], e) \in Seq(Entry) /\ <<e>> \in Seq(Entry)
  BY <1>1, AppendProperties
<1>3. LogStores(logFile[i], Len(log[i]), <<e>>) \in Seq(Entry)
  BY <1>1, <1>2, LogStoresType, LenProperties
<1>4. /\ log' = [log EXCEPT ![i] = Append(log[i], e)]
      /\ logFile' = [logFile EXCEPT ![i] =
           LogStores(logFile[i], Len(log[i]), <<e>>)]
  BY DEF AppendLeader
<1> HIDE DEF e
<1>5. log' \in [Server -> Seq(Entry)] /\ logFile' \in [Server -> Seq(Entry)]
  BY <1>2, <1>3, <1>4 DEF TypeOK
<1> QED BY <1>5 DEF TypeOK, AppendLeader, termVars, leaderVars, tallyVars, history

LEMMA TypeAppendFollowerOrCandidate ==
  ASSUME TypeOK, NEW i \in Server, NEW c \in Cmd, AppendFollowerOrCandidate(i, c)
  PROVE  TypeOK'
<1> DEFINE ci == [index |-> 0, cmd |-> c, err |-> TRUE]
<1>1. ci \in CommitInfo /\ commitCh[i] \in Seq(CommitInfo)
  BY DEF TypeOK, CommitInfo
<1>2. Append(commitCh[i], ci) \in Seq(CommitInfo)
  BY <1>1, AppendProperties
<1>3. commitCh' = [commitCh EXCEPT ![i] = Append(commitCh[i], ci)]
  BY DEF AppendFollowerOrCandidate
<1> HIDE DEF ci
<1>4. commitCh' \in [Server -> Seq(CommitInfo)]
  BY <1>2, <1>3 DEF TypeOK
<1> QED BY <1>4 DEF TypeOK, AppendFollowerOrCandidate, termVars, logVars,
          leaderVars, tallyVars, diskVars, history

\* Following a higher term leaves typed terms and votes.
LEMMA EnterTermType ==
  ASSUME TypeOK, NEW i \in Server, NEW t \in Nat, EnterTerm(i, t)
  PROVE  TermType'
  BY DEF TypeOK, EnterTerm, TermType

LEMMA CastVoteType ==
  ASSUME TypeOK, NEW i \in Server, NEW j \in Server,
         NEW m \in VoteRequestEvent, Tail(net[j][i]) \in Seq(Message),
         CastVote(i, j, m)
  PROVE  /\ TermType'
         /\ net' \in NetType
         /\ ballots' \subseteq [term : Nat, voter : Server, candidate : Server]
<1> DEFINE yes == UpToDate(log[i], m)
<1>1. m.term \in Nat
  BY DEF VoteRequestEvent
<1>2. TermType'
  BY <1>1 DEF CastVote, TypeOK, TermType
<1>3. yes \in BOOLEAN
  BY DEF UpToDate
<1>4. VoteResponseMsg(m.term, yes) \in Message
  BY <1>1, <1>3, VoteResponseMsgType
<1>5. net' \in NetType
  BY <1>4, ConsumeAndSendType DEF CastVote
<1>6. ballots' \subseteq [term : Nat, voter : Server, candidate : Server]
  <2> DEFINE b == [term |-> m.term, voter |-> i, candidate |-> j]
  <2>1. b \in [term : Nat, voter : Server, candidate : Server]
    BY <1>1
  <2>2. ballots' = ballots \cup {b} \/ ballots' = ballots
    BY DEF CastVote
  <2>3. ballots \subseteq [term : Nat, voter : Server, candidate : Server]
    BY DEF TypeOK
  <2> HIDE DEF b
  <2> QED BY <2>1, <2>2, <2>3
<1> QED BY <1>2, <1>5, <1>6

LEMMA RefuseVoteType ==
  ASSUME TypeOK, NEW i \in Server, NEW j \in Server,
         Tail(net[j][i]) \in Seq(Message), RefuseVote(i, j)
  PROVE  net' \in NetType
<1>1. VoteResponseMsg(currentTerm[i], FALSE) \in Message
  BY VoteResponseMsgType DEF TypeOK
<1> QED BY <1>1, ConsumeAndSendType DEF RefuseVote

LEMMA TypeVoteRequestLeaderOrCandidate ==
  ASSUME TypeOK, NEW i \in Server, NEW j \in Server,
         VoteRequestLeaderOrCandidate(i, j)
  PROVE  TypeOK'
<1> DEFINE m == Head(net[j][i])
<1>1. m \in VoteRequestEvent /\ Tail(net[j][i]) \in Seq(Message)
  BY ReceivedType DEF VoteRequestLeaderOrCandidate
<1>2. CASE CastVote(i, j, m) /\ StateStore(i)
  <2>1. /\ TermType'
        /\ net' \in NetType
        /\ ballots' \subseteq [term : Nat, voter : Server, candidate : Server]
    BY <1>1, <1>2, CastVoteType
  <2>2. StateFileType'
    BY <1>2, <2>1, StateStoreType
  <2> QED BY <2>1, <2>2 DEF TypeOK, TermType, StateFileType, NetType,
            VoteRequestLeaderOrCandidate, logVars, leaderVars, tallyVars
<1>3. CASE RefuseVote(i, j)
  BY <1>1, <1>3, RefuseVoteType DEF TypeOK, NetType, RefuseVote,
     VoteRequestLeaderOrCandidate, termVars, logVars, leaderVars, tallyVars
<1> QED BY <1>2, <1>3 DEF VoteRequestLeaderOrCandidate

LEMMA TypeVoteRequestFollower ==
  ASSUME TypeOK, NEW i \in Server, NEW j \in Server, VoteRequestFollower(i, j)
  PROVE  TypeOK'
<1> DEFINE m == Head(net[j][i])
<1>1. m \in VoteRequestEvent /\ Tail(net[j][i]) \in Seq(Message)
  BY ReceivedType DEF VoteRequestFollower
<1>2. CASE CastVote(i, j, m) /\ (StateStore(i) \/ UNCHANGED stateFile)
  <2>1. /\ TermType'
        /\ net' \in NetType
        /\ ballots' \subseteq [term : Nat, voter : Server, candidate : Server]
    BY <1>1, <1>2, CastVoteType
  <2>2. StateFileType'
    BY <1>2, <2>1, StateStoreType DEF TypeOK, StateFileType
  <2> QED BY <2>1, <2>2 DEF TypeOK, TermType, StateFileType, NetType,
            VoteRequestFollower, logVars, leaderVars, tallyVars
<1>3. CASE RefuseVote(i, j)
  BY <1>1, <1>3, RefuseVoteType DEF TypeOK, NetType, RefuseVote,
     VoteRequestFollower, termVars, logVars, leaderVars, tallyVars
<1> QED BY <1>2, <1>3 DEF VoteRequestFollower

LEMMA TypeVoteResponseLeader ==
  ASSUME TypeOK, NEW i \in Server, NEW j \in Server, VoteResponseLeader(i, j)
  PROVE  TypeOK'
<1>1. net' \in NetType
  BY ReceivedType, ConsumeType DEF VoteResponseLeader
<1> QED BY <1>1 DEF TypeOK, NetType, VoteResponseLeader, termVars, logVars,
          leaderVars, tallyVars, diskVars, history

LEMMA TypeVoteResponseFollower ==
  ASSUME TypeOK, NEW i \in Server, NEW j \in Server, VoteResponseFollower(i, j)
  PROVE  TypeOK'
<1> DEFINE m == Head(net[j][i])
<1>1. m \in VoteResponseEvent /\ net' \in NetType
  BY ReceivedType, ConsumeType DEF VoteResponseFollower
<1>2. TermType' /\ StateFileType'
  <2>1. CASE EnterTerm(i, m.term) /\ StateStore(i)
    <3>1. m.term \in Nat
      BY <1>1 DEF VoteResponseEvent
    <3>2. TermType'
      BY <2>1, <3>1, EnterTermType
    <3> QED BY <2>1, <3>2, StateStoreType
  <2>2. CASE UNCHANGED <<termVars, stateFile>>
    BY <2>2 DEF TypeOK, TermType, StateFileType, termVars
  <2> QED BY <2>1, <2>2 DEF VoteResponseFollower
<1> QED BY <1>1, <1>2 DEF TypeOK, NetType, TermType, StateFileType,
          VoteResponseFollower, logVars, leaderVars, tallyVars, history

LEMMA BecomeLeaderType ==
  ASSUME TypeOK, NEW i \in Server, NEW j \in Server,
         Tail(net[j][i]) \in Seq(Message), BecomeLeader(i, j)
  PROVE  /\ TermType' /\ StateFileType' /\ net' \in NetType
         /\ matchIndex' \in [Server -> [Server -> Nat]]
         /\ nextIndex' \in [Server -> [Server -> Nat \ {0}]]
         /\ elected' \subseteq Nat \X Server
<1>1. TermType'
  BY DEF TypeOK, BecomeLeader, TermType
<1>2. StateFileType'
  BY <1>1, StateStoreType DEF BecomeLeader
<1>3. log[i] \in Seq(Entry) /\ Len(log[i]) \in Nat
  BY LenProperties DEF TypeOK
<1>4. net' \in NetType
  <2> DEFINE m == [p \in Peers(i) |-> AppendRequestMsg(i, Len(log[i]) + 1)]
             n == [net EXCEPT ![j][i] = Tail(@)]
  <2>1. CanBuildAppend(i, Len(log[i]) + 1) /\ Len(log[i]) + 1 \in Nat \ {0}
    BY <1>3 DEF CanBuildAppend
  <2>2. m \in [Peers(i) -> Message]
    BY <2>1, AppendRequestMsgType
  <2>3. n \in NetType
    BY DEF TypeOK, NetType
  <2>4. SendToPeers(n, i, m) \in NetType
    BY <2>2, <2>3, SendToPeersType
  <2> QED BY <2>4 DEF BecomeLeader
<1>5. matchIndex' \in [Server -> [Server -> Nat]]
  <2> DEFINE row == [p \in Server |-> 0]
  <2>1. row \in [Server -> Nat] /\ matchIndex \in [Server -> [Server -> Nat]]
    BY DEF TypeOK
  <2>2. matchIndex' = [matchIndex EXCEPT ![i] = row]
    BY DEF BecomeLeader
  <2> HIDE DEF row
  <2> QED BY <2>1, <2>2
<1>6. nextIndex' \in [Server -> [Server -> Nat \ {0}]]
  <2> DEFINE n == Len(log[i]) + 1
             row == [p \in Server |-> n]
  <2>1. n \in Nat \ {0}
    BY <1>3
  <2>2. nextIndex \in [Server -> [Server -> Nat \ {0}]]
    BY DEF TypeOK
  <2>3. nextIndex' = [nextIndex EXCEPT ![i] = row]
    BY DEF BecomeLeader
  <2> HIDE DEF n
  <2>4. row \in [Server -> Nat \ {0}]
    BY <2>1
  <2> HIDE DEF row
  <2> QED BY <2>2, <2>3, <2>4
<1>7. elected' \subseteq Nat \X Server
  <2>1. elected \subseteq Nat \X Server /\ currentTerm[i] \in Nat
    BY DEF TypeOK
  <2>2. elected' = elected \cup {<<currentTerm[i], i>>}
    BY DEF BecomeLeader
  <2> QED BY <2>1, <2>2
<1> QED BY <1>1, <1>2, <1>4, <1>5, <1>6, <1>7

LEMMA TypeVoteResponseCandidate ==
  ASSUME TypeOK, NEW i \in Server, NEW j \in Server, VoteResponseCandidate(i, j)
  PROVE  TypeOK'
<1> DEFINE m == Head(net[j][i])
<1>1. m \in VoteResponseEvent /\ Tail(net[j][i]) \in Seq(Message) /\ m.term \in Nat
  BY ReceivedType DEF VoteResponseCandidate, VoteResponseEvent
<1>2. ASSUME Consume(i, j)
      PROVE  net' \in NetType
  BY <1>1, <1>2, ConsumeType
<1>3. /\ TermType /\ StateFileType
      /\ nextIndex \in [Server -> [Server -> Nat \ {0}]]
      /\ matchIndex \in [Server -> [Server -> Nat]]
      /\ yesVotesNum \in [Server -> Nat] /\ noVotesNum \in [Server -> Nat]
      /\ elected \subseteq Nat \X Server
  BY DEF TypeOK, TermType, StateFileType
<1> DEFINE Typed ==
      /\ TermType /\ StateFileType /\ net \in NetType
      /\ nextIndex \in [Server -> [Server -> Nat \ {0}]]
      /\ matchIndex \in [Server -> [Server -> Nat]]
      /\ yesVotesNum \in [Server -> Nat] /\ noVotesNum \in [Server -> Nat]
      /\ elected \subseteq Nat \X Server
<1>4. ASSUME Consume(i, j) /\ UNCHANGED <<termVars, tallyVars, leaderVars,
                                         stateFile, elected>>
      PROVE  Typed'
  BY <1>2, <1>3, <1>4 DEF TermType, StateFileType, termVars, tallyVars, leaderVars
<1>5. ASSUME /\ yesVotesNum' = [yesVotesNum EXCEPT ![i] = @ + 1]
             /\ UNCHANGED noVotesNum
             /\ BecomeLeader(i, j)
      PROVE  Typed'
  <2>1. yesVotesNum' \in [Server -> Nat] /\ noVotesNum' \in [Server -> Nat]
    BY <1>3, <1>5
  <2> QED BY <1>1, <1>5, <2>1, BecomeLeaderType
<1>6. ASSUME /\ yesVotesNum' = [yesVotesNum EXCEPT ![i] = @ + 1]
             /\ Consume(i, j)
             /\ UNCHANGED <<noVotesNum, termVars, leaderVars, stateFile, elected>>
      PROVE  Typed'
  <2>1. yesVotesNum' \in [Server -> Nat] /\ noVotesNum' \in [Server -> Nat]
    BY <1>3, <1>6
  <2>2. TermType' /\ StateFileType'
    BY <1>3, <1>6 DEF TermType, StateFileType, termVars
  <2> QED BY <1>2, <1>3, <1>6, <2>1, <2>2 DEF leaderVars
<1>7. ASSUME /\ EnterTerm(i, m.term) /\ StateStore(i) /\ Consume(i, j)
             /\ UNCHANGED <<tallyVars, leaderVars, elected>>
      PROVE  Typed'
  <2>1. TermType' /\ StateFileType'
    BY <1>1, <1>7, EnterTermType, StateStoreType
  <2> QED BY <1>2, <1>3, <1>7, <2>1 DEF tallyVars, leaderVars
<1>8. ASSUME /\ noVotesNum' = [noVotesNum EXCEPT ![i] = @ + 1]
             /\ \/ /\ state' = [state EXCEPT ![i] = "FOLLOWER"]
                   /\ UNCHANGED <<currentTerm, votedFor>>
                   /\ StateStore(i)
                \/ UNCHANGED <<termVars, stateFile>>
             /\ Consume(i, j)
             /\ UNCHANGED <<yesVotesNum, leaderVars, elected>>
      PROVE  Typed'
  <2>1. TermType'
    BY <1>3, <1>8 DEF TermType, termVars
  <2>2. StateFileType'
    BY <1>3, <1>8, <2>1, StateStoreType DEF StateFileType
  <2>3. yesVotesNum' \in [Server -> Nat] /\ noVotesNum' \in [Server -> Nat]
    BY <1>3, <1>8
  <2> QED BY <1>2, <1>3, <1>8, <2>1, <2>2, <2>3 DEF leaderVars
<1>9. Typed'
  BY <1>4, <1>5, <1>6, <1>7, <1>8 DEF VoteResponseCandidate
<1> QED BY <1>9 DEF TypeOK, TermType, StateFileType, NetType,
          VoteResponseCandidate, logVars

\* The commit index of a follower is an index, wherever the request ends.
LEMMA NewCommitType ==
  ASSUME NEW commit \in Nat, NEW len \in Nat, NEW m \in AppendEntriesRequestEvent
  PROVE  /\ NewCommit(commit, len, m) \in Nat
         /\ NewCommit(commit, len, m) <= len \/ NewCommit(commit, len, m) = commit
<1> DEFINE c == m.leaderCommit
           S == {c, len}
<1>1. c \in Nat
  BY DEF AppendEntriesRequestEvent
<1>2. \E x \in S : \A y \in S : x =< y
  BY <1>1
<1>3. Min(S) \in S /\ \A y \in S : Min(S) =< y
  BY <1>2 DEF Min
<1> QED BY <1>1, <1>3 DEF NewCommit

\* Accepting or refusing the entries of a request leaves logs.
LEMMA AppendEntriesType ==
  ASSUME TypeOK, NEW i \in Server, NEW m \in AppendEntriesRequestEvent,
         AppendEntries(i, m)
  PROVE  /\ log' \in [Server -> Seq(Entry)]
         /\ logCommitIndex' \in [Server -> Nat]
         /\ logCommitIndex'[i] <= Len(log'[i])
              \/ logCommitIndex'[i] = logCommitIndex[i]
<1>1. log \in [Server -> Seq(Entry)] /\ logCommitIndex \in [Server -> Nat]
  BY DEF TypeOK
<1>2. CASE UNCHANGED logVars
  BY <1>1, <1>2 DEF logVars
<1>3. CASE /\ PrevMatches(log[i], m)
           /\ log' = [log EXCEPT ![i] = NewLog(@, m)]
           /\ logCommitIndex' = [logCommitIndex EXCEPT ![i] =
                NewCommit(@, Len(log'[i]), m)]
  <2>1. NewLog(log[i], m) \in Seq(Entry)
    BY <1>1, <1>3, NewLogType
  <2>2. log' \in [Server -> Seq(Entry)]
    BY <1>1, <1>3, <2>1
  <2>3. Len(log'[i]) \in Nat
    BY <2>2, LenProperties
  <2>4. /\ NewCommit(logCommitIndex[i], Len(log'[i]), m) \in Nat
        /\ NewCommit(logCommitIndex[i], Len(log'[i]), m) <= Len(log'[i])
             \/ NewCommit(logCommitIndex[i], Len(log'[i]), m) = logCommitIndex[i]
    BY <1>1, <2>3, NewCommitType
  <2> QED BY <1>1, <1>3, <2>2, <2>4
<1> QED BY <1>2, <1>3 DEF AppendEntries

LEMMA FollowLeaderType ==
  ASSUME TypeOK, NEW i \in Server, NEW j \in Server,
         NEW m \in AppendEntriesRequestEvent, FollowLeader(i, j, m)
  PROVE  TermType'
<1>1. m.term \in Nat
  BY DEF AppendEntriesRequestEvent
<1> QED BY <1>1 DEF TypeOK, FollowLeader, TermType

LEMMA RefuseAppendType ==
  ASSUME TypeOK, NEW i \in Server, NEW j \in Server,
         Tail(net[j][i]) \in Seq(Message), RefuseAppend(i, j)
  PROVE  net' \in NetType
<1>1. log[i] \in Seq(Entry) /\ currentTerm[i] \in Nat
  BY DEF TypeOK
<1>2. AppendResponseMsg(currentTerm[i], FALSE, Len(log[i])) \in Message
  BY <1>1, AppendResponseMsgType, LenProperties
<1> QED BY <1>2, ConsumeAndSendType DEF RefuseAppend

LEMMA TypeAppendEntriesRequestLeaderOrCandidate ==
  ASSUME TypeOK, NEW i \in Server, NEW j \in Server,
         AppendEntriesRequestLeaderOrCandidate(i, j)
  PROVE  TypeOK'
<1> DEFINE m == Head(net[j][i])
<1>1. m \in AppendEntriesRequestEvent /\ Tail(net[j][i]) \in Seq(Message)
  BY ReceivedType DEF AppendEntriesRequestLeaderOrCandidate
<1>2. CASE RefuseAppend(i, j)
  <2>1. net' \in NetType
    BY <1>1, <1>2, RefuseAppendType
  <2> QED BY <1>2, <2>1 DEF TypeOK, NetType, RefuseAppend, termVars, logVars,
            leaderVars, tallyVars, diskVars, history,
            AppendEntriesRequestLeaderOrCandidate
<1>3. CASE /\ FollowLeader(i, j, m) /\ AppendEntries(i, m) /\ Consume(i, j)
           /\ UNCHANGED <<diskVars, commitCh>>
  <2>1. TermType' /\ net' \in NetType
    BY <1>1, <1>3, FollowLeaderType, ConsumeType
  <2>2. log' \in [Server -> Seq(Entry)] /\ logCommitIndex' \in [Server -> Nat]
    BY <1>1, <1>3, AppendEntriesType
  <2> QED BY <1>3, <2>1, <2>2 DEF TypeOK, NetType, TermType, leaderVars,
            tallyVars, diskVars, history, AppendEntriesRequestLeaderOrCandidate
<1> QED BY <1>2, <1>3 DEF AppendEntriesRequestLeaderOrCandidate

LEMMA TypeAppendEntriesRequestFollower ==
  ASSUME TypeOK, NEW i \in Server, NEW j \in Server,
         AppendEntriesRequestFollower(i, j)
  PROVE  TypeOK'
<1> DEFINE m == Head(net[j][i])
           ok == PrevMatches(log[i], m)
<1>1. m \in AppendEntriesRequestEvent /\ Tail(net[j][i]) \in Seq(Message)
  BY ReceivedType DEF AppendEntriesRequestFollower
<1>2. CASE RefuseAppend(i, j)
  <2>1. net' \in NetType
    BY <1>1, <1>2, RefuseAppendType
  <2> QED BY <1>2, <2>1 DEF TypeOK, NetType, RefuseAppend, termVars, logVars,
            leaderVars, tallyVars, diskVars, history,
            AppendEntriesRequestFollower
<1>3. CASE /\ FollowLeader(i, j, m) /\ AppendEntries(i, m) /\ StateStore(i)
           /\ ConsumeAndSend(i, j, AppendResponseMsg(m.term, ok, Len(log'[i])))
           /\ \/ /\ ok
                 /\ logFile' = [logFile EXCEPT ![i] =
                      LogStores(@, Kept(log[i], m), Added(log[i], m))]
                 /\ commitCh' = [commitCh EXCEPT ![i] = @ \o
                      CommitInfos(log'[i], logCommitIndex[i], logCommitIndex'[i])]
              \/ UNCHANGED <<logFile, commitCh>>
  <2>1. TermType' /\ StateFileType'
    BY <1>1, <1>3, FollowLeaderType, StateStoreType
  <2>2. /\ log' \in [Server -> Seq(Entry)]
        /\ logCommitIndex' \in [Server -> Nat]
        /\ logCommitIndex'[i] <= Len(log'[i])
             \/ logCommitIndex'[i] = logCommitIndex[i]
    BY <1>1, <1>3, AppendEntriesType
  <2>3. net' \in NetType
    <3>1. m.term \in Nat /\ Len(log'[i]) \in Nat
      BY <1>1, <2>2, LenProperties DEF AppendEntriesRequestEvent
    <3>2. ok \in BOOLEAN
      BY DEF PrevMatches
    <3>3. AppendResponseMsg(m.term, ok, Len(log'[i])) \in Message
      BY <3>1, <3>2, AppendResponseMsgType
    <3> QED BY <1>1, <1>3, <3>3, ConsumeAndSendType
  <2>4. logFile' \in [Server -> Seq(Entry)] /\ commitCh' \in [Server -> Seq(CommitInfo)]
    <3>1. /\ log \in [Server -> Seq(Entry)] /\ logFile \in [Server -> Seq(Entry)]
          /\ commitCh \in [Server -> Seq(CommitInfo)]
          /\ logCommitIndex \in [Server -> Nat]
      BY DEF TypeOK
    <3>2. ASSUME ok
          PROVE  LogStores(logFile[i], Kept(log[i], m), Added(log[i], m)) \in Seq(Entry)
      BY <1>1, <3>1, <3>2, KeptBounds, AddedType, LogStoresType
    <3>3. CommitInfos(log'[i], logCommitIndex[i], logCommitIndex'[i]) \in Seq(CommitInfo)
      <4>1. CASE logCommitIndex'[i] <= Len(log'[i])
        BY <2>2, <3>1, <4>1, CommitInfosType
      <4>2. CASE logCommitIndex'[i] = logCommitIndex[i]
        BY <3>1, <4>2, NoCommitInfos
      <4> QED BY <2>2, <4>1, <4>2
    <3>4. commitCh[i] \o CommitInfos(log'[i], logCommitIndex[i], logCommitIndex'[i])
            \in Seq(CommitInfo)
      BY <3>1, <3>3, ConcatProperties
    <3> QED BY <1>3, <3>1, <3>2, <3>4
  <2> QED BY <1>3, <2>1, <2>2, <2>3, <2>4 DEF TypeOK, NetType, TermType,
            StateFileType, leaderVars, tallyVars, history,
            AppendEntriesRequestFollower
<1> QED BY <1>2, <1>3 DEF AppendEntriesRequestFollower

\* A leader that looked at no index beyond its log commits within it.
LEMMA AdvanceCommitType ==
  ASSUME TypeOK, NEW i \in Server, NEW match \in [Server -> Nat],
         ~BeyondLog(i, match), AdvanceCommit(i, match)
  PROVE  /\ logCommitIndex' \in [Server -> Nat]
         /\ commitCh' \in [Server -> Seq(CommitInfo)]
<1>1. /\ log[i] \in Seq(Entry) /\ logCommitIndex \in [Server -> Nat]
      /\ commitCh \in [Server -> Seq(CommitInfo)]
  BY DEF TypeOK
<1>2. CASE UNCHANGED <<logCommitIndex, commitCh>>
  BY <1>1, <1>2
<1>3. CASE \E n \in Committable(i, match) :
             /\ commitCh' = [commitCh EXCEPT ![i] =
                  @ \o CommitInfos(log[i], logCommitIndex[i], n)]
             /\ logCommitIndex' = [logCommitIndex EXCEPT ![i] = n]
  <2>1. PICK n \in Committable(i, match) :
             /\ commitCh' = [commitCh EXCEPT ![i] =
                  @ \o CommitInfos(log[i], logCommitIndex[i], n)]
             /\ logCommitIndex' = [logCommitIndex EXCEPT ![i] = n]
    BY <1>3
  <2>2. PICK p \in Peers(i) : n = match[p] /\ match[p] > logCommitIndex[i]
    BY DEF Committable
  <2>3. n \in Nat
    BY <2>2 DEF Peers
  <2>4. n <= Len(log[i])
    <3>1. ~(match[p] > Len(log[i]))
      BY <2>2 DEF BeyondLog
    <3>2. Len(log[i]) \in Nat
      BY <1>1, LenProperties
    <3> QED BY <2>2, <2>3, <3>1, <3>2
  <2>5. CommitInfos(log[i], logCommitIndex[i], n) \in Seq(CommitInfo)
    BY <1>1, <2>3, <2>4, CommitInfosType
  <2>6. commitCh[i] \o CommitInfos(log[i], logCommitIndex[i], n) \in Seq(CommitInfo)
    BY <1>1, <2>5, ConcatProperties
  <2> QED BY <1>1, <2>1, <2>3, <2>6
<1> QED BY <1>2, <1>3 DEF AdvanceCommit

\* One entry back from a positive index is a positive index.
LEMMA BackUpType ==
  ASSUME TypeOK, NEW i \in Server, NEW j \in Server,
         Tail(net[j][i]) \in Seq(Message), BackUp(i, j)
  PROVE  /\ nextIndex' \in [Server -> [Server -> Nat \ {0}]]
         /\ net' \in NetType
         /\ up' \subseteq Server
<1> DEFINE n == OneBack(nextIndex[i][j])
<1>1. nextIndex \in [Server -> [Server -> Nat \ {0}]] /\ up \subseteq Server
  BY DEF TypeOK
<1>2. n \in Nat \ {0}
  BY <1>1 DEF OneBack
<1>3. CASE CanBuildAppend(i, n)
  <2>1. AppendRequestMsg(i, n) \in Message
    BY <1>2, <1>3, AppendRequestMsgType
  <2>2. /\ nextIndex' = [nextIndex EXCEPT ![i][j] = n]
        /\ ConsumeAndSend(i, j, AppendRequestMsg(i, n))
        /\ UNCHANGED up
    BY <1>3 DEF BackUp
  <2>3. net' \in NetType
    BY <2>1, <2>2, ConsumeAndSendType
  <2> HIDE DEF n
  <2> QED BY <1>1, <1>2, <2>2, <2>3
<1>4. CASE ~CanBuildAppend(i, n)
  BY <1>1, <1>4, ConsumeType DEF BackUp
<1> QED BY <1>3, <1>4

\* What a peer says it has is recorded as indexes, and only sent ones commit.
LEMMA RecordMatchType ==
  ASSUME TypeOK, NEW i \in Server, NEW j \in Server,
         NEW m \in AppendEntriesResponseEvent,
         Tail(net[j][i]) \in Seq(Message), RecordMatch(i, j, m)
  PROVE  /\ nextIndex' \in [Server -> [Server -> Nat \ {0}]]
         /\ matchIndex' \in [Server -> [Server -> Nat]]
         /\ logCommitIndex' \in [Server -> Nat]
         /\ commitCh' \in [Server -> Seq(CommitInfo)]
         /\ net' \in NetType
         /\ up' \subseteq Server
<1> DEFINE match == [matchIndex[i] EXCEPT ![j] = m.index]
           next == m.index + 1
<1>1. /\ nextIndex \in [Server -> [Server -> Nat \ {0}]]
      /\ matchIndex \in [Server -> [Server -> Nat]]
      /\ logCommitIndex \in [Server -> Nat]
      /\ commitCh \in [Server -> Seq(CommitInfo)]
      /\ up \subseteq Server
  BY DEF TypeOK
<1>2. m.index \in Nat /\ next \in Nat \ {0}
  BY DEF AppendEntriesResponseEvent
<1>3. match \in [Server -> Nat]
  BY <1>1, <1>2
<1>4. net' \in NetType
  BY ConsumeType DEF RecordMatch
<1>5. CASE BeyondLog(i, match)
  BY <1>1, <1>4, <1>5 DEF RecordMatch, leaderVars
<1>6. CASE ~BeyondLog(i, match)
  <2>1. /\ nextIndex' = [nextIndex EXCEPT ![i][j] = next]
        /\ matchIndex' = [matchIndex EXCEPT ![i] = match]
        /\ AdvanceCommit(i, match)
        /\ UNCHANGED up
    BY <1>6 DEF RecordMatch
  <2>2. logCommitIndex' \in [Server -> Nat] /\ commitCh' \in [Server -> Seq(CommitInfo)]
    BY <1>3, <1>6, <2>1, AdvanceCommitType
  <2> HIDE DEF match, next
  <2> QED BY <1>1, <1>2, <1>3, <1>4, <2>1, <2>2
<1> QED BY <1>5, <1>6

LEMMA TypeAppendEntriesResponseLeader ==
  ASSUME TypeOK, NEW i \in Server, NEW j \in Server,
         AppendEntriesResponseLeader(i, j)
  PROVE  TypeOK'
<1> DEFINE m == Head(net[j][i])
<1>1. /\ m \in AppendEntriesResponseEvent /\ m.term \in Nat
      /\ Tail(net[j][i]) \in Seq(Message)
  BY ReceivedType DEF AppendEntriesResponseLeader, AppendEntriesResponseEvent
<1>2. CASE /\ EnterTerm(i, m.term) /\ StateStore(i) /\ Consume(i, j)
           /\ UNCHANGED <<leaderVars, logCommitIndex, commitCh, up>>
  <2>1. TermType' /\ StateFileType' /\ net' \in NetType
    BY <1>1, <1>2, EnterTermType, StateStoreType, ConsumeType
  <2> QED BY <1>2, <2>1 DEF TypeOK, TermType, StateFileType, NetType,
            leaderVars, tallyVars, history, AppendEntriesResponseLeader
<1>3. CASE BackUp(i, j) /\ UNCHANGED <<termVars, stateFile, matchIndex,
                                      logCommitIndex, commitCh>>
  <2>1. /\ nextIndex' \in [Server -> [Server -> Nat \ {0}]]
        /\ net' \in NetType /\ up' \subseteq Server
    BY <1>1, <1>3, BackUpType
  <2> QED BY <1>3, <2>1 DEF TypeOK, NetType, termVars, tallyVars, history,
            AppendEntriesResponseLeader
<1>4. CASE RecordMatch(i, j, m) /\ UNCHANGED <<termVars, stateFile>>
  <2>1. /\ nextIndex' \in [Server -> [Server -> Nat \ {0}]]
        /\ matchIndex' \in [Server -> [Server -> Nat]]
        /\ logCommitIndex' \in [Server -> Nat]
        /\ commitCh' \in [Server -> Seq(CommitInfo)]
        /\ net' \in NetType /\ up' \subseteq Server
    BY <1>1, <1>4, RecordMatchType
  <2> QED BY <1>4, <2>1 DEF TypeOK, NetType, termVars, tallyVars, history,
            AppendEntriesResponseLeader
<1> QED BY <1>2, <1>3, <1>4 DEF AppendEntriesResponseLeader

LEMMA TypeAppendEntriesResponseFollowerOrCandidate ==
  ASSUME TypeOK, NEW i \in Server, NEW j \in Server,
         AppendEntriesResponseFollowerOrCandidate(i, j)
  PROVE  TypeOK'
<1> DEFINE m == Head(net[j][i])
<1>1. m \in AppendEntriesResponseEvent /\ m.term \in Nat /\ net' \in NetType
  BY ReceivedType, ConsumeType
     DEF AppendEntriesResponseFollowerOrCandidate, AppendEntriesResponseEvent
<1>2. TermType'
  <2>1. CASE EnterTerm(i, m.term)
    BY <1>1, <2>1, EnterTermType
  <2>2. CASE UNCHANGED termVars
    BY <2>2 DEF TypeOK, TermType, termVars
  <2> QED BY <2>1, <2>2 DEF AppendEntriesResponseFollowerOrCandidate
<1> QED BY <1>1, <1>2 DEF TypeOK, TermType, NetType, logVars, leaderVars,
          tallyVars, diskVars, history, AppendEntriesResponseFollowerOrCandidate

LEMMA TypeLose ==
  ASSUME TypeOK, NEW i \in Server, NEW j \in Server, Lose(i, j)
  PROVE  TypeOK'
<1>1. net[i][j] \in Seq(Message) /\ net[i][j] # <<>>
  BY DEF TypeOK, Lose
<1>2. Tail(net[i][j]) \in Seq(Message)
  BY <1>1, HeadTailProperties
<1> QED BY <1>2 DEF TypeOK, Lose, termVars, logVars, leaderVars, tallyVars,
          diskVars, history

-----------------------------------------------------------------------------
(* Type correctness *)

\* A cluster starts with every field typed.
LEMMA InitType == Init => TypeOK
<1> SUFFICES ASSUME Init PROVE TypeOK
  OBVIOUS
<1>1. /\ state \in [Server -> {"FOLLOWER", "CANDIDATE", "LEADER"}]
      /\ currentTerm \in [Server -> Nat]
      /\ votedFor \in [Server -> Server \cup {Nobody}]
      /\ logCommitIndex \in [Server -> Nat]
      /\ yesVotesNum \in [Server -> Nat]
      /\ noVotesNum \in [Server -> Nat]
      /\ up \subseteq Server
      /\ stateFile \in [Server -> [state : {"FOLLOWER", "CANDIDATE", "LEADER"},
                                   term : Nat, votedFor : Server \cup {Nobody}]]
      /\ ballots \subseteq [term : Nat, voter : Server, candidate : Server]
      /\ elected \subseteq Nat \X Server
  BY DEF Init
<1>2. nextIndex \in [Server -> [Server -> Nat \ {0}]]
      /\ matchIndex \in [Server -> [Server -> Nat]]
  BY DEF Init
<1>3. <<>> \in Seq(Entry) /\ <<>> \in Seq(CommitInfo) /\ <<>> \in Seq(Message)
  BY EmptySeq
<1>4. /\ log \in [Server -> Seq(Entry)]
      /\ logFile \in [Server -> Seq(Entry)]
      /\ commitCh \in [Server -> Seq(CommitInfo)]
      /\ net \in [Server -> [Server -> Seq(Message)]]
  BY <1>3 DEF Init
<1> QED BY <1>1, <1>2, <1>4 DEF TypeOK

\* Every handler leaves every field typed.
LEMMA NextType == TypeOK /\ [Next]_vars => TypeOK'
<1> SUFFICES ASSUME TypeOK, [Next]_vars PROVE TypeOK'
  OBVIOUS
<1>1. CASE UNCHANGED vars
  BY <1>1 DEF TypeOK, vars, termVars, logVars, leaderVars, tallyVars,
              diskVars, history
<1>2. CASE \E i \in Server : TimeoutLeader(i)
  BY <1>2, TypeTimeoutLeader
<1>3. CASE \E i \in Server : TimeoutElection(i)
  BY <1>3, TypeTimeoutElection
<1>4. CASE \E i \in Server, c \in Cmd : AppendLeader(i, c)
  BY <1>4, TypeAppendLeader
<1>5. CASE \E i \in Server, c \in Cmd : AppendFollowerOrCandidate(i, c)
  BY <1>5, TypeAppendFollowerOrCandidate
<1>6. CASE \E i, j \in Server : Receive(i, j)
  BY <1>6, TypeVoteRequestLeaderOrCandidate, TypeVoteRequestFollower,
     TypeVoteResponseLeader, TypeVoteResponseFollower,
     TypeVoteResponseCandidate, TypeAppendEntriesRequestLeaderOrCandidate,
     TypeAppendEntriesRequestFollower, TypeAppendEntriesResponseLeader,
     TypeAppendEntriesResponseFollowerOrCandidate DEF Receive
<1>7. CASE \E i, j \in Server : Lose(i, j)
  BY <1>7, TypeLose
<1> QED BY <1>1, <1>2, <1>3, <1>4, <1>5, <1>6, <1>7 DEF Next

\* Every variable always has its type: in particular no handler takes
\* nextIndex below the first entry, or stores what is not a term and a vote.
THEOREM TypeCorrect == Spec => []TypeOK
  BY InitType, NextType, PTL DEF Spec

-----------------------------------------------------------------------------
(* Elections *)

\* Half of the other servers, rounded down, plus one is more than half of all
\* of them only if their number is odd.
OddCluster == \E k \in Nat : Cardinality(Server) = 2 * k + 1

-----------------------------------------------------------------------------
(* The inductive invariant *)

\* The messages of channel q.
In(q) == {q[n] : n \in 1..Len(q)}

IsVoteRequest(m) == m.type = "VoteRequest"
IsAppend(m)      == m.type = "AppendEntriesRequest"
IsRequest(m)     == IsVoteRequest(m) \/ IsAppend(m)
IsGrant(m)       == m.type = "VoteResponse" /\ m.granted

\* Message a may be ahead of message b in a channel: a candidate asks for votes
\* once in a term and before it leads, and a voter gives it one vote a term.
Ahead(a, b) ==
  /\ IsRequest(a) /\ IsVoteRequest(b) => a.term < b.term
  /\ IsGrant(a) /\ IsGrant(b) => a.term # b.term

Ordered(q) == \A m, n \in 1..Len(q) : m < n => Ahead(q[m], q[n])

Ballot(t, v, c) == [term |-> t, voter |-> v, candidate |-> c]

VotesFor(c, t) == {b \in ballots : b.term = t /\ b.candidate = c}

\* The votes for i in its term whose answers are not on their way any more.
Arrived(i) ==
  {b \in VotesFor(i, currentTerm[i]) :
     \A m \in In(net[b.voter][i]) : IsGrant(m) => m.term # currentTerm[i]}

\* No server sends to itself, and channels keep requests and votes in order.
ChannelsInOrder ==
  \A i, j \in Server : Ordered(net[i][j]) /\ (i = j => net[i][j] = <<>>)

\* What is asked has been reached by who asks; only a leader asks to append.
RequestsReached ==
  \A i, j \in Server : \A m \in In(net[i][j]) :
    /\ IsRequest(m) => m.term <= currentTerm[i]
    /\ IsAppend(m) => <<m.term, i>> \in elected

\* A vote asked for on the way from i to j has not been given, nor does j
\* follow i already in that term.
NotYetVoted ==
  \A i, j \in Server : \A m \in In(net[i][j]) : IsVoteRequest(m) =>
    /\ Ballot(m.term, j, i) \notin ballots
    /\ votedFor[j] = i => currentTerm[j] # m.term

\* An answer that grants a vote says what its sender did.
GrantsTrue ==
  \A i, j \in Server : \A m \in In(net[i][j]) :
    IsGrant(m) => Ballot(m.term, i, j) \in ballots

\* Both sides of a vote have reached its term, and a server whose term it still
\* is has a votedFor, if not always the one it voted for.
BallotsReached ==
  \A b \in ballots :
    /\ b.term <= currentTerm[b.voter] /\ b.term <= currentTerm[b.candidate]
    /\ b.term = currentTerm[b.voter] => votedFor[b.voter] # Nobody

\* Whoever a server has in votedFor has reached its term.
VotedReached ==
  \A i \in Server : votedFor[i] # Nobody =>
    currentTerm[i] <= currentTerm[votedFor[i]]

\* A candidate or leader has counted no more than the votes that arrived.
TallyArrived ==
  \A i \in Server : state[i] # "FOLLOWER" =>
    yesVotesNum[i] <= Cardinality(Arrived(i))

\* Who was elected got the number of votes the code takes for a majority.
ElectedByTally ==
  \A e \in elected : Majority <= Cardinality(VotesFor(e[2], e[1]))

LeaderElected ==
  \A i \in Server : state[i] = "LEADER" => <<currentTerm[i], i>> \in elected

ElectionInv ==
  /\ TypeOK
  /\ IsFiniteSet(ballots)
  /\ ChannelsInOrder
  /\ RequestsReached
  /\ NotYetVoted
  /\ GrantsTrue
  /\ BallotsReached
  /\ VotedReached
  /\ OneVotePerTerm
  /\ TallyArrived
  /\ ElectedByTally
  /\ LeaderElected

-----------------------------------------------------------------------------
(* Channels *)

LEMMA InEmpty == In(<<>>) = {} /\ Ordered(<<>>)
  BY DEF In, Ordered

\* What is in a channel is a message, and every message has a term.
LEMMA InMessages ==
  ASSUME TypeOK, NEW x \in Server, NEW y \in Server, NEW m \in In(net[x][y])
  PROVE  m \in Message /\ m.term \in Nat
<1>1. net[x][y] \in Seq(Message)
  BY DEF TypeOK
<1>2. PICK n \in 1..Len(net[x][y]) : m = net[x][y][n]
  BY DEF In
<1>3. m \in Message
  BY <1>1, <1>2, ElementOfSeq
<1> QED BY <1>3 DEF Message, VoteRequestEvent, VoteResponseEvent,
          AppendEntriesRequestEvent, AppendEntriesResponseEvent

\* A message added to a channel is the only new one in it.
LEMMA InAppend ==
  ASSUME NEW q \in Seq(Message), NEW m \in Message
  PROVE  /\ Append(q, m) \in Seq(Message)
         /\ In(Append(q, m)) = In(q) \cup {m}
<1>1. /\ Len(q) \in Nat
      /\ Append(q, m) \in Seq(Message)
      /\ Len(Append(q, m)) = Len(q) + 1
      /\ \A n \in 1..Len(q) : Append(q, m)[n] = q[n]
      /\ Append(q, m)[Len(q) + 1] = m
  BY AppendProperties, LenProperties
<1>2. 1..(Len(q) + 1) = 1..Len(q) \cup {Len(q) + 1}
  BY <1>1
<1> QED BY <1>1, <1>2 DEF In

\* The head of a channel is in it, and the rest follows it.
LEMMA InTail ==
  ASSUME NEW q \in Seq(Message), q # <<>>
  PROVE  /\ Head(q) \in In(q)
         /\ Tail(q) \in Seq(Message)
         /\ In(Tail(q)) \subseteq In(q)
         /\ Ordered(q) => /\ Ordered(Tail(q))
                          /\ \A m \in In(Tail(q)) : Ahead(Head(q), m)
<1>1. /\ Len(q) \in Nat \ {0}
      /\ Head(q) = q[1]
      /\ Tail(q) \in Seq(Message)
      /\ Len(Tail(q)) = Len(q) - 1
      /\ \A n \in 1..Len(Tail(q)) : Tail(q)[n] = q[n + 1]
  BY HeadTailProperties, LenProperties, EmptySeq
<1>2. \A n \in 1..Len(Tail(q)) : n \in Nat /\ n + 1 \in 2..Len(q)
  BY <1>1
<1>3. Head(q) \in In(q) /\ In(Tail(q)) \subseteq In(q)
  BY <1>1, <1>2 DEF In
<1>4. ASSUME Ordered(q)
      PROVE  Ordered(Tail(q)) /\ \A m \in In(Tail(q)) : Ahead(Head(q), m)
  <2>1. \A m \in In(Tail(q)) : Ahead(Head(q), m)
    <3> SUFFICES ASSUME NEW n \in 1..Len(Tail(q))
                 PROVE  Ahead(Head(q), Tail(q)[n])
      BY DEF In
    <3>1. 1 \in 1..Len(q) /\ n + 1 \in 1..Len(q) /\ 1 < n + 1
      BY <1>1, <1>2
    <3>2. Ahead(q[1], q[n + 1])
      BY <1>4, <3>1 DEF Ordered
    <3> QED BY <1>1, <3>2
  <2>2. Ordered(Tail(q))
    <3> SUFFICES ASSUME NEW m \in 1..Len(Tail(q)), NEW n \in 1..Len(Tail(q)), m < n
                 PROVE  Ahead(Tail(q)[m], Tail(q)[n])
      BY DEF Ordered
    <3>1. m + 1 \in 1..Len(q) /\ n + 1 \in 1..Len(q) /\ m + 1 < n + 1
      BY <1>1, <1>2
    <3>2. Ahead(q[m + 1], q[n + 1])
      BY <1>4, <3>1 DEF Ordered
    <3> QED BY <1>1, <3>2
  <2> QED BY <2>1, <2>2
<1> QED BY <1>1, <1>3, <1>4

\* A channel stays in order if what is added may come after all that is in it.
LEMMA OrderedAppend ==
  ASSUME NEW q \in Seq(Message), NEW m \in Message, Ordered(q),
         \A a \in In(q) : Ahead(a, m)
  PROVE  Ordered(Append(q, m))
<1> DEFINE r == Append(q, m)
<1>1. /\ Len(q) \in Nat
      /\ Len(r) = Len(q) + 1
      /\ \A n \in 1..Len(q) : r[n] = q[n]
      /\ r[Len(q) + 1] = m
  BY AppendProperties, LenProperties
<1> HIDE DEF r
<1> SUFFICES ASSUME NEW k \in 1..Len(r), NEW n \in 1..Len(r), k < n
             PROVE  Ahead(r[k], r[n])
  BY DEF Ordered, r
<1>2. k \in 1..Len(q) /\ r[k] = q[k]
  BY <1>1
<1>3. CASE n \in 1..Len(q)
  BY <1>1, <1>2, <1>3 DEF Ordered
<1>4. CASE n = Len(q) + 1
  BY <1>1, <1>2, <1>4 DEF In
<1> QED BY <1>1, <1>3, <1>4

\* Channel q becomes q2 by losing at most its head and gaining at most one
\* message, of the set new.
Moved(q, q2, new) ==
  \E r \in Seq(Message) :
    /\ r = q \/ (q # <<>> /\ r = Tail(q))
    /\ q2 = r \/ \E m \in new : q2 = Append(r, m)

LEMMA MovedIn ==
  ASSUME NEW q \in Seq(Message), NEW q2, NEW new \in SUBSET Message,
         Moved(q, q2, new)
  PROVE  /\ In(q2) \subseteq In(q) \cup new
         /\ (Ordered(q) /\ \A a \in In(q), m \in new : Ahead(a, m)) => Ordered(q2)
<1>1. PICK r \in Seq(Message) :
        /\ r = q \/ (q # <<>> /\ r = Tail(q))
        /\ q2 = r \/ \E m \in new : q2 = Append(r, m)
  BY DEF Moved
<1>2. In(r) \subseteq In(q) /\ (Ordered(q) => Ordered(r))
  BY <1>1, InTail
<1>3. CASE q2 = r
  BY <1>2, <1>3
<1>4. CASE \E m \in new : q2 = Append(r, m)
  <2>1. PICK m \in new : q2 = Append(r, m)
    BY <1>4
  <2>2. In(q2) = In(r) \cup {m}
    BY <2>1, InAppend
  <2>3. ASSUME Ordered(q), \A a \in In(q), b \in new : Ahead(a, b)
        PROVE  Ordered(q2)
    BY <1>2, <2>1, <2>3, OrderedAppend
  <2> QED BY <1>2, <2>2, <2>3
<1> QED BY <1>1, <1>3, <1>4

-----------------------------------------------------------------------------
(* What the handlers do to the channels *)

\* The message a server receives is another's.
LEMMA NotFromSelf ==
  ASSUME ChannelsInOrder, NEW i \in Server, NEW j \in Server, net[j][i] # <<>>
  PROVE  i # j
  BY DEF ChannelsInOrder

LEMMA NetConsume ==
  ASSUME TypeOK, NEW i \in Server, NEW j \in Server, Consume(i, j)
  PROVE  \A x, y \in Server :
           net'[x][y] = IF x = j /\ y = i THEN Tail(net[x][y]) ELSE net[x][y]
  BY DEF TypeOK, Consume

LEMMA NetConsumeAndSend ==
  ASSUME TypeOK, NEW i \in Server, NEW j \in Server, i # j, NEW m,
         ConsumeAndSend(i, j, m)
  PROVE  \A x, y \in Server :
           net'[x][y] = IF x = j /\ y = i THEN Tail(net[x][y])
                        ELSE IF x = i /\ y = j THEN Append(net[x][y], m)
                        ELSE net[x][y]
<1>1. /\ net \in [Server -> [Server -> Seq(Message)]]
      /\ net' = [[net EXCEPT ![j][i] = Tail(@)] EXCEPT ![i][j] = Append(@, m)]
  BY DEF TypeOK, ConsumeAndSend
<1> QED BY <1>1

LEMMA NetSendToPeers ==
  ASSUME NEW n \in NetType, NEW i \in Server, NEW ms
  PROVE  \A x, y \in Server :
           SendToPeers(n, i, ms)[x][y] =
             IF x = i /\ y # i THEN Append(n[x][y], ms[y]) ELSE n[x][y]
  BY DEF SendToPeers, NetType

-----------------------------------------------------------------------------
(* Steps that give no vote, count none and elect nobody *)

\* What server i may send in such a step.
Calm(i) ==
  {m \in Message : /\ ~IsVoteRequest(m) /\ ~IsGrant(m)
                   /\ IsAppend(m) => /\ m.term = currentTerm[i]
                                     /\ <<m.term, i>> \in elected'}

CalmNet ==
  \A x, y \in Server : /\ Moved(net[x][y], net'[x][y], Calm(x))
                       /\ x = y => net'[x][y] = <<>>

LEMMA CalmIn ==
  ASSUME TypeOK, CalmNet, NEW x \in Server, NEW y \in Server,
         NEW m \in In(net'[x][y])
  PROVE  /\ m \in In(net[x][y]) \/ m \in Calm(x)
         /\ IsVoteRequest(m) \/ IsGrant(m) => m \in In(net[x][y])
<1>1. net[x][y] \in Seq(Message) /\ Moved(net[x][y], net'[x][y], Calm(x))
  BY DEF TypeOK, CalmNet
<1>2. Calm(x) \in SUBSET Message
  BY DEF Calm
<1>3. In(net'[x][y]) \subseteq In(net[x][y]) \cup Calm(x)
  BY <1>1, <1>2, MovedIn
<1> QED BY <1>3 DEF Calm

LEMMA CalmChannels ==
  ASSUME ElectionInv, CalmNet, ballots \subseteq ballots', elected \subseteq elected',
         \A x \in Server : currentTerm[x] \in Nat /\ currentTerm'[x] \in Nat
                             /\ currentTerm[x] <= currentTerm'[x]
  PROVE  ChannelsInOrder' /\ RequestsReached' /\ GrantsTrue'
<1>1. TypeOK /\ ChannelsInOrder /\ RequestsReached /\ GrantsTrue
  BY DEF ElectionInv
<1>2. ChannelsInOrder'
  <2> SUFFICES ASSUME NEW x \in Server, NEW y \in Server
               PROVE  Ordered(net'[x][y]) /\ (x = y => net'[x][y] = <<>>)
    BY DEF ChannelsInOrder
  <2>1. net[x][y] \in Seq(Message) /\ Moved(net[x][y], net'[x][y], Calm(x))
    BY <1>1 DEF TypeOK, CalmNet
  <2>2. Calm(x) \in SUBSET Message /\ \A a, m : m \in Calm(x) => Ahead(a, m)
    BY DEF Calm, Ahead
  <2>3. Ordered(net[x][y])
    BY <1>1 DEF ChannelsInOrder
  <2>4. Ordered(net'[x][y])
    BY <2>1, <2>2, <2>3, MovedIn
  <2> QED BY <2>4 DEF CalmNet
<1>3. RequestsReached'
  <2> SUFFICES ASSUME NEW x \in Server, NEW y \in Server, NEW m \in In(net'[x][y])
               PROVE  /\ IsRequest(m) => m.term <= currentTerm'[x]
                      /\ IsAppend(m) => <<m.term, x>> \in elected'
    BY DEF RequestsReached
  <2>1. currentTerm[x] \in Nat /\ currentTerm'[x] \in Nat /\ currentTerm[x] <= currentTerm'[x]
    OBVIOUS
  <2>2. CASE m \in Calm(x)
    BY <2>1, <2>2 DEF Calm, IsRequest
  <2>3. CASE m \in In(net[x][y])
    <3>1. /\ IsRequest(m) => m.term <= currentTerm[x]
          /\ IsAppend(m) => <<m.term, x>> \in elected
      BY <1>1, <2>3 DEF RequestsReached
    <3>2. m.term \in Nat
      BY <1>1, <2>3, InMessages
    <3> QED BY <2>1, <3>1, <3>2
  <2> QED BY <1>1, <2>2, <2>3, CalmIn
<1>4. GrantsTrue'
  <2> SUFFICES ASSUME NEW x \in Server, NEW y \in Server, NEW m \in In(net'[x][y]),
                      IsGrant(m)
               PROVE  Ballot(m.term, x, y) \in ballots'
    BY DEF GrantsTrue
  <2>1. m \in In(net[x][y])
    BY <1>1, CalmIn
  <2> QED BY <1>1, <2>1 DEF GrantsTrue
<1> QED BY <1>2, <1>3, <1>4

\* Votes are not taken back.
LEMMA VotesStay ==
  ASSUME IsFiniteSet(ballots'), ballots \subseteq ballots', NEW c, NEW t
  PROVE  /\ VotesFor(c, t) \subseteq VotesFor(c, t)'
         /\ IsFiniteSet(VotesFor(c, t)')
         /\ IsFiniteSet(VotesFor(c, t))
         /\ Cardinality(VotesFor(c, t)) <= Cardinality(VotesFor(c, t)')
<1>1. VotesFor(c, t) \subseteq VotesFor(c, t)' /\ VotesFor(c, t)' \subseteq ballots'
  BY DEF VotesFor
<1>2. IsFiniteSet(VotesFor(c, t)')
  BY <1>1, FS_Subset
<1> QED BY <1>1, <1>2, FS_Subset

\* Nor do they leave while no answer for the term is sent anew.
LEMMA ArrivedStay ==
  ASSUME IsFiniteSet(ballots'), ballots \subseteq ballots', NEW x \in Server,
         currentTerm'[x] = currentTerm[x],
         \A b \in Arrived(x) : \A m \in In(net'[b.voter][x]) :
           IsGrant(m) /\ m.term = currentTerm[x] => m \in In(net[b.voter][x])
  PROVE  /\ Arrived(x) \subseteq Arrived(x)'
         /\ IsFiniteSet(Arrived(x)')
         /\ Cardinality(Arrived(x)) \in Nat /\ Cardinality(Arrived(x)') \in Nat
         /\ Cardinality(Arrived(x)) <= Cardinality(Arrived(x)')
<1> DEFINE t == currentTerm[x]
<1>1. VotesFor(x, t) \subseteq VotesFor(x, t)' /\ IsFiniteSet(VotesFor(x, t)')
  BY VotesStay
<1>2. Arrived(x) \subseteq Arrived(x)'
  <2> SUFFICES ASSUME NEW b \in Arrived(x)
               PROVE  b \in Arrived(x)'
    OBVIOUS
  <2>1. b \in VotesFor(x, t)'
    BY <1>1 DEF Arrived
  <2>2. ASSUME NEW m \in In(net'[b.voter][x]), IsGrant(m)
        PROVE  m.term # t
    BY <2>2 DEF Arrived
  <2> QED BY <2>1, <2>2 DEF Arrived, VotesFor
<1>3. Arrived(x)' \subseteq VotesFor(x, t)'
  BY DEF Arrived, VotesFor
<1>4. IsFiniteSet(Arrived(x)') /\ IsFiniteSet(Arrived(x))
  BY <1>1, <1>2, <1>3, FS_Subset
<1> QED BY <1>2, <1>4, FS_Subset, FS_CardinalityType

LEMMA CalmRest ==
  ASSUME ElectionInv, TypeOK', CalmNet, UNCHANGED <<ballots, elected, yesVotesNum>>,
         \A x \in Server : currentTerm[x] <= currentTerm'[x],
         \A x \in Server : \/ state'[x] = "FOLLOWER"
                           \/ state'[x] = state[x] /\ currentTerm'[x] = currentTerm[x]
  PROVE  /\ IsFiniteSet(ballots') /\ ChannelsInOrder' /\ RequestsReached'
         /\ GrantsTrue' /\ OneVotePerTerm' /\ TallyArrived' /\ ElectedByTally'
         /\ LeaderElected'
<1>1. /\ TypeOK /\ IsFiniteSet(ballots') /\ OneVotePerTerm /\ TallyArrived
      /\ ElectedByTally /\ LeaderElected
  BY DEF ElectionInv
<1>2. ChannelsInOrder' /\ RequestsReached' /\ GrantsTrue'
  <2>1. \A x \in Server : currentTerm[x] \in Nat /\ currentTerm'[x] \in Nat
    BY <1>1 DEF TypeOK
  <2> QED BY <2>1, CalmChannels
<1>3. OneVotePerTerm' /\ ElectedByTally'
  BY <1>1 DEF OneVotePerTerm, ElectedByTally, VotesFor, Majority
<1>4. TallyArrived'
  <2> SUFFICES ASSUME NEW x \in Server, state'[x] # "FOLLOWER"
               PROVE  yesVotesNum'[x] <= Cardinality(Arrived(x)')
    BY DEF TallyArrived
  <2>1. yesVotesNum[x] <= Cardinality(Arrived(x)) /\ currentTerm'[x] = currentTerm[x]
    BY <1>1 DEF TallyArrived
  <2>2. \A b \in Arrived(x) : b.voter \in Server
    BY <1>1 DEF TypeOK, Arrived, VotesFor
  <2>3. Cardinality(Arrived(x)) \in Nat /\ Cardinality(Arrived(x)') \in Nat
        /\ Cardinality(Arrived(x)) <= Cardinality(Arrived(x)')
    <3>1. \A b \in Arrived(x) : \A m \in In(net'[b.voter][x]) :
            IsGrant(m) /\ m.term = currentTerm[x] => m \in In(net[b.voter][x])
      BY <1>1, <2>2, CalmIn
    <3> QED BY <1>1, <2>1, <3>1, ArrivedStay
  <2>4. yesVotesNum[x] \in Nat
    BY <1>1 DEF TypeOK
  <2> QED BY <2>1, <2>3, <2>4
<1>5. LeaderElected'
  BY <1>1 DEF LeaderElected
<1> QED BY <1>1, <1>2, <1>3, <1>4, <1>5

\* Each server keeps its term and vote, or forgets its vote in a later term.
Keeps(x) ==
  /\ currentTerm'[x] = currentTerm[x] /\ votedFor'[x] = votedFor[x]
  /\ \/ state'[x] = state[x]
     \/ state[x] # "LEADER" /\ state'[x] = "FOLLOWER"

Enters(x) ==
  currentTerm[x] < currentTerm'[x] /\ votedFor'[x] = Nobody /\ state'[x] = "FOLLOWER"

CalmStep ==
  /\ CalmNet
  /\ UNCHANGED <<ballots, elected, yesVotesNum>>
  /\ \A x \in Server : Keeps(x) \/ Enters(x)

LEMMA CalmInv ==
  ASSUME ElectionInv, TypeOK', CalmStep
  PROVE  ElectionInv'
<1>1. /\ TypeOK /\ NotYetVoted /\ BallotsReached /\ VotedReached
      /\ CalmNet /\ UNCHANGED <<ballots, elected, yesVotesNum>>
  BY DEF ElectionInv, CalmStep
<1>2. \A x \in Server :
        /\ Keeps(x) \/ Enters(x)
        /\ currentTerm[x] \in Nat /\ currentTerm'[x] \in Nat
        /\ votedFor[x] \in Server \cup {Nobody}
        /\ currentTerm[x] <= currentTerm'[x]
  <2>1. \A x \in Server : /\ currentTerm[x] \in Nat /\ currentTerm'[x] \in Nat
                          /\ votedFor[x] \in Server \cup {Nobody}
    BY <1>1 DEF TypeOK
  <2>2. \A x \in Server : Keeps(x) \/ Enters(x)
    BY DEF CalmStep
  <2> QED BY <2>1, <2>2 DEF Keeps, Enters
<1>3. /\ IsFiniteSet(ballots') /\ ChannelsInOrder' /\ RequestsReached'
      /\ GrantsTrue' /\ OneVotePerTerm' /\ TallyArrived' /\ ElectedByTally'
      /\ LeaderElected'
  <2>1. \A x \in Server : \/ state'[x] = "FOLLOWER"
                          \/ state'[x] = state[x] /\ currentTerm'[x] = currentTerm[x]
    BY <1>2 DEF Keeps, Enters
  <2> QED BY <1>1, <1>2, <2>1, CalmRest
<1>4. NotYetVoted'
  <2> SUFFICES ASSUME NEW x \in Server, NEW y \in Server, NEW m \in In(net'[x][y]),
                      IsVoteRequest(m)
               PROVE  /\ Ballot(m.term, y, x) \notin ballots'
                      /\ votedFor'[y] = x => currentTerm'[y] # m.term
    BY DEF NotYetVoted
  <2>1. m \in In(net[x][y])
    BY <1>1, CalmIn
  <2>2. /\ Ballot(m.term, y, x) \notin ballots
        /\ votedFor[y] = x => currentTerm[y] # m.term
    BY <1>1, <2>1 DEF NotYetVoted
  <2> QED BY <1>1, <1>2, <2>2, ServerAssumption DEF Keeps, Enters
<1>5. BallotsReached'
  <2> SUFFICES ASSUME NEW b \in ballots
               PROVE  /\ b.term <= currentTerm'[b.voter]
                      /\ b.term <= currentTerm'[b.candidate]
                      /\ b.term = currentTerm'[b.voter] => votedFor'[b.voter] # Nobody
    BY <1>1 DEF BallotsReached
  <2>1. b.voter \in Server /\ b.candidate \in Server /\ b.term \in Nat
    BY <1>1 DEF TypeOK
  <2>2. /\ b.term <= currentTerm[b.voter] /\ b.term <= currentTerm[b.candidate]
        /\ b.term = currentTerm[b.voter] => votedFor[b.voter] # Nobody
    BY <1>1 DEF BallotsReached
  <2> QED BY <1>2, <2>1, <2>2 DEF Keeps, Enters
<1>6. VotedReached'
  <2> SUFFICES ASSUME NEW x \in Server, votedFor'[x] # Nobody
               PROVE  currentTerm'[x] <= currentTerm'[votedFor'[x]]
    BY DEF VotedReached
  <2>1. Keeps(x) /\ votedFor[x] \in Server
    BY <1>2 DEF Keeps, Enters
  <2>2. currentTerm[x] <= currentTerm[votedFor[x]]
    BY <1>1, <2>1 DEF VotedReached, Keeps
  <2>3. currentTerm[votedFor[x]] <= currentTerm'[votedFor[x]]
    BY <1>2, <2>1
  <2> QED BY <1>2, <2>1, <2>2, <2>3 DEF Keeps
<1> QED BY <1>3, <1>4, <1>5, <1>6 DEF ElectionInv

-----------------------------------------------------------------------------
(* A server follows the leader j of a term it has not passed *)

FollowStep(i, j) ==
  LET m == Head(net[j][i]) IN
  /\ net[j][i] # <<>> /\ IsAppend(m) /\ currentTerm[i] <= m.term
  /\ FollowLeader(i, j, m)
  /\ CalmNet /\ net'[j][i] = Tail(net[j][i])
  /\ UNCHANGED <<ballots, elected, yesVotesNum>>

LEMMA FollowInv ==
  ASSUME ElectionInv, TypeOK', NEW i \in Server, NEW j \in Server, FollowStep(i, j)
  PROVE  ElectionInv'
<1> DEFINE m == Head(net[j][i])
           t == m.term
<1>1. /\ TypeOK /\ ChannelsInOrder /\ RequestsReached /\ NotYetVoted
      /\ BallotsReached /\ VotedReached
      /\ CalmNet /\ UNCHANGED <<ballots, elected, yesVotesNum>>
  BY DEF ElectionInv, FollowStep
<1>2. /\ i # j /\ net[j][i] # <<>> /\ IsAppend(m) /\ currentTerm[i] <= t
      /\ net'[j][i] = Tail(net[j][i])
  BY <1>1, NotFromSelf DEF FollowStep
<1>3. /\ m \in In(net[j][i]) /\ net[j][i] \in Seq(Message)
      /\ \A b \in In(net'[j][i]) : Ahead(m, b)
  <2>1. net[j][i] \in Seq(Message) /\ Ordered(net[j][i])
    BY <1>1 DEF TypeOK, ChannelsInOrder
  <2> QED BY <1>2, <2>1, InTail
<1>4. t \in Nat /\ t <= currentTerm[j]
  BY <1>1, <1>2, <1>3, InMessages DEF RequestsReached, IsRequest
<1>5. /\ currentTerm'[i] = t /\ votedFor'[i] = j /\ state'[i] = "FOLLOWER"
      /\ \A x \in Server \ {i} : /\ currentTerm'[x] = currentTerm[x]
                                 /\ votedFor'[x] = votedFor[x]
                                 /\ state'[x] = state[x]
  BY <1>1 DEF FollowStep, FollowLeader, TypeOK
<1>6. \A x \in Server : /\ currentTerm[x] \in Nat /\ currentTerm'[x] \in Nat
                        /\ votedFor[x] \in Server \cup {Nobody}
                        /\ currentTerm[x] <= currentTerm'[x]
  <2>1. \A x \in Server : currentTerm[x] \in Nat /\ votedFor[x] \in Server \cup {Nobody}
    BY <1>1 DEF TypeOK
  <2> QED BY <1>2, <1>4, <1>5, <2>1
<1> HIDE DEF m, t
<1>7. /\ IsFiniteSet(ballots') /\ ChannelsInOrder' /\ RequestsReached'
      /\ GrantsTrue' /\ OneVotePerTerm' /\ TallyArrived' /\ ElectedByTally'
      /\ LeaderElected'
  <2>1. \A x \in Server : \/ state'[x] = "FOLLOWER"
                          \/ state'[x] = state[x] /\ currentTerm'[x] = currentTerm[x]
    BY <1>5
  <2> QED BY <1>1, <1>6, <2>1, CalmRest
<1>8. NotYetVoted'
  <2> SUFFICES ASSUME NEW x \in Server, NEW y \in Server, NEW r \in In(net'[x][y]),
                      IsVoteRequest(r)
               PROVE  /\ Ballot(r.term, y, x) \notin ballots'
                      /\ votedFor'[y] = x => currentTerm'[y] # r.term
    BY DEF NotYetVoted
  <2>1. r \in In(net[x][y])
    BY <1>1, CalmIn
  <2>2. /\ Ballot(r.term, y, x) \notin ballots
        /\ votedFor[y] = x => currentTerm[y] # r.term
    BY <1>1, <2>1 DEF NotYetVoted
  <2>3. CASE y = i /\ x = j
    <3>1. Ahead(m, r)
      BY <1>3, <2>3
    <3>2. t < r.term
      BY <1>2, <3>1 DEF Ahead, IsRequest, t
    <3>3. r.term \in Nat
      BY <1>1, <2>1, InMessages
    <3> QED BY <1>1, <1>4, <1>5, <2>2, <2>3, <3>2, <3>3
  <2>4. CASE ~(y = i /\ x = j)
    BY <1>1, <1>5, <2>2, <2>4
  <2> QED BY <2>3, <2>4
<1>9. BallotsReached'
  <2> SUFFICES ASSUME NEW b \in ballots
               PROVE  /\ b.term <= currentTerm'[b.voter]
                      /\ b.term <= currentTerm'[b.candidate]
                      /\ b.term = currentTerm'[b.voter] => votedFor'[b.voter] # Nobody
    BY <1>1 DEF BallotsReached
  <2>1. b.voter \in Server /\ b.candidate \in Server /\ b.term \in Nat
    BY <1>1 DEF TypeOK
  <2>2. /\ b.term <= currentTerm[b.voter] /\ b.term <= currentTerm[b.candidate]
        /\ b.term = currentTerm[b.voter] => votedFor[b.voter] # Nobody
    BY <1>1 DEF BallotsReached
  <2>3. votedFor'[i] # Nobody
    BY <1>5, ServerAssumption
  <2> QED BY <1>5, <1>6, <2>1, <2>2, <2>3
<1>10. VotedReached'
  <2> SUFFICES ASSUME NEW x \in Server, votedFor'[x] # Nobody
               PROVE  currentTerm'[x] <= currentTerm'[votedFor'[x]]
    BY DEF VotedReached
  <2>1. CASE x = i
    BY <1>2, <1>4, <1>5, <2>1
  <2>2. CASE x # i
    <3>1. votedFor[x] \in Server /\ currentTerm[x] <= currentTerm[votedFor[x]]
      BY <1>1, <1>5, <1>6, <2>2 DEF VotedReached
    <3> QED BY <1>5, <1>6, <2>2, <3>1
  <2> QED BY <2>1, <2>2
<1> QED BY <1>7, <1>8, <1>9, <1>10 DEF ElectionInv

-----------------------------------------------------------------------------
(* A server gives its vote to j *)

VoteStep(i, j) ==
  LET m == Head(net[j][i]) IN
  /\ net[j][i] # <<>> /\ IsVoteRequest(m) /\ VoteOpen(i, j, m)
  /\ state[i] = "LEADER" => currentTerm[i] # m.term
  /\ currentTerm' = [currentTerm EXCEPT ![i] = m.term]
  /\ state' = [state EXCEPT ![i] = "FOLLOWER"]
  /\ votedFor' = [votedFor EXCEPT ![i] = j]
  /\ ConsumeAndSend(i, j, VoteResponseMsg(m.term, TRUE))
  /\ ballots' = ballots \cup {Ballot(m.term, i, j)}
  /\ UNCHANGED <<elected, yesVotesNum>>

\* A vote is only given in a term in which there was none: were votedFor
\* already j, the request would not be under way any more.
LEMMA VoteIsNew ==
  ASSUME ElectionInv, NEW i \in Server, NEW j \in Server, net[j][i] # <<>>,
         IsVoteRequest(Head(net[j][i])), VoteOpen(i, j, Head(net[j][i]))
  PROVE  /\ Head(net[j][i]).term \in Nat
         /\ currentTerm[i] <= Head(net[j][i]).term
         /\ Head(net[j][i]).term <= currentTerm[j]
         /\ \A b \in ballots : b.voter = i => b.term < Head(net[j][i]).term
<1> DEFINE m == Head(net[j][i])
           t == m.term
<1>1. /\ TypeOK /\ ChannelsInOrder /\ RequestsReached /\ NotYetVoted
      /\ BallotsReached
  BY DEF ElectionInv
<1>2. m \in In(net[j][i])
  <2>1. net[j][i] \in Seq(Message)
    BY <1>1 DEF TypeOK
  <2> QED BY <2>1, InTail
<1>3. t \in Nat /\ t <= currentTerm[j]
  BY <1>1, <1>2, InMessages DEF RequestsReached, IsRequest
<1>4. currentTerm[i] \in Nat /\ currentTerm[i] <= t
  <2>1. currentTerm[i] \in Nat
    BY <1>1 DEF TypeOK
  <2>2. currentTerm[i] < t \/ currentTerm[i] = t
    BY DEF VoteOpen
  <2> QED BY <1>3, <2>1, <2>2
<1>5. votedFor[i] = j => currentTerm[i] # t
  BY <1>1, <1>2 DEF NotYetVoted
<1>6. ASSUME NEW b \in ballots, b.voter = i
      PROVE  b.term < t
  <2>1. /\ b.term \in Nat /\ b.term <= currentTerm[i]
        /\ b.term = currentTerm[i] => votedFor[i] # Nobody
    BY <1>1, <1>6 DEF TypeOK, BallotsReached
  <2>2. currentTerm[i] = t => votedFor[i] = Nobody
    BY <1>4, <1>5 DEF VoteOpen
  <2> QED BY <1>3, <1>4, <2>1, <2>2
<1> QED BY <1>3, <1>4, <1>6

LEMMA VoteInv ==
  ASSUME ElectionInv, TypeOK', NEW i \in Server, NEW j \in Server, VoteStep(i, j)
  PROVE  ElectionInv'
<1> DEFINE m == Head(net[j][i])
           t == m.term
           g == VoteResponseMsg(t, TRUE)
           new == Ballot(t, i, j)
<1>1. /\ TypeOK /\ ChannelsInOrder /\ RequestsReached /\ NotYetVoted /\ GrantsTrue
      /\ BallotsReached /\ VotedReached /\ OneVotePerTerm /\ TallyArrived
      /\ ElectedByTally /\ LeaderElected /\ IsFiniteSet(ballots)
  BY DEF ElectionInv
<1>2. /\ i # j /\ net[j][i] # <<>> /\ IsVoteRequest(m) /\ VoteOpen(i, j, m)
      /\ ConsumeAndSend(i, j, g)
      /\ ballots' = ballots \cup {new}
      /\ UNCHANGED <<elected, yesVotesNum>>
  BY <1>1, NotFromSelf DEF VoteStep
<1>3. /\ t \in Nat /\ currentTerm[i] <= t /\ t <= currentTerm[j]
      /\ \A b \in ballots : b.voter = i => b.term < t
  BY <1>2, VoteIsNew
<1>4. /\ currentTerm'[i] = t /\ votedFor'[i] = j /\ state'[i] = "FOLLOWER"
      /\ \A x \in Server \ {i} : /\ currentTerm'[x] = currentTerm[x]
                                 /\ votedFor'[x] = votedFor[x]
                                 /\ state'[x] = state[x]
  BY <1>1 DEF VoteStep, TypeOK
<1>5. \A x \in Server : /\ currentTerm[x] \in Nat /\ currentTerm'[x] \in Nat
                        /\ votedFor[x] \in Server \cup {Nobody}
                        /\ currentTerm[x] <= currentTerm'[x]
  <2>1. \A x \in Server : currentTerm[x] \in Nat /\ votedFor[x] \in Server \cup {Nobody}
    BY <1>1 DEF TypeOK
  <2> QED BY <1>3, <1>4, <2>1
<1>6. /\ g \in Message /\ IsGrant(g) /\ g.term = t
      /\ ~IsRequest(g) /\ ~IsVoteRequest(g) /\ ~IsAppend(g)
  <2>1. g \in Message
    BY <1>3, VoteResponseMsgType
  <2> QED BY <2>1 DEF VoteResponseMsg, IsGrant, IsRequest, IsVoteRequest, IsAppend
<1>7. /\ new.term = t /\ new.voter = i /\ new.candidate = j
      /\ \A u, v, c : Ballot(u, v, c) = new => u = t /\ v = i /\ c = j
  BY DEF Ballot
<1> HIDE DEF g
<1>8. \A x, y \in Server :
        /\ net[x][y] \in Seq(Message) /\ Ordered(net[x][y])
        /\ net'[x][y] = IF x = j /\ y = i THEN Tail(net[x][y])
                        ELSE IF x = i /\ y = j THEN Append(net[x][y], g)
                        ELSE net[x][y]
  <2>1. \A x, y \in Server : net[x][y] \in Seq(Message) /\ Ordered(net[x][y])
    BY <1>1 DEF TypeOK, ChannelsInOrder
  <2>2. \A x, y \in Server :
          net'[x][y] = IF x = j /\ y = i THEN Tail(net[x][y])
                       ELSE IF x = i /\ y = j THEN Append(net[x][y], g)
                       ELSE net[x][y]
    BY <1>1, <1>2, NetConsumeAndSend
  <2> QED BY <2>1, <2>2
<1>9. \A b \in In(net'[j][i]) : Ahead(m, b)
  BY <1>2, <1>8, InTail
<1> HIDE DEF m, t, new
<1>10. ASSUME NEW x \in Server, NEW y \in Server, NEW r \in In(net'[x][y])
       PROVE  r \in In(net[x][y]) \/ (x = i /\ y = j /\ r = g)
  <2>1. CASE x = j /\ y = i
    BY <1>2, <1>8, <2>1, InTail
  <2>2. CASE x = i /\ y = j
    BY <1>2, <1>6, <1>8, <2>2, InAppend
  <2>3. CASE ~(x = j /\ y = i) /\ ~(x = i /\ y = j)
    BY <1>8, <2>3
  <2> QED BY <2>1, <2>2, <2>3
<1>11. IsFiniteSet(ballots')
  BY <1>1, <1>2, FS_AddElement
<1>12. ChannelsInOrder'
  <2> SUFFICES ASSUME NEW x \in Server, NEW y \in Server
               PROVE  Ordered(net'[x][y]) /\ (x = y => net'[x][y] = <<>>)
    BY DEF ChannelsInOrder
  <2>1. CASE x = j /\ y = i
    BY <1>2, <1>8, <2>1, InTail
  <2>2. CASE x = i /\ y = j
    <3>1. \A a \in In(net[i][j]) : Ahead(a, g)
      <4> SUFFICES ASSUME NEW a \in In(net[i][j]), IsGrant(a)
                   PROVE  a.term # t
        BY <1>6 DEF Ahead
      <4>1. Ballot(a.term, i, j) \in ballots
        BY <1>1 DEF GrantsTrue
      <4>2. Ballot(a.term, i, j).term < t
        BY <1>3, <4>1 DEF Ballot
      <4> QED BY <1>3, <4>2 DEF Ballot
    <3> QED BY <1>2, <1>6, <1>8, <2>2, <3>1, OrderedAppend
  <2>3. CASE ~(x = j /\ y = i) /\ ~(x = i /\ y = j)
    BY <1>1, <1>8, <2>3 DEF ChannelsInOrder
  <2> QED BY <2>1, <2>2, <2>3
<1>13. RequestsReached'
  <2> SUFFICES ASSUME NEW x \in Server, NEW y \in Server, NEW r \in In(net'[x][y])
               PROVE  /\ IsRequest(r) => r.term <= currentTerm'[x]
                      /\ IsAppend(r) => <<r.term, x>> \in elected'
    BY DEF RequestsReached
  <2>1. CASE r \in In(net[x][y])
    <3>1. /\ IsRequest(r) => r.term <= currentTerm[x]
          /\ IsAppend(r) => <<r.term, x>> \in elected
      BY <1>1, <2>1 DEF RequestsReached
    <3>2. r.term \in Nat
      BY <1>1, <2>1, InMessages
    <3> QED BY <1>2, <1>5, <3>1, <3>2
  <2>2. CASE r = g
    BY <1>6, <2>2
  <2> QED BY <1>10, <2>1, <2>2
<1>14. NotYetVoted'
  <2> SUFFICES ASSUME NEW x \in Server, NEW y \in Server, NEW r \in In(net'[x][y]),
                      IsVoteRequest(r)
               PROVE  /\ Ballot(r.term, y, x) \notin ballots'
                      /\ votedFor'[y] = x => currentTerm'[y] # r.term
    BY DEF NotYetVoted
  <2>1. r \in In(net[x][y])
    BY <1>6, <1>10
  <2>2. /\ Ballot(r.term, y, x) \notin ballots
        /\ votedFor[y] = x => currentTerm[y] # r.term
    BY <1>1, <2>1 DEF NotYetVoted
  <2>3. CASE y = i /\ x = j
    <3>1. t < r.term
      BY <1>2, <1>9, <2>3 DEF Ahead, IsRequest, t
    <3>2. r.term \in Nat
      BY <1>1, <2>1, InMessages
    <3> QED BY <1>2, <1>3, <1>4, <1>7, <2>2, <2>3, <3>1, <3>2
  <2>4. CASE ~(y = i /\ x = j)
    BY <1>2, <1>4, <1>7, <2>2, <2>4
  <2> QED BY <2>3, <2>4
<1>15. GrantsTrue'
  <2> SUFFICES ASSUME NEW x \in Server, NEW y \in Server, NEW r \in In(net'[x][y]),
                      IsGrant(r)
               PROVE  Ballot(r.term, x, y) \in ballots'
    BY DEF GrantsTrue
  <2>1. CASE r \in In(net[x][y])
    BY <1>1, <1>2, <2>1 DEF GrantsTrue
  <2>2. CASE x = i /\ y = j /\ r = g
    BY <1>2, <1>6, <2>2 DEF new
  <2> QED BY <1>10, <2>1, <2>2
<1>16. BallotsReached'
  <2> SUFFICES ASSUME NEW b \in ballots'
               PROVE  /\ b.term <= currentTerm'[b.voter]
                      /\ b.term <= currentTerm'[b.candidate]
                      /\ b.term = currentTerm'[b.voter] => votedFor'[b.voter] # Nobody
    BY DEF BallotsReached
  <2>1. votedFor'[i] # Nobody
    BY <1>4, ServerAssumption
  <2>2. CASE b \in ballots
    <3>1. b.voter \in Server /\ b.candidate \in Server /\ b.term \in Nat
      BY <1>1, <2>2 DEF TypeOK
    <3>2. /\ b.term <= currentTerm[b.voter] /\ b.term <= currentTerm[b.candidate]
          /\ b.term = currentTerm[b.voter] => votedFor[b.voter] # Nobody
      BY <1>1, <2>2 DEF BallotsReached
    <3> QED BY <1>4, <1>5, <2>1, <3>1, <3>2
  <2>3. CASE b = new
    BY <1>2, <1>3, <1>4, <1>7, <2>1, <2>3
  <2> QED BY <1>2, <2>2, <2>3
<1>17. VotedReached'
  <2> SUFFICES ASSUME NEW x \in Server, votedFor'[x] # Nobody
               PROVE  currentTerm'[x] <= currentTerm'[votedFor'[x]]
    BY DEF VotedReached
  <2>1. CASE x = i
    BY <1>2, <1>3, <1>4, <2>1
  <2>2. CASE x # i
    <3>1. votedFor[x] \in Server /\ currentTerm[x] <= currentTerm[votedFor[x]]
      BY <1>1, <1>4, <1>5, <2>2 DEF VotedReached
    <3> QED BY <1>4, <1>5, <2>2, <3>1
  <2> QED BY <2>1, <2>2
<1>18. OneVotePerTerm'
  <2> SUFFICES ASSUME NEW a \in ballots', NEW b \in ballots',
                      a.term = b.term, a.voter = b.voter
               PROVE  a.candidate = b.candidate
    BY DEF OneVotePerTerm
  <2>1. \A c \in ballots : ~(c.term = t /\ c.voter = i)
    BY <1>3
  <2> QED BY <1>1, <1>2, <1>7, <2>1 DEF OneVotePerTerm
<1>19. TallyArrived'
  <2> SUFFICES ASSUME NEW x \in Server, state'[x] # "FOLLOWER"
               PROVE  yesVotesNum'[x] <= Cardinality(Arrived(x)')
    BY DEF TallyArrived
  <2>1. /\ x # i /\ currentTerm'[x] = currentTerm[x]
        /\ yesVotesNum[x] <= Cardinality(Arrived(x))
        /\ yesVotesNum[x] \in Nat
    BY <1>1, <1>4 DEF TallyArrived, TypeOK
  <2>2. ASSUME NEW b \in Arrived(x), NEW r \in In(net'[b.voter][x]),
               IsGrant(r), r.term = currentTerm[x]
        PROVE  r \in In(net[b.voter][x])
    <3>1. b \in ballots /\ b.term = currentTerm[x] /\ b.voter \in Server
      BY <1>1 DEF Arrived, VotesFor, TypeOK
    <3>2. ~(b.voter = i /\ r = g)
      BY <1>3, <1>5, <1>6, <2>2, <3>1
    <3> QED BY <1>10, <3>1, <3>2
  <2>3. /\ Cardinality(Arrived(x)) \in Nat /\ Cardinality(Arrived(x)') \in Nat
        /\ Cardinality(Arrived(x)) <= Cardinality(Arrived(x)')
    BY <1>2, <1>11, <2>1, <2>2, ArrivedStay
  <2> QED BY <1>2, <2>1, <2>3
<1>20. ElectedByTally'
  <2> SUFFICES ASSUME NEW e \in elected
               PROVE  Majority <= Cardinality(VotesFor(e[2], e[1])')
    BY <1>2 DEF ElectedByTally, Majority
  <2>1. /\ IsFiniteSet(VotesFor(e[2], e[1])) /\ IsFiniteSet(VotesFor(e[2], e[1])')
        /\ Cardinality(VotesFor(e[2], e[1])) <= Cardinality(VotesFor(e[2], e[1])')
    BY <1>2, <1>11, VotesStay
  <2>2. Majority <= Cardinality(VotesFor(e[2], e[1]))
    BY <1>1 DEF ElectedByTally
  <2> QED BY <2>1, <2>2, MajorityType, FS_CardinalityType
<1>21. LeaderElected'
  BY <1>1, <1>2, <1>4 DEF LeaderElected
<1> QED BY <1>11, <1>12, <1>13, <1>14, <1>15, <1>16, <1>17, <1>18, <1>19, <1>20,
        <1>21 DEF ElectionInv

-----------------------------------------------------------------------------
(* A server campaigns *)

LEMMA CampaignInv ==
  ASSUME ElectionInv, TypeOK', NEW i \in Server, TimeoutElection(i)
  PROVE  ElectionInv'
<1> DEFINE t == currentTerm[i] + 1
           r == VoteRequestMsg(i)
           new == Ballot(t, i, i)
<1>1. /\ TypeOK /\ ChannelsInOrder /\ RequestsReached /\ NotYetVoted /\ GrantsTrue
      /\ BallotsReached /\ VotedReached /\ OneVotePerTerm /\ TallyArrived
      /\ ElectedByTally /\ LeaderElected /\ IsFiniteSet(ballots)
  BY DEF ElectionInv
<1>2. /\ currentTerm'[i] = t /\ votedFor'[i] = i /\ state'[i] = "CANDIDATE"
      /\ yesVotesNum'[i] = 1
      /\ \A x \in Server \ {i} : /\ currentTerm'[x] = currentTerm[x]
                                 /\ votedFor'[x] = votedFor[x]
                                 /\ state'[x] = state[x]
                                 /\ yesVotesNum'[x] = yesVotesNum[x]
  BY <1>1 DEF TimeoutElection, TypeOK
<1>3. \A x \in Server : /\ currentTerm[x] \in Nat /\ currentTerm'[x] \in Nat
                        /\ votedFor[x] \in Server \cup {Nobody}
                        /\ currentTerm[x] <= currentTerm'[x]
  <2>1. \A x \in Server : currentTerm[x] \in Nat /\ votedFor[x] \in Server \cup {Nobody}
    BY <1>1 DEF TypeOK
  <2> QED BY <1>2, <2>1
<1>4. t \in Nat /\ currentTerm[i] < t
  BY <1>3
<1>5. ballots' = ballots \cup {new} /\ UNCHANGED elected
  BY <1>2 DEF TimeoutElection, Ballot
<1>6. /\ new.term = t /\ new.voter = i /\ new.candidate = i
      /\ \A u, v, c : Ballot(u, v, c) = new => u = t /\ v = i /\ c = i
  BY DEF Ballot
<1>7. /\ r \in Message /\ IsVoteRequest(r) /\ IsRequest(r) /\ r.term = t
      /\ ~IsGrant(r) /\ ~IsAppend(r)
  <2>1. r \in Message
    BY <1>1, <1>3, VoteRequestMsgType
  <2> QED BY <1>2, <2>1 DEF VoteRequestMsg, IsGrant, IsRequest, IsVoteRequest, IsAppend
<1> HIDE DEF r
<1>8. \A x, y \in Server :
        /\ net[x][y] \in Seq(Message) /\ Ordered(net[x][y])
        /\ net'[x][y] = IF x = i /\ y # i THEN Append(net[x][y], r) ELSE net[x][y]
  <2>1. \A x, y \in Server : net[x][y] \in Seq(Message) /\ Ordered(net[x][y])
    BY <1>1 DEF TypeOK, ChannelsInOrder
  <2>2. net \in NetType /\ net' = SendToPeers(net, i, [p \in Peers(i) |-> r])
    BY <1>1 DEF TypeOK, NetType, TimeoutElection, r
  <2>3. \A y \in Server : y # i => [p \in Peers(i) |-> r][y] = r
    BY DEF Peers
  <2>4. \A x, y \in Server :
          net'[x][y] = IF x = i /\ y # i
                         THEN Append(net[x][y], [p \in Peers(i) |-> r][y])
                         ELSE net[x][y]
    BY <2>2, NetSendToPeers
  <2> QED BY <2>1, <2>3, <2>4
<1> HIDE DEF t, new
<1>9. ASSUME NEW x \in Server, NEW y \in Server, NEW m \in In(net'[x][y])
      PROVE  m \in In(net[x][y]) \/ (x = i /\ y # i /\ m = r)
  <2>1. CASE x = i /\ y # i
    BY <1>7, <1>8, <2>1, InAppend
  <2>2. CASE ~(x = i /\ y # i)
    BY <1>8, <2>2
  <2> QED BY <2>1, <2>2
<1>10. IsFiniteSet(ballots')
  BY <1>1, <1>5, FS_AddElement
<1>11. ChannelsInOrder'
  <2> SUFFICES ASSUME NEW x \in Server, NEW y \in Server
               PROVE  Ordered(net'[x][y]) /\ (x = y => net'[x][y] = <<>>)
    BY DEF ChannelsInOrder
  <2>1. CASE x = i /\ y # i
    <3>1. \A a \in In(net[x][y]) : Ahead(a, r)
      <4> SUFFICES ASSUME NEW a \in In(net[x][y]), IsRequest(a)
                   PROVE  a.term < t
        BY <1>7 DEF Ahead
      <4>1. a.term <= currentTerm[i]
        BY <1>1, <2>1 DEF RequestsReached
      <4>2. a.term \in Nat
        BY <1>1, InMessages
      <4> QED BY <1>3, <1>4, <4>1, <4>2
    <3> QED BY <1>7, <1>8, <2>1, <3>1, OrderedAppend
  <2>2. CASE ~(x = i /\ y # i)
    BY <1>1, <1>8, <2>2 DEF ChannelsInOrder
  <2> QED BY <2>1, <2>2
<1>12. RequestsReached'
  <2> SUFFICES ASSUME NEW x \in Server, NEW y \in Server, NEW m \in In(net'[x][y])
               PROVE  /\ IsRequest(m) => m.term <= currentTerm'[x]
                      /\ IsAppend(m) => <<m.term, x>> \in elected'
    BY DEF RequestsReached
  <2>1. CASE m \in In(net[x][y])
    <3>1. /\ IsRequest(m) => m.term <= currentTerm[x]
          /\ IsAppend(m) => <<m.term, x>> \in elected
      BY <1>1, <2>1 DEF RequestsReached
    <3>2. m.term \in Nat
      BY <1>1, <2>1, InMessages
    <3> QED BY <1>3, <1>5, <3>1, <3>2
  <2>2. CASE x = i /\ m = r
    BY <1>2, <1>4, <1>7, <2>2
  <2> QED BY <1>9, <2>1, <2>2
<1>13. NotYetVoted'
  <2> SUFFICES ASSUME NEW x \in Server, NEW y \in Server, NEW m \in In(net'[x][y]),
                      IsVoteRequest(m)
               PROVE  /\ Ballot(m.term, y, x) \notin ballots'
                      /\ votedFor'[y] = x => currentTerm'[y] # m.term
    BY DEF NotYetVoted
  <2>1. x # y
    <3>1. CASE x = y
      BY <1>1, <1>8, <3>1, InEmpty DEF ChannelsInOrder
    <3> QED BY <3>1
  <2>2. CASE m \in In(net[x][y])
    <3>1. /\ Ballot(m.term, y, x) \notin ballots
          /\ votedFor[y] = x => currentTerm[y] # m.term
      BY <1>1, <2>2 DEF NotYetVoted
    <3> QED BY <1>2, <1>5, <1>6, <2>1, <3>1
  <2>3. CASE x = i /\ y # i /\ m = r
    <3>1. Ballot(t, y, i) \notin ballots
      <4>1. \A b \in ballots : b.candidate = i => b.term <= currentTerm[i]
        BY <1>1 DEF BallotsReached
      <4>2. Ballot(t, y, i).candidate = i /\ Ballot(t, y, i).term = t
        BY DEF Ballot
      <4> QED BY <1>3, <1>4, <4>1, <4>2
    <3>2. votedFor[y] = i => currentTerm[y] # t
      <4>1. votedFor[y] = i => currentTerm[y] <= currentTerm[i]
        BY <1>1, ServerAssumption DEF VotedReached
      <4> QED BY <1>3, <1>4, <4>1
    <3> QED BY <1>2, <1>5, <1>6, <1>7, <2>3, <3>1, <3>2
  <2> QED BY <1>9, <2>2, <2>3
<1>14. GrantsTrue'
  <2> SUFFICES ASSUME NEW x \in Server, NEW y \in Server, NEW m \in In(net'[x][y]),
                      IsGrant(m)
               PROVE  Ballot(m.term, x, y) \in ballots'
    BY DEF GrantsTrue
  <2>1. m \in In(net[x][y])
    BY <1>7, <1>9
  <2> QED BY <1>1, <1>5, <2>1 DEF GrantsTrue
<1>15. BallotsReached'
  <2> SUFFICES ASSUME NEW b \in ballots'
               PROVE  /\ b.term <= currentTerm'[b.voter]
                      /\ b.term <= currentTerm'[b.candidate]
                      /\ b.term = currentTerm'[b.voter] => votedFor'[b.voter] # Nobody
    BY DEF BallotsReached
  <2>1. votedFor'[i] # Nobody
    BY <1>2, ServerAssumption
  <2>2. CASE b \in ballots
    <3>1. b.voter \in Server /\ b.candidate \in Server /\ b.term \in Nat
      BY <1>1, <2>2 DEF TypeOK
    <3>2. /\ b.term <= currentTerm[b.voter] /\ b.term <= currentTerm[b.candidate]
          /\ b.term = currentTerm[b.voter] => votedFor[b.voter] # Nobody
      BY <1>1, <2>2 DEF BallotsReached
    <3> QED BY <1>2, <1>3, <2>1, <3>1, <3>2
  <2>3. CASE b = new
    BY <1>2, <1>4, <1>6, <2>1, <2>3
  <2> QED BY <1>5, <2>2, <2>3
<1>16. VotedReached'
  <2> SUFFICES ASSUME NEW x \in Server, votedFor'[x] # Nobody
               PROVE  currentTerm'[x] <= currentTerm'[votedFor'[x]]
    BY DEF VotedReached
  <2>1. CASE x = i
    BY <1>2, <1>4, <2>1
  <2>2. CASE x # i
    <3>1. votedFor[x] \in Server /\ currentTerm[x] <= currentTerm[votedFor[x]]
      BY <1>1, <1>2, <1>3, <2>2 DEF VotedReached
    <3>2. currentTerm[votedFor[x]] <= currentTerm'[votedFor[x]]
      BY <1>3, <3>1
    <3>3. currentTerm'[x] = currentTerm[x] /\ votedFor'[x] = votedFor[x]
      BY <1>2, <2>2
    <3> QED BY <1>3, <3>1, <3>2, <3>3
  <2> QED BY <2>1, <2>2
<1>17. \A b \in ballots : b.voter = i \/ b.candidate = i => b.term # t
  <2> SUFFICES ASSUME NEW b \in ballots, b.voter = i \/ b.candidate = i
               PROVE  b.term # t
    OBVIOUS
  <2>1. b.term <= currentTerm[i] /\ b.term \in Nat
    BY <1>1 DEF BallotsReached, TypeOK
  <2> QED BY <1>3, <1>4, <2>1
<1>18. OneVotePerTerm'
  <2> SUFFICES ASSUME NEW a \in ballots', NEW b \in ballots',
                      a.term = b.term, a.voter = b.voter
               PROVE  a.candidate = b.candidate
    BY DEF OneVotePerTerm
  <2> QED BY <1>1, <1>5, <1>6, <1>17 DEF OneVotePerTerm
<1>19. TallyArrived'
  <2> SUFFICES ASSUME NEW x \in Server, state'[x] # "FOLLOWER"
               PROVE  yesVotesNum'[x] <= Cardinality(Arrived(x)')
    BY DEF TallyArrived
  <2>1. CASE x = i
    <3>1. new \in Arrived(i)'
      <4>1. new \in VotesFor(i, currentTerm[i])'
        BY <1>2, <1>5, <1>6 DEF VotesFor
      <4>2. In(net'[i][i]) = {}
        BY <1>1, <1>8, InEmpty DEF ChannelsInOrder
      <4> QED BY <1>2, <1>6, <4>1, <4>2 DEF Arrived
    <3>2. {new} \subseteq Arrived(i)' /\ Arrived(i)' \subseteq ballots'
      BY <3>1 DEF Arrived, VotesFor
    <3>3. IsFiniteSet(Arrived(i)') /\ Cardinality({new}) <= Cardinality(Arrived(i)')
      BY <1>10, <3>2, FS_Subset
    <3> QED BY <1>2, <2>1, <3>3, FS_Singleton
  <2>2. CASE x # i
    <3>1. /\ currentTerm'[x] = currentTerm[x]
          /\ yesVotesNum'[x] <= Cardinality(Arrived(x))
          /\ yesVotesNum'[x] \in Nat
      BY <1>1, <1>2, <2>2 DEF TallyArrived, TypeOK
    <3>2. ASSUME NEW b \in Arrived(x), NEW m \in In(net'[b.voter][x]),
                 IsGrant(m), m.term = currentTerm[x]
          PROVE  m \in In(net[b.voter][x])
      <4>1. b.voter \in Server
        BY <1>1 DEF Arrived, VotesFor, TypeOK
      <4> QED BY <1>7, <1>9, <3>2, <4>1
    <3>3. /\ Cardinality(Arrived(x)) \in Nat /\ Cardinality(Arrived(x)') \in Nat
          /\ Cardinality(Arrived(x)) <= Cardinality(Arrived(x)')
      BY <1>5, <1>10, <3>1, <3>2, ArrivedStay
    <3> QED BY <3>1, <3>3
  <2> QED BY <2>1, <2>2
<1>20. ElectedByTally'
  <2> SUFFICES ASSUME NEW e \in elected
               PROVE  Majority <= Cardinality(VotesFor(e[2], e[1])')
    BY <1>5 DEF ElectedByTally, Majority
  <2>1. /\ IsFiniteSet(VotesFor(e[2], e[1])) /\ IsFiniteSet(VotesFor(e[2], e[1])')
        /\ Cardinality(VotesFor(e[2], e[1])) <= Cardinality(VotesFor(e[2], e[1])')
    BY <1>5, <1>10, VotesStay
  <2>2. Majority <= Cardinality(VotesFor(e[2], e[1]))
    BY <1>1 DEF ElectedByTally
  <2> QED BY <2>1, <2>2, MajorityType, FS_CardinalityType
<1>21. LeaderElected'
  BY <1>1, <1>2, <1>5 DEF LeaderElected
<1> QED BY <1>10, <1>11, <1>12, <1>13, <1>14, <1>15, <1>16, <1>18, <1>19, <1>20,
        <1>21 DEF ElectionInv

-----------------------------------------------------------------------------
(* A candidate counts a vote, and leads if it was the last one missing *)

CountStep(i, j) ==
  LET m == Head(net[j][i]) IN
  /\ net[j][i] # <<>> /\ IsGrant(m) /\ ~StaleVote(i, m)
  /\ state[i] = "CANDIDATE"
  /\ CalmNet /\ net'[j][i] = Tail(net[j][i])
  /\ UNCHANGED <<currentTerm, votedFor, ballots>>
  /\ yesVotesNum' = [yesVotesNum EXCEPT ![i] = @ + 1]
  /\ \/ UNCHANGED <<state, elected>>
     \/ /\ yesVotesNum'[i] >= Majority
        /\ state' = [state EXCEPT ![i] = "LEADER"]
        /\ elected' = elected \cup {<<currentTerm[i], i>>}

LEMMA CountInv ==
  ASSUME ElectionInv, TypeOK', NEW i \in Server, NEW j \in Server, CountStep(i, j)
  PROVE  ElectionInv'
<1> DEFINE m == Head(net[j][i])
           t == currentTerm[i]
           b0 == Ballot(t, j, i)
<1>1. /\ TypeOK /\ ChannelsInOrder /\ RequestsReached /\ NotYetVoted /\ GrantsTrue
      /\ BallotsReached /\ VotedReached /\ OneVotePerTerm /\ TallyArrived
      /\ ElectedByTally /\ LeaderElected /\ IsFiniteSet(ballots)
  BY DEF ElectionInv
<1>2. /\ i # j /\ net[j][i] # <<>> /\ IsGrant(m) /\ ~(m.term < t)
      /\ state[i] = "CANDIDATE"
      /\ CalmNet /\ net'[j][i] = Tail(net[j][i])
      /\ UNCHANGED <<currentTerm, votedFor, ballots>>
      /\ elected \subseteq elected'
  BY <1>1, NotFromSelf DEF CountStep, StaleVote
<1>3. /\ yesVotesNum'[i] = yesVotesNum[i] + 1
      /\ \A x \in Server \ {i} : yesVotesNum'[x] = yesVotesNum[x] /\ state'[x] = state[x]
      /\ \A x \in Server : /\ currentTerm[x] \in Nat /\ yesVotesNum[x] \in Nat
                           /\ yesVotesNum'[x] \in Nat
  BY <1>1 DEF CountStep, TypeOK
<1>4. /\ m \in In(net[j][i])
      /\ \A a \in In(net'[j][i]) : Ahead(m, a)
  <2>1. net[j][i] \in Seq(Message) /\ Ordered(net[j][i])
    BY <1>1 DEF TypeOK, ChannelsInOrder
  <2> QED BY <1>2, <2>1, InTail
<1>5. m.term = t /\ b0 \in ballots
  <2>1. Ballot(m.term, j, i) \in ballots
    BY <1>1, <1>2, <1>4 DEF GrantsTrue
  <2>2. Ballot(m.term, j, i).term = m.term /\ Ballot(m.term, j, i).candidate = i
    BY DEF Ballot
  <2>3. m.term <= t
    BY <1>1, <2>1, <2>2 DEF BallotsReached
  <2>4. m.term \in Nat /\ t \in Nat
    BY <1>1, <1>3, <1>4, InMessages
  <2>5. m.term = t
    BY <1>2, <2>3, <2>4
  <2> QED BY <2>1, <2>5
<1>6. b0.term = t /\ b0.voter = j /\ b0.candidate = i
  BY DEF Ballot
<1> HIDE DEF m, b0
<1>7. ChannelsInOrder' /\ RequestsReached' /\ GrantsTrue'
  BY <1>2, <1>3, CalmChannels
<1>8. NotYetVoted'
  <2> SUFFICES ASSUME NEW x \in Server, NEW y \in Server, NEW r \in In(net'[x][y]),
                      IsVoteRequest(r)
               PROVE  /\ Ballot(r.term, y, x) \notin ballots'
                      /\ votedFor'[y] = x => currentTerm'[y] # r.term
    BY DEF NotYetVoted
  <2>1. r \in In(net[x][y])
    BY <1>1, <1>2, CalmIn
  <2> QED BY <1>1, <1>2, <2>1 DEF NotYetVoted
<1>9. /\ BallotsReached' /\ VotedReached' /\ OneVotePerTerm' /\ IsFiniteSet(ballots')
  BY <1>1, <1>2 DEF BallotsReached, VotedReached, OneVotePerTerm
<1>10. ASSUME NEW x \in Server
       PROVE  /\ Arrived(x) \subseteq Arrived(x)' /\ IsFiniteSet(Arrived(x)')
              /\ Cardinality(Arrived(x)) \in Nat /\ Cardinality(Arrived(x)') \in Nat
              /\ Cardinality(Arrived(x)) <= Cardinality(Arrived(x)')
  <2>1. \A b \in Arrived(x) : b.voter \in Server
    BY <1>1 DEF Arrived, VotesFor, TypeOK
  <2>2. \A b \in Arrived(x) : \A r \in In(net'[b.voter][x]) :
          IsGrant(r) /\ r.term = currentTerm[x] => r \in In(net[b.voter][x])
    BY <1>1, <1>2, <2>1, CalmIn
  <2> QED BY <1>2, <1>9, <2>2, ArrivedStay
<1>11. yesVotesNum'[i] <= Cardinality(Arrived(i)')
  <2>1. b0 \notin Arrived(i)
    BY <1>2, <1>4, <1>5, <1>6 DEF Arrived
  <2>2. b0 \in Arrived(i)'
    <3>1. \A a \in In(net'[j][i]) : IsGrant(a) => a.term # t
      BY <1>2, <1>4, <1>5 DEF Ahead
    <3> QED BY <1>2, <1>5, <1>6, <3>1 DEF Arrived, VotesFor
  <2>3. IsFiniteSet(Arrived(i))
    BY <1>10, FS_Subset
  <2>4. Cardinality(Arrived(i) \cup {b0}) = Cardinality(Arrived(i)) + 1
    BY <2>1, <2>3, FS_AddElement
  <2>5. Cardinality(Arrived(i) \cup {b0}) <= Cardinality(Arrived(i)')
    BY <1>10, <2>2, FS_Subset
  <2>6. yesVotesNum[i] <= Cardinality(Arrived(i))
    BY <1>1, <1>2 DEF TallyArrived
  <2> QED BY <1>3, <1>10, <2>4, <2>5, <2>6
<1>12. TallyArrived'
  <2> SUFFICES ASSUME NEW x \in Server, state'[x] # "FOLLOWER"
               PROVE  yesVotesNum'[x] <= Cardinality(Arrived(x)')
    BY DEF TallyArrived
  <2>1. CASE x # i
    <3>1. yesVotesNum[x] <= Cardinality(Arrived(x))
      BY <1>1, <1>3, <2>1 DEF TallyArrived
    <3> QED BY <1>3, <1>10, <2>1, <3>1
  <2> QED BY <1>11, <2>1
<1>13. ElectedByTally'
  <2> SUFFICES ASSUME NEW e \in elected'
               PROVE  Majority <= Cardinality(VotesFor(e[2], e[1])')
    BY DEF ElectedByTally, Majority
  <2>1. CASE e \in elected
    <3>1. VotesFor(e[2], e[1])' = VotesFor(e[2], e[1])
      BY <1>2 DEF VotesFor
    <3> QED BY <1>1, <2>1, <3>1 DEF ElectedByTally
  <2>2. CASE e = <<t, i>> /\ yesVotesNum'[i] >= Majority
    <3>1. Arrived(i)' \subseteq VotesFor(i, t)'
      BY <1>2 DEF Arrived, VotesFor
    <3>2. IsFiniteSet(VotesFor(i, t)')
      BY <1>2, <1>9, VotesStay
    <3>3. /\ Cardinality(Arrived(i)') <= Cardinality(VotesFor(i, t)')
          /\ Cardinality(VotesFor(i, t)') \in Nat
      BY <3>1, <3>2, FS_Subset, FS_CardinalityType
    <3>4. VotesFor(e[2], e[1])' = VotesFor(i, t)'
      BY <1>2, <2>2 DEF VotesFor
    <3> QED BY <1>3, <1>10, <1>11, <2>2, <3>3, <3>4, MajorityType
  <2> QED BY <2>1, <2>2 DEF CountStep
<1>14. LeaderElected'
  <2> SUFFICES ASSUME NEW x \in Server, state'[x] = "LEADER"
               PROVE  <<currentTerm'[x], x>> \in elected'
    BY DEF LeaderElected
  <2>1. CASE state[x] = "LEADER"
    BY <1>1, <1>2, <2>1 DEF LeaderElected
  <2>2. CASE state[x] # "LEADER"
    <3>1. x = i
      BY <1>3, <2>2
    <3> QED BY <1>2, <2>2, <3>1 DEF CountStep
  <2> QED BY <2>1, <2>2
<1> QED BY <1>7, <1>8, <1>9, <1>12, <1>13, <1>14 DEF ElectionInv

-----------------------------------------------------------------------------
(* Every handler takes one of these steps *)

LEMMA MovedBy ==
  ASSUME NEW q \in Seq(Message), NEW new
  PROVE  /\ Moved(q, q, new)
         /\ q # <<>> => Moved(q, Tail(q), new)
         /\ \A m \in new : Moved(q, Append(q, m), new)
         /\ q # <<>> => \A m \in new : Moved(q, Append(Tail(q), m), new)
<1>1. q # <<>> => Tail(q) \in Seq(Message)
  BY InTail
<1> QED BY <1>1 DEF Moved

LEMMA CalmUnchanged ==
  ASSUME ElectionInv, UNCHANGED net
  PROVE  CalmNet
<1>1. \A x, y \in Server : net[x][y] \in Seq(Message) /\ (x = y => net[x][y] = <<>>)
  BY DEF ElectionInv, TypeOK, ChannelsInOrder
<1> QED BY <1>1, MovedBy DEF CalmNet

LEMMA CalmConsume ==
  ASSUME ElectionInv, NEW i \in Server, NEW j \in Server, net[j][i] # <<>>,
         Consume(i, j)
  PROVE  CalmNet /\ net'[j][i] = Tail(net[j][i])
<1>1. TypeOK /\ ChannelsInOrder
  BY DEF ElectionInv
<1>2. \A x, y \in Server : net[x][y] \in Seq(Message) /\ (x = y => net[x][y] = <<>>)
  BY <1>1 DEF TypeOK, ChannelsInOrder
<1>3. \A x, y \in Server :
        net'[x][y] = IF x = j /\ y = i THEN Tail(net[x][y]) ELSE net[x][y]
  BY <1>1, NetConsume
<1> QED BY <1>2, <1>3, MovedBy DEF CalmNet

LEMMA CalmAnswer ==
  ASSUME ElectionInv, NEW i \in Server, NEW j \in Server, net[j][i] # <<>>,
         NEW m \in Calm(i), ConsumeAndSend(i, j, m)
  PROVE  CalmNet /\ net'[j][i] = Tail(net[j][i])
<1>1. TypeOK /\ ChannelsInOrder
  BY DEF ElectionInv
<1>2. \A x, y \in Server : net[x][y] \in Seq(Message) /\ (x = y => net[x][y] = <<>>)
  BY <1>1 DEF TypeOK, ChannelsInOrder
<1>3. i # j
  BY <1>1, NotFromSelf
<1>4. \A x, y \in Server :
        net'[x][y] = IF x = j /\ y = i THEN Tail(net[x][y])
                     ELSE IF x = i /\ y = j THEN Append(net[x][y], m)
                     ELSE net[x][y]
  BY <1>1, <1>3, NetConsumeAndSend
<1>5. ASSUME NEW x \in Server, NEW y \in Server
      PROVE  /\ Moved(net[x][y], net'[x][y], Calm(x))
             /\ x = y => net'[x][y] = <<>>
  <2>1. CASE x = j /\ y = i
    BY <1>2, <1>3, <1>4, <2>1, MovedBy
  <2>2. CASE x = i /\ y = j
    BY <1>2, <1>3, <1>4, <2>2, MovedBy
  <2>3. CASE ~(x = j /\ y = i) /\ ~(x = i /\ y = j)
    BY <1>2, <1>4, <2>3, MovedBy
  <2> QED BY <2>1, <2>2, <2>3
<1> QED BY <1>3, <1>4, <1>5 DEF CalmNet

\* A leader writes to its peers, having received a message or not.
LEMMA CalmSend ==
  ASSUME ElectionInv, NEW i \in Server, NEW n \in NetType, NEW ms,
         \A x, y \in Server : \/ n[x][y] = net[x][y]
                              \/ net[x][y] # <<>> /\ n[x][y] = Tail(net[x][y]),
         \A p \in Peers(i) : ms[p] \in Calm(i),
         net' = SendToPeers(n, i, ms)
  PROVE  CalmNet
<1>1. \A x, y \in Server : net[x][y] \in Seq(Message) /\ (x = y => net[x][y] = <<>>)
  BY DEF ElectionInv, TypeOK, ChannelsInOrder
<1>2. \A x, y \in Server :
        net'[x][y] = IF x = i /\ y # i THEN Append(n[x][y], ms[y]) ELSE n[x][y]
  BY NetSendToPeers
<1>3. \A y \in Server : y # i => ms[y] \in Calm(i)
  BY DEF Peers
<1> SUFFICES ASSUME NEW x \in Server, NEW y \in Server
             PROVE  /\ Moved(net[x][y], net'[x][y], Calm(x))
                    /\ x = y => net'[x][y] = <<>>
  BY DEF CalmNet
<1>4. CASE x = i /\ y # i
  BY <1>1, <1>2, <1>3, <1>4, MovedBy
<1>5. CASE ~(x = i /\ y # i)
  BY <1>1, <1>2, <1>5, MovedBy
<1> QED BY <1>4, <1>5

\* Refusals and answers to append requests are calm, as is what a leader sends.
LEMMA CalmMessages ==
  ASSUME NEW i \in Server
  PROVE  /\ \A t \in Nat : VoteResponseMsg(t, FALSE) \in Calm(i)
         /\ \A t, n \in Nat, ok \in BOOLEAN : AppendResponseMsg(t, ok, n) \in Calm(i)
         /\ \A n : AppendRequestMsg(i, n) \in Message /\ <<currentTerm[i], i>> \in elected'
                     => AppendRequestMsg(i, n) \in Calm(i)
<1>1. \A t \in Nat : VoteResponseMsg(t, FALSE) \in Calm(i)
  BY VoteResponseMsgType
     DEF Calm, VoteResponseMsg, IsVoteRequest, IsGrant, IsAppend
<1>2. \A t, n \in Nat, ok \in BOOLEAN : AppendResponseMsg(t, ok, n) \in Calm(i)
  BY AppendResponseMsgType
     DEF Calm, AppendResponseMsg, IsVoteRequest, IsGrant, IsAppend
<1>3. \A n : AppendRequestMsg(i, n) \in Message /\ <<currentTerm[i], i>> \in elected'
               => AppendRequestMsg(i, n) \in Calm(i)
  BY DEF Calm, AppendRequestMsg, IsVoteRequest, IsGrant, IsAppend
<1> QED BY <1>1, <1>2, <1>3

LEMMA CalmStay ==
  ASSUME CalmNet, UNCHANGED <<termVars, yesVotesNum, history>>
  PROVE  CalmStep
  BY DEF CalmStep, Keeps, termVars, history

LEMMA CalmEnter ==
  ASSUME TypeOK, CalmNet, UNCHANGED <<yesVotesNum, history>>,
         NEW i \in Server, NEW t, currentTerm[i] < t, EnterTerm(i, t)
  PROVE  CalmStep
<1>1. \A x \in Server : Keeps(x) \/ Enters(x)
  BY DEF TypeOK, EnterTerm, Keeps, Enters
<1> QED BY <1>1 DEF CalmStep, history

\* The steps of the election.
ElectionStep ==
  \/ CalmStep
  \/ \E i \in Server : TimeoutElection(i)
  \/ \E i, j \in Server : FollowStep(i, j) \/ VoteStep(i, j) \/ CountStep(i, j)

LEMMA StepTimeoutLeader ==
  ASSUME ElectionInv, NEW i \in Server, TimeoutLeader(i)
  PROVE  ElectionStep
<1>1. TypeOK /\ <<currentTerm[i], i>> \in elected'
  BY DEF ElectionInv, LeaderElected, TimeoutLeader, history
<1>2. CalmNet
  <2>1. CASE \A p \in Peers(i) : CanBuildAppend(i, nextIndex[i][p])
    <3> DEFINE ms == [p \in Peers(i) |-> AppendRequestMsg(i, nextIndex[i][p])]
    <3>1. ASSUME NEW p \in Peers(i)
          PROVE  ms[p] \in Calm(i)
      <4>1. nextIndex[i][p] \in Nat \ {0}
        BY <1>1 DEF TypeOK, Peers
      <4>2. AppendRequestMsg(i, nextIndex[i][p]) \in Message
        BY <1>1, <2>1, <4>1, AppendRequestMsgType
      <4> QED BY <1>1, <4>2, CalmMessages
    <3>2. net \in NetType /\ net' = SendToPeers(net, i, ms)
      BY <1>1, <2>1 DEF TypeOK, NetType, TimeoutLeader
    <3> HIDE DEF ms
    <3> QED BY <3>1, <3>2, CalmSend
  <2>2. CASE ~\A p \in Peers(i) : CanBuildAppend(i, nextIndex[i][p])
    BY <2>2, CalmUnchanged DEF TimeoutLeader
  <2> QED BY <2>1, <2>2
<1> QED BY <1>2, CalmStay DEF ElectionStep, TimeoutLeader, tallyVars

LEMMA StepAppend ==
  ASSUME ElectionInv, NEW i \in Server, NEW c \in Cmd,
         AppendLeader(i, c) \/ AppendFollowerOrCandidate(i, c)
  PROVE  ElectionStep
  BY CalmUnchanged, CalmStay DEF ElectionStep, AppendLeader,
     AppendFollowerOrCandidate, tallyVars

\* A request for a vote is granted or refused, and the term may be new.
LEMMA CastVoteStep ==
  ASSUME ElectionInv, NEW i \in Server, NEW j \in Server,
         Receives(i, j, "VoteRequest"), VoteOpen(i, j, Head(net[j][i])),
         state[i] = "LEADER" => currentTerm[i] # Head(net[j][i]).term,
         CastVote(i, j, Head(net[j][i])), UNCHANGED <<yesVotesNum, elected>>
  PROVE  ElectionStep
<1> DEFINE m == Head(net[j][i])
           t == m.term
<1>1. /\ TypeOK /\ net[j][i] # <<>> /\ IsVoteRequest(m)
  BY DEF ElectionInv, Receives, IsVoteRequest
<1>2. t \in Nat /\ currentTerm[i] <= t
  BY <1>1, VoteIsNew
<1>3. CASE UpToDate(log[i], m)
  <2>1. VoteStep(i, j)
    BY <1>1, <1>3 DEF CastVote, VoteStep, Ballot
  <2> QED BY <2>1 DEF ElectionStep
<1>4. CASE ~UpToDate(log[i], m)
  <2>1. ConsumeAndSend(i, j, VoteResponseMsg(t, FALSE))
    <3>1. UpToDate(log[i], m) = FALSE
      BY <1>4 DEF UpToDate
    <3> QED BY <3>1 DEF CastVote
  <2>2. CalmNet
    BY <1>1, <1>2, <2>1, CalmAnswer, CalmMessages
  <2>3. /\ currentTerm' = [currentTerm EXCEPT ![i] = t]
        /\ state' = [state EXCEPT ![i] = "FOLLOWER"]
        /\ votedFor' = [votedFor EXCEPT ![i] =
             IF currentTerm[i] < t THEN Nobody ELSE @]
        /\ UNCHANGED ballots
    BY <1>4 DEF CastVote
  <2>4. ASSUME NEW x \in Server
        PROVE  Keeps(x) \/ Enters(x)
    <3>1. currentTerm[i] \in Nat
      BY <1>1 DEF TypeOK
    <3>2. CASE x = i /\ currentTerm[i] < t
      BY <1>1, <2>3, <3>2 DEF TypeOK, Enters
    <3>3. CASE x = i /\ ~(currentTerm[i] < t)
      <4>1. currentTerm[i] = t
        BY <1>2, <3>1, <3>3
      <4> QED BY <1>1, <2>3, <3>3, <4>1 DEF TypeOK, Keeps
    <3>4. CASE x # i
      BY <1>1, <2>3, <3>4 DEF TypeOK, Keeps
    <3> QED BY <3>2, <3>3, <3>4
  <2> QED BY <2>2, <2>3, <2>4 DEF ElectionStep, CalmStep
<1> QED BY <1>3, <1>4

LEMMA RefuseVoteStep ==
  ASSUME ElectionInv, NEW i \in Server, NEW j \in Server, net[j][i] # <<>>,
         RefuseVote(i, j), UNCHANGED <<yesVotesNum, elected>>
  PROVE  ElectionStep
<1>1. currentTerm[i] \in Nat
  BY DEF ElectionInv, TypeOK
<1>2. CalmNet
  BY <1>1, CalmAnswer, CalmMessages DEF RefuseVote
<1> QED BY <1>2, CalmStay DEF ElectionStep, RefuseVote, history

LEMMA StepVoteRequest ==
  ASSUME ElectionInv, NEW i \in Server, NEW j \in Server,
         VoteRequestLeaderOrCandidate(i, j) \/ VoteRequestFollower(i, j)
  PROVE  ElectionStep
<1> DEFINE m == Head(net[j][i])
<1>1. /\ Receives(i, j, "VoteRequest") /\ net[j][i] # <<>>
      /\ UNCHANGED <<yesVotesNum, elected>>
  BY DEF VoteRequestLeaderOrCandidate, VoteRequestFollower, Receives, tallyVars
<1>2. \/ /\ VoteOpen(i, j, m) /\ CastVote(i, j, m)
         /\ state[i] = "LEADER" => currentTerm[i] # m.term
      \/ RefuseVote(i, j)
  <2>1. TypeOK
    BY DEF ElectionInv
  <2>2. net[j][i] \in Seq(Message) /\ currentTerm[i] \in Nat
    BY <2>1 DEF TypeOK
  <2>3. m \in In(net[j][i]) /\ m.term \in Nat
    BY <1>1, <2>1, <2>2, InTail, InMessages
  <2>4. currentTerm[i] < m.term => currentTerm[i] # m.term
    BY <2>2, <2>3
  <2> QED BY <2>4 DEF VoteRequestLeaderOrCandidate, VoteRequestFollower, VoteOpen
<1> QED BY <1>1, <1>2, CastVoteStep, RefuseVoteStep

LEMMA StepVoteResponse ==
  ASSUME ElectionInv, NEW i \in Server, NEW j \in Server,
         VoteResponseLeader(i, j) \/ VoteResponseFollower(i, j)
  PROVE  ElectionStep
<1> DEFINE m == Head(net[j][i])
<1>1. /\ net[j][i] # <<>> /\ Consume(i, j) /\ TypeOK
      /\ UNCHANGED <<yesVotesNum, history>>
  BY DEF ElectionInv, VoteResponseLeader, VoteResponseFollower, Receives, tallyVars
<1>2. CalmNet
  BY <1>1, CalmConsume
<1>3. \/ UNCHANGED termVars
      \/ m.term > currentTerm[i] /\ EnterTerm(i, m.term)
  BY DEF VoteResponseLeader, VoteResponseFollower
<1>4. CASE UNCHANGED termVars
  BY <1>1, <1>2, <1>4, CalmStay DEF ElectionStep
<1>5. CASE m.term > currentTerm[i] /\ EnterTerm(i, m.term)
  <2>1. m.term \in Nat /\ currentTerm[i] \in Nat
    <3>1. net[j][i] \in Seq(Message)
      BY <1>1 DEF TypeOK
    <3>2. m \in In(net[j][i])
      BY <1>1, <3>1, InTail
    <3> QED BY <1>1, <3>2, InMessages DEF TypeOK
  <2>2. currentTerm[i] < m.term
    BY <1>5, <2>1
  <2> QED BY <1>1, <1>2, <1>5, <2>2, CalmEnter DEF ElectionStep
<1> QED BY <1>3, <1>4, <1>5

\* A candidate that counts its majority answers to no one but writes to all.
LEMMA BecomeLeaderCalm ==
  ASSUME ElectionInv, NEW i \in Server, NEW j \in Server, net[j][i] # <<>>,
         BecomeLeader(i, j)
  PROVE  CalmNet /\ net'[j][i] = Tail(net[j][i])
<1> DEFINE n == [net EXCEPT ![j][i] = Tail(@)]
           ms == [p \in Peers(i) |-> AppendRequestMsg(i, Len(log[i]) + 1)]
<1>1. TypeOK /\ ChannelsInOrder
  BY DEF ElectionInv
<1>2. i # j
  BY <1>1, NotFromSelf
<1>3. \A x, y \in Server : net[x][y] \in Seq(Message)
  BY <1>1 DEF TypeOK
<1>4. Tail(net[j][i]) \in Seq(Message)
  BY <1>3, InTail
<1>5. /\ n \in NetType
      /\ \A x, y \in Server :
           n[x][y] = IF x = j /\ y = i THEN Tail(net[x][y]) ELSE net[x][y]
  BY <1>1, <1>4 DEF TypeOK, NetType
<1>6. \A p \in Peers(i) : ms[p] \in Calm(i)
  <2>1. log[i] \in Seq(Entry) /\ Len(log[i]) \in Nat
    BY <1>1, LenProperties DEF TypeOK
  <2>2. AppendRequestMsg(i, Len(log[i]) + 1) \in Message
    BY <1>1, <2>1, AppendRequestMsgType DEF CanBuildAppend
  <2>3. AppendRequestMsg(i, Len(log[i]) + 1) \in Calm(i)
    BY <2>2, CalmMessages DEF BecomeLeader
  <2> QED BY <2>3
<1>7. net' = SendToPeers(n, i, ms)
  BY DEF BecomeLeader
<1> HIDE DEF n, ms
<1>8. CalmNet
  BY <1>5, <1>6, <1>7, CalmSend
<1>9. \A x, y \in Server :
        net'[x][y] = IF x = i /\ y # i THEN Append(n[x][y], ms[y]) ELSE n[x][y]
  BY <1>5, <1>7, NetSendToPeers
<1> QED BY <1>2, <1>5, <1>8, <1>9

LEMMA StepVoteResponseCandidate ==
  ASSUME ElectionInv, NEW i \in Server, NEW j \in Server,
         VoteResponseCandidate(i, j)
  PROVE  ElectionStep
<1> DEFINE m == Head(net[j][i])
<1>1. /\ TypeOK /\ net[j][i] # <<>> /\ m.type = "VoteResponse"
      /\ state[i] = "CANDIDATE" /\ UNCHANGED ballots
  BY DEF ElectionInv, VoteResponseCandidate, Receives
<1>2. m.term \in Nat /\ currentTerm[i] \in Nat
  <2>1. net[j][i] \in Seq(Message)
    BY <1>1 DEF TypeOK
  <2>2. m \in In(net[j][i])
    BY <1>1, <2>1, InTail
  <2> QED BY <1>1, <2>2, InMessages DEF TypeOK
<1>3. Consume(i, j) => CalmNet /\ net'[j][i] = Tail(net[j][i])
  BY <1>1, CalmConsume
<1>4. CASE StaleVote(i, m)
  <2>1. Consume(i, j) /\ UNCHANGED <<termVars, tallyVars, elected>>
    BY <1>4 DEF VoteResponseCandidate
  <2> QED BY <1>1, <1>3, <2>1, CalmStay DEF ElectionStep, tallyVars, history
<1>5. CASE ~StaleVote(i, m) /\ m.granted
  <2>1. /\ yesVotesNum' = [yesVotesNum EXCEPT ![i] = @ + 1]
        /\ IF yesVotesNum'[i] >= Majority
             THEN BecomeLeader(i, j)
             ELSE Consume(i, j) /\ UNCHANGED <<termVars, elected>>
    BY <1>5 DEF VoteResponseCandidate
  <2>2. CalmNet /\ net'[j][i] = Tail(net[j][i])
    BY <1>1, <1>3, <2>1, BecomeLeaderCalm
  <2>3. /\ UNCHANGED <<currentTerm, votedFor>>
        /\ \/ UNCHANGED <<state, elected>>
           \/ /\ yesVotesNum'[i] >= Majority
              /\ state' = [state EXCEPT ![i] = "LEADER"]
              /\ elected' = elected \cup {<<currentTerm[i], i>>}
    BY <2>1 DEF BecomeLeader, termVars
  <2>4. CountStep(i, j)
    BY <1>1, <1>5, <2>1, <2>2, <2>3 DEF CountStep, IsGrant
  <2> QED BY <2>4 DEF ElectionStep
<1>6. CASE ~StaleVote(i, m) /\ ~m.granted /\ m.term > currentTerm[i]
  <2>1. EnterTerm(i, m.term) /\ Consume(i, j) /\ UNCHANGED <<tallyVars, elected>>
    BY <1>2, <1>6 DEF VoteResponseCandidate
  <2>2. currentTerm[i] < m.term
    BY <1>2, <1>6
  <2> QED BY <1>1, <1>3, <2>1, <2>2, CalmEnter DEF ElectionStep, tallyVars, history
<1>7. CASE ~StaleVote(i, m) /\ ~m.granted /\ ~(m.term > currentTerm[i])
  <2>1. /\ Consume(i, j) /\ UNCHANGED <<currentTerm, votedFor, yesVotesNum, elected>>
        /\ UNCHANGED state \/ state' = [state EXCEPT ![i] = "FOLLOWER"]
    BY <1>7 DEF VoteResponseCandidate, termVars
  <2>2. \A x \in Server : Keeps(x)
    BY <1>1, <2>1 DEF TypeOK, Keeps
  <2> QED BY <1>1, <1>3, <2>1, <2>2 DEF ElectionStep, CalmStep
<1> QED BY <1>4, <1>5, <1>6, <1>7

LEMMA RefuseAppendStep ==
  ASSUME ElectionInv, NEW i \in Server, NEW j \in Server, net[j][i] # <<>>,
         RefuseAppend(i, j), UNCHANGED <<yesVotesNum, history>>
  PROVE  ElectionStep
<1>1. currentTerm[i] \in Nat /\ Len(log[i]) \in Nat
  BY LenProperties DEF ElectionInv, TypeOK
<1>2. AppendResponseMsg(currentTerm[i], FALSE, Len(log[i])) \in Calm(i)
  BY <1>1, CalmMessages
<1>3. CalmNet
  BY <1>2, CalmAnswer DEF RefuseAppend
<1> QED BY <1>3, CalmStay DEF ElectionStep, RefuseAppend

LEMMA StepAppendRequest ==
  ASSUME ElectionInv, TypeOK', NEW i \in Server, NEW j \in Server,
         \/ AppendEntriesRequestLeaderOrCandidate(i, j)
         \/ AppendEntriesRequestFollower(i, j)
  PROVE  ElectionStep
<1> DEFINE m == Head(net[j][i])
           ok == PrevMatches(log[i], m)
<1>1. /\ TypeOK /\ net[j][i] # <<>> /\ IsAppend(m)
      /\ UNCHANGED <<yesVotesNum, history>>
  BY DEF ElectionInv, AppendEntriesRequestLeaderOrCandidate,
     AppendEntriesRequestFollower, Receives, IsAppend, tallyVars
<1>2. \/ RefuseAppend(i, j)
      \/ /\ currentTerm[i] <= m.term /\ FollowLeader(i, j, m)
         /\ \/ Consume(i, j)
            \/ ConsumeAndSend(i, j, AppendResponseMsg(m.term, ok, Len(log'[i])))
  BY DEF AppendEntriesRequestLeaderOrCandidate, AppendEntriesRequestFollower
<1>3. CASE RefuseAppend(i, j)
  BY <1>1, <1>3, RefuseAppendStep
<1>4. CASE /\ currentTerm[i] <= m.term /\ FollowLeader(i, j, m)
           /\ \/ Consume(i, j)
              \/ ConsumeAndSend(i, j, AppendResponseMsg(m.term, ok, Len(log'[i])))
  <2>1. AppendResponseMsg(m.term, ok, Len(log'[i])) \in Calm(i)
    <3>1. m.term \in Nat
      <4>1. net[j][i] \in Seq(Message)
        BY <1>1 DEF TypeOK
      <4>2. m \in In(net[j][i])
        BY <1>1, <4>1, InTail
      <4> QED BY <1>1, <4>2, InMessages
    <3>2. log'[i] \in Seq(Entry)
      BY DEF TypeOK
    <3>3. Len(log'[i]) \in Nat /\ ok \in BOOLEAN
      BY <3>2, LenProperties DEF PrevMatches
    <3> QED BY <3>1, <3>3, CalmMessages
  <2>2. CalmNet /\ net'[j][i] = Tail(net[j][i])
    BY <1>1, <1>4, <2>1, CalmConsume, CalmAnswer
  <2>3. FollowStep(i, j)
    BY <1>1, <1>4, <2>2 DEF FollowStep, history
  <2> QED BY <2>3 DEF ElectionStep
<1> QED BY <1>2, <1>3, <1>4

LEMMA StepAppendResponse ==
  ASSUME ElectionInv, NEW i \in Server, NEW j \in Server,
         \/ AppendEntriesResponseLeader(i, j)
         \/ AppendEntriesResponseFollowerOrCandidate(i, j)
  PROVE  ElectionStep
<1> DEFINE m == Head(net[j][i])
           n == OneBack(nextIndex[i][j])
<1>1. /\ TypeOK /\ net[j][i] # <<>> /\ UNCHANGED <<yesVotesNum, history>>
  BY DEF ElectionInv, AppendEntriesResponseLeader,
     AppendEntriesResponseFollowerOrCandidate, Receives, tallyVars
<1>2. m.term \in Nat /\ currentTerm[i] \in Nat
  <2>1. net[j][i] \in Seq(Message)
    BY <1>1 DEF TypeOK
  <2>2. m \in In(net[j][i])
    BY <1>1, <2>1, InTail
  <2> QED BY <1>1, <2>2, InMessages DEF TypeOK
<1>3. \/ /\ Consume(i, j)
         /\ \/ UNCHANGED termVars
            \/ m.term > currentTerm[i] /\ EnterTerm(i, m.term)
      \/ state[i] = "LEADER" /\ BackUp(i, j) /\ UNCHANGED termVars
  BY DEF AppendEntriesResponseLeader, AppendEntriesResponseFollowerOrCandidate,
     RecordMatch
<1>4. CASE Consume(i, j) /\ UNCHANGED termVars
  BY <1>1, <1>4, CalmConsume, CalmStay DEF ElectionStep
<1>5. CASE Consume(i, j) /\ m.term > currentTerm[i] /\ EnterTerm(i, m.term)
  <2>1. currentTerm[i] < m.term
    BY <1>2, <1>5
  <2> QED BY <1>1, <1>5, <2>1, CalmConsume, CalmEnter DEF ElectionStep
<1>6. CASE state[i] = "LEADER" /\ BackUp(i, j) /\ UNCHANGED termVars
  <2>1. CASE CanBuildAppend(i, n)
    <3>1. n \in Nat \ {0}
      <4>1. nextIndex[i][j] \in Nat \ {0}
        BY <1>1 DEF TypeOK
      <4> QED BY <4>1 DEF OneBack
    <3>2. AppendRequestMsg(i, n) \in Message
      BY <1>1, <2>1, <3>1, AppendRequestMsgType
    <3>3. <<currentTerm[i], i>> \in elected'
      BY <1>1, <1>6 DEF ElectionInv, LeaderElected, history
    <3>4. AppendRequestMsg(i, n) \in Calm(i)
      BY <3>2, <3>3, CalmMessages
    <3>5. ConsumeAndSend(i, j, AppendRequestMsg(i, n))
      BY <1>6, <2>1 DEF BackUp
    <3>6. CalmNet
      BY <1>1, <3>4, <3>5, CalmAnswer
    <3> QED BY <1>1, <1>6, <3>6, CalmStay DEF ElectionStep
  <2>2. CASE ~CanBuildAppend(i, n)
    <3>1. Consume(i, j)
      BY <1>6, <2>2 DEF BackUp
    <3> QED BY <1>1, <1>6, <3>1, CalmConsume, CalmStay DEF ElectionStep
  <2> QED BY <2>1, <2>2
<1> QED BY <1>3, <1>4, <1>5, <1>6

LEMMA StepLose ==
  ASSUME ElectionInv, NEW i \in Server, NEW j \in Server, Lose(i, j)
  PROVE  ElectionStep
<1>1. net[i][j] # <<>> /\ Consume(j, i)
  BY DEF Lose, Consume
<1>2. CalmNet
  BY <1>1, CalmConsume
<1> QED BY <1>2, CalmStay DEF ElectionStep, Lose, tallyVars

LEMMA NextStep ==
  ASSUME ElectionInv, TypeOK', [Next]_vars
  PROVE  ElectionStep
<1>1. CASE UNCHANGED vars
  BY <1>1, CalmUnchanged, CalmStay DEF ElectionStep, vars, tallyVars, history
<1>2. CASE \E i \in Server : TimeoutLeader(i)
  BY <1>2, StepTimeoutLeader
<1>3. CASE \E i \in Server : TimeoutElection(i)
  BY <1>3 DEF ElectionStep
<1>4. CASE \E i \in Server, c \in Cmd : AppendLeader(i, c)
  BY <1>4, StepAppend
<1>5. CASE \E i \in Server, c \in Cmd : AppendFollowerOrCandidate(i, c)
  BY <1>5, StepAppend
<1>6. CASE \E i, j \in Server : Receive(i, j)
  BY <1>6, StepVoteRequest, StepVoteResponse, StepVoteResponseCandidate,
     StepAppendRequest, StepAppendResponse DEF Receive
<1>7. CASE \E i, j \in Server : Lose(i, j)
  BY <1>7, StepLose
<1> QED BY <1>1, <1>2, <1>3, <1>4, <1>5, <1>6, <1>7 DEF Next

-----------------------------------------------------------------------------
(* The invariant holds *)

LEMMA ElectionInit == Init => ElectionInv
<1> SUFFICES ASSUME Init PROVE ElectionInv
  OBVIOUS
<1>1. TypeOK
  BY InitType
<1>2. /\ ballots = {} /\ elected = {}
      /\ \A i \in Server : state[i] = "FOLLOWER" /\ votedFor[i] = Nobody
      /\ \A i, j \in Server : net[i][j] = <<>>
  BY DEF Init
<1>3. IsFiniteSet(ballots)
  BY <1>2, FS_EmptySet
<1>4. ChannelsInOrder
  BY <1>2, InEmpty DEF ChannelsInOrder
<1>5. RequestsReached /\ NotYetVoted /\ GrantsTrue
  BY <1>2, InEmpty DEF RequestsReached, NotYetVoted, GrantsTrue
<1>6. BallotsReached /\ VotedReached /\ OneVotePerTerm /\ ElectedByTally
  BY <1>2 DEF BallotsReached, VotedReached, OneVotePerTerm, ElectedByTally
<1>7. TallyArrived /\ LeaderElected
  BY <1>2 DEF TallyArrived, LeaderElected
<1> QED BY <1>1, <1>3, <1>4, <1>5, <1>6, <1>7 DEF ElectionInv

LEMMA ElectionNext == ElectionInv /\ [Next]_vars => ElectionInv'
<1> SUFFICES ASSUME ElectionInv, [Next]_vars PROVE ElectionInv'
  OBVIOUS
<1>1. TypeOK'
  BY NextType DEF ElectionInv
<1>2. ElectionStep
  BY <1>1, NextStep
<1>3. CASE CalmStep
  BY <1>1, <1>3, CalmInv
<1>4. CASE \E i \in Server : TimeoutElection(i)
  BY <1>1, <1>4, CampaignInv
<1>5. CASE \E i, j \in Server : FollowStep(i, j) \/ VoteStep(i, j) \/ CountStep(i, j)
  BY <1>1, <1>5, FollowInv, VoteInv, CountInv
<1> QED BY <1>2, <1>3, <1>4, <1>5 DEF ElectionStep

LEMMA ElectionInvariant == Spec => []ElectionInv
  BY ElectionInit, ElectionNext, PTL DEF Spec

-----------------------------------------------------------------------------
(* What it implies *)

\* No server votes for two candidates in one term, whatever messages are late
\* or lost, and although following a leader overwrites votedFor.
THEOREM VotesOnce == Spec => []OneVotePerTerm
<1>1. ElectionInv => OneVotePerTerm
  BY DEF ElectionInv
<1> QED BY <1>1, ElectionInvariant, PTL

LEMMA TallyImplied == ElectionInv => TallyHonest
<1> SUFFICES ASSUME ElectionInv, NEW i \in Server, state[i] # "FOLLOWER"
             PROVE  yesVotesNum[i] <= Cardinality(
                      {b \in ballots : b.term = currentTerm[i] /\ b.candidate = i})
  BY DEF TallyHonest
<1> DEFINE V == VotesFor(i, currentTerm[i])
<1>1. /\ yesVotesNum[i] <= Cardinality(Arrived(i)) /\ yesVotesNum[i] \in Nat
      /\ IsFiniteSet(ballots)
  BY DEF ElectionInv, TallyArrived, TypeOK
<1>2. V \subseteq ballots /\ Arrived(i) \subseteq V
  BY DEF VotesFor, Arrived
<1>3. IsFiniteSet(V) /\ IsFiniteSet(Arrived(i))
  BY <1>1, <1>2, FS_Subset
<1>4. /\ Cardinality(Arrived(i)) <= Cardinality(V)
      /\ Cardinality(V) \in Nat /\ Cardinality(Arrived(i)) \in Nat
  BY <1>2, <1>3, FS_Subset, FS_CardinalityType
<1>5. yesVotesNum[i] <= Cardinality(V)
  BY <1>1, <1>4
<1> QED BY <1>5 DEF VotesFor

\* A candidate, and the leader it becomes, never counts more votes than servers
\* voted for it in its term, although it does not look at who answers.
THEOREM TallyIsHonest == Spec => []TallyHonest
  BY TallyImplied, ElectionInvariant, PTL

\* The code's majority is more than half of a cluster of odd size.
LEMMA MajorityOfOdd ==
  ASSUME OddCluster
  PROVE  Majority \in Nat /\ 2 * Majority > Cardinality(Server)
<1>1. PICK k \in Nat : Cardinality(Server) = 2 * k + 1
  BY DEF OddCluster
<1>2. Majority = k + 1
  BY <1>1 DEF Majority
<1> QED BY <1>1, <1>2

\* Votes for two candidates of a term are votes of different servers.
LEMMA VotersApart ==
  ASSUME TypeOK, IsFiniteSet(ballots), OneVotePerTerm, NEW t, NEW c, NEW d, c # d
  PROVE  Cardinality(VotesFor(c, t)) + Cardinality(VotesFor(d, t))
           <= Cardinality(Server)
<1> DEFINE C == VotesFor(c, t)
           D == VotesFor(d, t)
           voter == [b \in C \cup D |-> b.voter]
<1>1. /\ C \subseteq ballots /\ D \subseteq ballots /\ C \cap D = {}
      /\ \A b \in C \cup D : b.term = t
  BY DEF VotesFor
<1>2. IsFiniteSet(C) /\ IsFiniteSet(D)
  BY <1>1, FS_Subset
<1>3. ballots \subseteq [term : Nat, voter : Server, candidate : Server]
  BY DEF TypeOK
<1>4. ASSUME NEW a \in C \cup D, NEW b \in C \cup D, a.voter = b.voter
      PROVE  a = b
  <2>1. a.term = b.term /\ a.candidate = b.candidate
    BY <1>1, <1>4 DEF OneVotePerTerm
  <2> QED BY <1>1, <1>3, <1>4, <2>1
<1>5. voter \in Injection(C \cup D, Server)
  <2>1. \A b \in C \cup D : b.voter \in Server
    BY <1>1, <1>3
  <2>2. voter \in [C \cup D -> Server]
    BY <2>1
  <2>3. \A a, b \in C \cup D : voter[a] = voter[b] => a = b
    BY <1>4
  <2> HIDE DEF voter, C, D
  <2> QED BY <2>2, <2>3 DEF Injection, IsInjective
<1>6. IsFiniteSet(C \cup D) /\ Cardinality(C \cup D) <= Cardinality(Server)
  <2>1. IsFiniteSet(Server)
    BY ServerAssumption
  <2>2. IsFiniteSet(C \cup D)
    BY <1>2, FS_Union
  <2> HIDE DEF voter, C, D
  <2> QED BY <1>5, <2>1, <2>2, FS_Injection
<1>7. Cardinality(C \cup D) = Cardinality(C) + Cardinality(D) - Cardinality({})
  BY <1>1, <1>2, FS_Union
<1>8. Cardinality(C) \in Nat /\ Cardinality(D) \in Nat /\ Cardinality({}) = 0
  BY <1>2, FS_CardinalityType, FS_EmptySet
<1> QED BY <1>6, <1>7, <1>8

LEMMA MajorityImplied ==
  ASSUME OddCluster
  PROVE  ElectionInv => ElectedByMajority
<1> SUFFICES ASSUME ElectionInv, NEW e \in elected
             PROVE  2 * Cardinality({b \in ballots : b.term = e[1] /\ b.candidate = e[2]})
                      > Cardinality(Server)
  BY DEF ElectedByMajority
<1> DEFINE V == VotesFor(e[2], e[1])
<1>1. Majority <= Cardinality(V) /\ V \subseteq ballots /\ IsFiniteSet(ballots)
  BY DEF ElectionInv, ElectedByTally, VotesFor
<1>2. Cardinality(V) \in Nat /\ Cardinality(Server) \in Nat
  BY <1>1, ServerAssumption, FS_Subset, FS_CardinalityType
<1>3. 2 * Cardinality(V) > Cardinality(Server)
  BY <1>1, <1>2, MajorityOfOdd
<1> QED BY <1>3 DEF VotesFor

LEMMA SafetyImplied ==
  ASSUME OddCluster
  PROVE  ElectionInv => ElectionSafety
<1> SUFFICES ASSUME ElectionInv, NEW a \in elected, NEW b \in elected,
                    a[1] = b[1], a[2] # b[2]
             PROVE  FALSE
  BY DEF ElectionSafety
<1> DEFINE A == VotesFor(a[2], a[1])
           B == VotesFor(b[2], a[1])
<1>1. /\ Majority <= Cardinality(A) /\ Majority <= Cardinality(B)
      /\ A \subseteq ballots /\ B \subseteq ballots
      /\ TypeOK /\ IsFiniteSet(ballots) /\ OneVotePerTerm
  BY DEF ElectionInv, ElectedByTally, VotesFor
<1>2. Cardinality(A) \in Nat /\ Cardinality(B) \in Nat /\ Cardinality(Server) \in Nat
  BY <1>1, ServerAssumption, FS_Subset, FS_CardinalityType
<1>3. Cardinality(A) + Cardinality(B) <= Cardinality(Server)
  BY <1>1, VotersApart
<1> HIDE DEF A, B
<1> QED BY <1>1, <1>2, <1>3, MajorityOfOdd

\* In a cluster of odd size a leader was voted for by more than half of the
\* servers: half of its peers, rounded down, plus itself.
THEOREM MajorityElects ==
  ASSUME OddCluster
  PROVE  Spec => []ElectedByMajority
  BY MajorityImplied, ElectionInvariant, PTL

\* In a cluster of odd size at most one server is ever elected in a term.
THEOREM OneLeaderPerTerm ==
  ASSUME OddCluster
  PROVE  Spec => []ElectionSafety
  BY SafetyImplied, ElectionInvariant, PTL

-----------------------------------------------------------------------------
(* What a step may not do *)

LEMMA FollowsElected ==
  ASSUME ElectionInv, NEW i \in Server, NEW j \in Server, FollowStep(i, j)
  PROVE  /\ i # j /\ currentTerm'[i] \in Nat /\ currentTerm[i] <= currentTerm'[i]
         /\ votedFor'[i] = j /\ <<currentTerm'[i], j>> \in elected
         /\ \A x \in Server \ {i} : /\ currentTerm'[x] = currentTerm[x]
                                    /\ votedFor'[x] = votedFor[x]
                                    /\ state'[x] = state[x]
<1> DEFINE m == Head(net[j][i])
<1>1. /\ TypeOK /\ ChannelsInOrder /\ RequestsReached
      /\ net[j][i] # <<>> /\ IsAppend(m) /\ currentTerm[i] <= m.term
      /\ FollowLeader(i, j, m)
  BY DEF ElectionInv, FollowStep
<1>2. m \in In(net[j][i])
  <2>1. net[j][i] \in Seq(Message)
    BY <1>1 DEF TypeOK
  <2> QED BY <1>1, <2>1, InTail
<1>3. m.term \in Nat /\ <<m.term, j>> \in elected
  BY <1>1, <1>2, InMessages DEF RequestsReached
<1>4. i # j
  BY <1>1, NotFromSelf
<1> QED BY <1>1, <1>3, <1>4 DEF FollowLeader, TypeOK

LEMMA LeaderKeepsStep ==
  ASSUME ElectionInv, ElectionSafety, ElectionStep, NEW i \in Server,
         state[i] = "LEADER", state'[i] # "LEADER"
  PROVE  currentTerm'[i] > currentTerm[i]
<1>1. TypeOK /\ \A x \in Server : currentTerm[x] \in Nat
  BY DEF ElectionInv, TypeOK
<1>2. CASE CalmStep
  BY <1>1, <1>2 DEF CalmStep, Keeps, Enters
<1>3. CASE \E x \in Server : TimeoutElection(x)
  BY <1>1, <1>3 DEF TimeoutElection, TypeOK
<1>4. CASE \E x, j \in Server : FollowStep(x, j)
  <2>1. PICK x \in Server, j \in Server : FollowStep(x, j)
    BY <1>4
  <2>2. /\ x # j /\ currentTerm'[x] \in Nat /\ currentTerm[x] <= currentTerm'[x]
        /\ <<currentTerm'[x], j>> \in elected
        /\ x # i => state'[i] = state[i]
    BY <2>1, FollowsElected
  <2>3. <<currentTerm[i], i>> \in elected
    BY DEF ElectionInv, LeaderElected
  <2>4. currentTerm'[x] # currentTerm[i]
    <3> SUFFICES ASSUME currentTerm'[x] = currentTerm[i]
                 PROVE  FALSE
      OBVIOUS
    <3>1. <<currentTerm[i], j>> \in elected
      BY <2>2
    <3>2. j = i
      BY <2>3, <3>1 DEF ElectionSafety
    <3> QED BY <2>2, <3>2
  <2> QED BY <1>1, <2>2, <2>4
<1>5. CASE \E x, j \in Server : VoteStep(x, j)
  <2>1. PICK x \in Server, j \in Server : VoteStep(x, j)
    BY <1>5
  <2>2. x = i /\ currentTerm'[i] = Head(net[j][i]).term
    BY <1>1, <2>1 DEF VoteStep, TypeOK
  <2>3. /\ Head(net[j][i]).term \in Nat
        /\ currentTerm[i] <= Head(net[j][i]).term
    BY <2>1, <2>2, VoteIsNew DEF VoteStep
  <2>4. currentTerm[i] # Head(net[j][i]).term
    BY <2>1, <2>2 DEF VoteStep
  <2> QED BY <1>1, <2>2, <2>3, <2>4
<1>6. CASE \E x, j \in Server : CountStep(x, j)
  BY <1>1, <1>6 DEF CountStep, TypeOK
<1> QED BY <1>2, <1>3, <1>4, <1>5, <1>6 DEF ElectionStep

LEMMA VoteFixedStep ==
  ASSUME ElectionInv, TypeOK', ElectionStep, NEW i \in Server
  PROVE  /\ currentTerm'[i] >= currentTerm[i]
         /\ currentTerm'[i] = currentTerm[i] /\ votedFor'[i] # votedFor[i] =>
              \/ votedFor[i] = Nobody
              \/ <<currentTerm[i], votedFor'[i]>> \in elected
<1>1. TypeOK /\ \A x \in Server : currentTerm[x] \in Nat /\ currentTerm'[x] \in Nat
  BY DEF ElectionInv, TypeOK
<1>2. CASE CalmStep
  <2>1. Keeps(i) \/ Enters(i)
    BY <1>2 DEF CalmStep
  <2>2. currentTerm[i] \in Nat /\ currentTerm'[i] >= currentTerm[i]
    BY <1>1, <2>1 DEF Keeps, Enters
  <2> QED BY <1>1, <2>1, <2>2 DEF Keeps, Enters
<1>3. CASE \E x \in Server : TimeoutElection(x)
  <2>1. PICK x \in Server : TimeoutElection(x)
    BY <1>3
  <2>2. /\ currentTerm'[i] = IF x = i THEN currentTerm[i] + 1 ELSE currentTerm[i]
        /\ x # i => votedFor'[i] = votedFor[i]
    BY <1>1, <2>1 DEF TimeoutElection, TypeOK
  <2> QED BY <1>1, <2>2
<1>4. CASE \E x, j \in Server : FollowStep(x, j)
  <2>1. PICK x \in Server, j \in Server : FollowStep(x, j)
    BY <1>4
  <2>2. /\ x = i => /\ currentTerm[i] <= currentTerm'[i]
                    /\ votedFor'[i] = j /\ <<currentTerm'[i], j>> \in elected
        /\ x # i => currentTerm'[i] = currentTerm[i] /\ votedFor'[i] = votedFor[i]
    BY <2>1, FollowsElected
  <2> QED BY <1>1, <2>2
<1>5. CASE \E x, j \in Server : VoteStep(x, j)
  <2>1. PICK x \in Server, j \in Server : VoteStep(x, j)
    BY <1>5
  <2>2. x # i => currentTerm'[i] = currentTerm[i] /\ votedFor'[i] = votedFor[i]
    BY <1>1, <2>1 DEF VoteStep, TypeOK
  <2>3. CASE x = i
    <3>1. /\ Head(net[j][i]).term \in Nat
          /\ currentTerm[i] <= Head(net[j][i]).term
      BY <2>1, <2>3, VoteIsNew DEF VoteStep
    <3>2. /\ currentTerm'[i] = Head(net[j][i]).term /\ votedFor'[i] = j
          /\ VoteOpen(i, j, Head(net[j][i]))
      BY <1>1, <2>1, <2>3 DEF VoteStep, TypeOK
    <3> QED BY <1>1, <3>1, <3>2 DEF VoteOpen
  <2> QED BY <1>1, <2>2, <2>3
<1>6. CASE \E x, j \in Server : CountStep(x, j)
  BY <1>1, <1>6 DEF CountStep
<1> QED BY <1>2, <1>3, <1>4, <1>5, <1>6 DEF ElectionStep

\* In a cluster of odd size no message of its own term makes a leader step
\* down, although AppendEntriesRequestLeaderOrCandidate would let it.
THEOREM LeaderStays ==
  ASSUME OddCluster
  PROVE  Spec => LeaderKeepsTerm
<1>1. ElectionInv /\ ElectionInv' /\ [Next]_vars =>
        [\A i \in Server : state[i] = "LEADER" /\ state'[i] # "LEADER" =>
           currentTerm'[i] > currentTerm[i]]_vars
  BY SafetyImplied, NextStep, LeaderKeepsStep DEF ElectionInv
<1> QED BY <1>1, ElectionInvariant, PTL DEF Spec, LeaderKeepsTerm

\* A server never goes back to an earlier term, and within a term its votedFor
\* changes only from Nobody or to the leader elected in that term.
THEOREM VoteStays == Spec => VoteFixed
<1>1. ElectionInv /\ ElectionInv' /\ [Next]_vars =>
        [\A i \in Server :
           /\ currentTerm'[i] >= currentTerm[i]
           /\ currentTerm'[i] = currentTerm[i] /\ votedFor'[i] # votedFor[i] =>
                \/ votedFor[i] = Nobody
                \/ <<currentTerm[i], votedFor'[i]>> \in elected]_vars
  <2>1. ElectionInv' => TypeOK'
    BY DEF ElectionInv
  <2> QED BY <2>1, NextStep, VoteFixedStep
<1> QED BY <1>1, ElectionInvariant, PTL DEF Spec, VoteFixed

-----------------------------------------------------------------------------
(* Raft's elections are those of Election *)

Majorities == {Q \in SUBSET Server : 2 * Cardinality(Q) > Cardinality(Server)}

Voting == INSTANCE Election WITH Term <- Nat, Quorum <- Majorities

\* A server casts one vote a term: as many voters as votes.
LEMMA VotersCount ==
  ASSUME TypeOK, IsFiniteSet(ballots), OneVotePerTerm, NEW c, NEW t
  PROVE  /\ Voting!Voters(c, t) \subseteq Server
         /\ Cardinality(Voting!Voters(c, t)) = Cardinality(VotesFor(c, t))
<1> DEFINE V == VotesFor(c, t)
           W == {b.voter : b \in V}
           voter == [b \in V |-> b.voter]
<1>1. /\ V \subseteq ballots
      /\ \A b \in V : b.term = t /\ b.candidate = c
      /\ Voting!Voters(c, t) = W
  BY DEF VotesFor, Voting!Voters
<1>2. ballots \subseteq [term : Nat, voter : Server, candidate : Server]
  BY DEF TypeOK
<1>3. W \subseteq Server
  BY <1>1, <1>2
<1>4. \A a, b \in V : a.voter = b.voter => a = b
  BY <1>1, <1>2
<1>5. IsFiniteSet(V)
  BY <1>1, FS_Subset
<1>6. voter \in Injection(V, W) /\ voter \in Surjection(V, W)
  <2>1. voter \in [V -> W] /\ \A w \in W : \E b \in V : voter[b] = w
    OBVIOUS
  <2>2. \A a, b \in V : voter[a] = voter[b] => a = b
    BY <1>4
  <2> HIDE DEF voter, V, W
  <2> QED BY <2>1, <2>2 DEF Injection, IsInjective, Surjection
<1> HIDE DEF voter, V, W
<1>7. Cardinality(W) = Cardinality(V)
  BY <1>5, <1>6, FS_Surjection
<1> QED BY <1>1, <1>3, <1>7 DEF V

LEMMA VotingStep ==
  ASSUME OddCluster, ElectionInv, ElectionInv', ElectionStep
  PROVE  [Voting!Next]_Voting!vars
<1>1. TypeOK /\ TypeOK' /\ \A x \in Server : currentTerm[x] \in Nat
  BY DEF ElectionInv, TypeOK
<1>2. CASE CalmStep
  BY <1>2 DEF CalmStep, Voting!vars
<1>3. CASE \E i \in Server : TimeoutElection(i)
  <2>1. PICK i \in Server : TimeoutElection(i)
    BY <1>3
  <2> DEFINE t == currentTerm[i] + 1
  <2>2. currentTerm'[i] = t /\ t \in Nat
    BY <1>1, <2>1 DEF TimeoutElection, TypeOK
  <2>3. ASSUME NEW b \in ballots, b.voter = i
        PROVE  b.term < t
    <3>1. b.term \in Nat
      BY <1>1 DEF TypeOK
    <3>2. b.term <= currentTerm[i]
      BY <2>3 DEF ElectionInv, BallotsReached
    <3> QED BY <1>1, <3>1, <3>2
  <2>4. Voting!Vote(i, i, t)
    BY <2>1, <2>2, <2>3 DEF Voting!Vote, TimeoutElection
  <2> QED BY <2>2, <2>4 DEF Voting!Next
<1>4. CASE \E i, j \in Server : FollowStep(i, j)
  BY <1>4 DEF FollowStep, Voting!vars
<1>5. CASE \E i, j \in Server : VoteStep(i, j)
  <2>1. PICK i \in Server, j \in Server : VoteStep(i, j)
    BY <1>5
  <2> DEFINE t == Head(net[j][i]).term
  <2>2. t \in Nat /\ \A b \in ballots : b.voter = i => b.term < t
    BY <2>1, VoteIsNew DEF VoteStep
  <2>3. Voting!Vote(i, j, t)
    BY <2>1, <2>2 DEF Voting!Vote, VoteStep, Ballot
  <2> QED BY <2>2, <2>3 DEF Voting!Next
<1>6. CASE \E i, j \in Server : CountStep(i, j)
  <2>1. PICK i \in Server, j \in Server : CountStep(i, j)
    BY <1>6
  <2>2. CASE UNCHANGED elected
    BY <2>1, <2>2 DEF CountStep, Voting!vars
  <2>3. CASE elected' = elected \cup {<<currentTerm[i], i>>}
    <3> DEFINE t == currentTerm[i]
    <3>1. t \in Nat /\ UNCHANGED ballots
      BY <1>1, <2>1 DEF CountStep
    <3>2. 2 * Cardinality(VotesFor(i, t)) > Cardinality(Server)
      <4>1. \A e \in elected' : Majority <= Cardinality(VotesFor(e[2], e[1])')
        BY DEF ElectionInv, ElectedByTally, Majority
      <4>2. \A c, u : VotesFor(c, u)' = VotesFor(c, u)
        BY <3>1 DEF VotesFor
      <4>3. \A c, u : <<u, c>> \in elected' => Majority <= Cardinality(VotesFor(c, u))
        BY <4>1, <4>2
      <4>4. Majority <= Cardinality(VotesFor(i, t))
        BY <2>3, <4>3
      <4>5. VotesFor(i, t) \subseteq ballots /\ IsFiniteSet(ballots)
        BY DEF ElectionInv, VotesFor
      <4>6. Cardinality(VotesFor(i, t)) \in Nat /\ Cardinality(Server) \in Nat
        BY <4>5, ServerAssumption, FS_Subset, FS_CardinalityType
      <4> QED BY <4>4, <4>6, MajorityOfOdd
    <3>3. Voting!Voters(i, t) \in Majorities
      BY <3>2, VotersCount DEF Majorities, ElectionInv
    <3>4. Voting!Elect(i, t)
      BY <2>3, <3>1, <3>3 DEF Voting!Elect
    <3> QED BY <3>1, <3>4 DEF Voting!Next
  <2> QED BY <2>1, <2>2, <2>3 DEF CountStep
<1> QED BY <1>2, <1>3, <1>4, <1>5, <1>6 DEF ElectionStep

\* In a cluster of odd size the handlers, with their messages, counts and
\* terms, do no more than servers that vote in ever later terms and elect
\* whoever has the votes of more than half of them.
THEOREM RaftElects ==
  ASSUME OddCluster
  PROVE  Spec => Voting!Spec
<1>1. Init => Voting!Init
  BY DEF Init, Voting!Init
<1>2. ElectionInv /\ ElectionInv' /\ [Next]_vars => [Voting!Next]_Voting!vars
  BY NextStep, VotingStep DEF ElectionInv
<1> QED BY <1>1, <1>2, ElectionInvariant, PTL DEF Spec, Voting!Spec

-----------------------------------------------------------------------------
(* Logs: the inductive invariant *)

\* What the leaders of all terms have had: T[t] is the log of the leader of
\* term t, in the end of its reign if that is over, and empty if t has none.
TermLogs == [Nat -> Seq(Entry)]

\* Logs l and k are the same up to index n.
SameUpTo(l, k, n) ==
  n <= Len(l) /\ n <= Len(k) /\ \A a \in 1..n : l[a] = k[a]

\* Up to each of its entries, l is what the leader of the entry's term had.
FromLeaders(T, l) == \A n \in 1..Len(l) : SameUpTo(l, T[l[n].term], n)

TermsUpTo(l, t) == \A n \in 1..Len(l) : l[n].term <= t

\* The index of the last entry of append request m.
End(m) == m.prevLogIndex + Len(m.entries)

\* The entries of append request m, and what it says of the one before, are l's.
PieceOf(m, l) ==
  /\ End(m) <= Len(l)
  /\ m.prevLogTerm = TermAt(l, m.prevLogIndex)
  /\ \A a \in 1..Len(m.entries) : m.entries[a] = l[m.prevLogIndex + a]

\* Only a leader puts entries of its term into a log.
TermsLed(T) ==
  \A t \in Nat : T[t] # <<>> => \E i \in Server : <<t, i>> \in elected

TermLogsMade(T) == \A t \in Nat : FromLeaders(T, T[t]) /\ TermsUpTo(T[t], t)

LogsMade(T) ==
  \A i \in Server : FromLeaders(T, log[i]) /\ TermsUpTo(log[i], currentTerm[i])

LeadersHave(T) ==
  \A i \in Server : state[i] = "LEADER" => log[i] = T[currentTerm[i]]

RequestsMade(T) ==
  \A i, j \in Server : \A m \in In(net[i][j]) :
    IsAppend(m) => PieceOf(m, T[m.term])

\* A reign ends with its term, and a server does not lead a term again.
ReignsOver ==
  \A e \in elected : /\ e[1] <= currentTerm[e[2]]
                     /\ e[1] = currentTerm[e[2]] => state[e[2]] = "LEADER"

LogInv(T) ==
  /\ TermsLed(T) /\ TermLogsMade(T)
  /\ LogsMade(T) /\ LeadersHave(T) /\ RequestsMade(T)
  /\ ReignsOver

-----------------------------------------------------------------------------
(* Logs and the pieces of them in append requests *)

\* Logs with the same leaders' entries that agree in the term at an index are
\* the same up to there.
LEMMA SameTermSameLog ==
  ASSUME NEW T, NEW l \in Seq(Entry), NEW k \in Seq(Entry),
         FromLeaders(T, l), FromLeaders(T, k),
         NEW n \in 1..Len(l), n <= Len(k), l[n].term = k[n].term
  PROVE  SameUpTo(l, k, n)
<1>1. SameUpTo(l, T[l[n].term], n) /\ SameUpTo(k, T[l[n].term], n)
  <2>1. n \in 1..Len(k)
    BY LenProperties
  <2> QED BY <2>1 DEF FromLeaders
<1> QED BY <1>1 DEF SameUpTo

\* A beginning of a leader's log has the leaders' entries, of its terms.
LEMMA PrefixMade ==
  ASSUME NEW T \in TermLogs, TermLogsMade(T), NEW t \in Nat,
         NEW l \in Seq(Entry), SameUpTo(l, T[t], Len(l))
  PROVE  FromLeaders(T, l) /\ TermsUpTo(l, t)
<1>1. T[t] \in Seq(Entry) /\ FromLeaders(T, T[t]) /\ TermsUpTo(T[t], t)
  BY DEF TermLogs, TermLogsMade
<1>2. Len(l) \in Nat /\ Len(T[t]) \in Nat /\ Len(l) <= Len(T[t])
  BY <1>1, LenProperties DEF SameUpTo
<1>3. ASSUME NEW n \in 1..Len(l)
      PROVE  SameUpTo(l, T[l[n].term], n) /\ l[n].term <= t
  <2>1. n \in 1..Len(T[t]) /\ l[n] = T[t][n]
    BY <1>2 DEF SameUpTo
  <2>2. SameUpTo(T[t], T[l[n].term], n) /\ l[n].term <= t
    BY <1>1, <2>1 DEF FromLeaders, TermsUpTo
  <2> QED BY <1>2, <2>2 DEF SameUpTo
<1> QED BY <1>3 DEF FromLeaders, TermsUpTo

\* The terms of such a log do not fall from one index to the next.
LEMMA TermsRise ==
  ASSUME NEW T \in TermLogs, TermLogsMade(T), NEW l \in Seq(Entry),
         FromLeaders(T, l), NEW n \in 1..Len(l), NEW a \in 1..n
  PROVE  l[a].term <= l[n].term
<1>1. l[n] \in Entry /\ l[n].term \in Nat
  <2>1. l[n] \in Entry
    BY ElementOfSeq
  <2> QED BY <2>1 DEF Entry
<1>2. SameUpTo(l, T[l[n].term], n)
  BY DEF FromLeaders
<1>3. l[a] = T[l[n].term][a] /\ a \in 1..Len(T[l[n].term])
  <2>1. T[l[n].term] \in Seq(Entry)
    BY <1>1 DEF TermLogs
  <2> QED BY <1>2, <2>1, LenProperties DEF SameUpTo
<1>4. TermsUpTo(T[l[n].term], l[n].term)
  BY <1>1 DEF TermLogsMade
<1> QED BY <1>3, <1>4 DEF TermsUpTo

\* What AppendEntriesRequestFollower keeps of a request's range agrees with it.
LEMMA KeptAgrees ==
  ASSUME NEW l \in Seq(Entry), NEW m \in AppendEntriesRequestEvent,
         PrevMatches(l, m)
  PROVE  AgreesUpTo(l, m, Kept(l, m) - m.prevLogIndex)
<1> DEFINE L == Len(m.entries)
           S == {n \in 1..L : AgreesUpTo(l, m, n)}
           c == Cardinality(S)
<1>1. L \in Nat /\ m.prevLogIndex \in Nat
  BY LenProperties DEF AppendEntriesRequestEvent
<1>2. IsFiniteSet(S) /\ c \in Nat
  BY <1>1, IntervalCardinality, FS_Subset, FS_CardinalityType
<1>3. \A n \in S : \A k \in 1..n : k \in S
  BY <1>1 DEF AgreesUpTo
<1>4. Kept(l, m) - m.prevLogIndex = c
  BY <1>1, <1>2 DEF Kept
<1>5. CASE c = 0
  BY <1>4, <1>5 DEF AgreesUpTo
<1>6. CASE c # 0
  <2>1. SUFFICES ASSUME c \notin S PROVE FALSE
    BY <1>4
  <2>2. c - 1 \in Nat
    BY <1>2, <1>6
  <2>3. ASSUME NEW n \in S
        PROVE  n \in 1..(c - 1)
    <3>1. n \in Nat /\ 1 <= n /\ (c <= n => c \in 1..n)
      BY <1>1, <1>2, <1>6
    <3>2. ~(c <= n)
      BY <1>3, <2>1, <3>1
    <3> QED BY <1>2, <3>1, <3>2
  <2> HIDE DEF S
  <2>4. c <= c - 1
    BY <2>2, <2>3, IntervalCardinality, FS_Subset
  <2> QED BY <1>2, <2>4
<1> QED BY <1>5, <1>6

\* The new log ends where the request does; up to where the old one is kept it
\* is that one, and from there on the request.
LEMMA NewLogEntries ==
  ASSUME NEW l \in Seq(Entry), NEW m \in AppendEntriesRequestEvent,
         PrevMatches(l, m)
  PROVE  /\ Len(NewLog(l, m)) = End(m)
         /\ \A a \in 1..End(m) :
              NewLog(l, m)[a] = IF a <= Kept(l, m) THEN l[a]
                                ELSE m.entries[a - m.prevLogIndex]
<1> DEFINE k == Kept(l, m)
           p == m.prevLogIndex
           L == Len(m.entries)
           b == SubSeq(l, 1, k)
           e == Added(l, m)
<1>1. /\ k \in Nat /\ p <= k /\ k <= p + L /\ k <= Len(l)
      /\ L \in Nat /\ p \in Nat /\ Len(l) \in Nat /\ m.entries \in Seq(Entry)
  BY KeptBounds, LenProperties DEF AppendEntriesRequestEvent
<1>2. /\ b \in Seq(Entry) /\ Len(b) = k
      /\ \A a \in 1..k : b[a] = l[a]
  <2>1. \A a \in 1..k : l[a] \in Entry
    BY <1>1, ElementOfSeq
  <2>2. /\ b \in Seq(Entry)
        /\ Len(b) = IF 1 <= k THEN k - 1 + 1 ELSE 0
        /\ \A a \in 1..(k - 1 + 1) : b[a] = l[1 + a - 1]
    BY <1>1, <2>1, SubSeqProperties
  <2> QED BY <1>1, <2>2
<1>3. /\ e \in Seq(Entry) /\ Len(e) = p + L - k
      /\ \A a \in 1..(p + L - k) : e[a] = m.entries[k - p + a]
  <2>1. \A a \in (k - p + 1)..L : m.entries[a] \in Entry
    BY <1>1, ElementOfSeq
  <2>2. e = SubSeq(m.entries, k - p + 1, L)
    BY DEF Added
  <2> HIDE DEF e, k, p, L
  <2>3. /\ e \in Seq(Entry)
        /\ Len(e) = IF k - p + 1 <= L THEN L - (k - p + 1) + 1 ELSE 0
        /\ \A a \in 1..(L - (k - p + 1) + 1) :
             e[a] = m.entries[(k - p + 1) + a - 1]
    BY <1>1, <2>1, <2>2, SubSeqProperties
  <2> QED BY <1>1, <2>3
<1>4. NewLog(l, m) = b \o e /\ End(m) = p + L
  BY DEF NewLog, End
<1> HIDE DEF b, e, k, p, L
<1>5. /\ Len(b \o e) = Len(b) + Len(e)
      /\ \A a \in 1..(Len(b) + Len(e)) :
           (b \o e)[a] = IF a <= Len(b) THEN b[a] ELSE e[a - Len(b)]
  BY <1>2, <1>3, ConcatProperties
<1>6. Len(b) + Len(e) = p + L
  BY <1>1, <1>2, <1>3
<1>7. ASSUME NEW a \in 1..(p + L)
      PROVE  (b \o e)[a] = IF a <= k THEN l[a] ELSE m.entries[a - p]
  <2>1. CASE a <= k
    BY <1>1, <1>2, <1>5, <1>6, <2>1
  <2>2. CASE ~(a <= k)
    <3>1. a - k \in 1..(p + L - k) /\ k - p + (a - k) = a - p
      BY <1>1, <2>2
    <3> QED BY <1>1, <1>2, <1>3, <1>5, <1>6, <2>2, <3>1
  <2> QED BY <2>1, <2>2
<1> QED BY <1>4, <1>5, <1>6, <1>7 DEF k, p

\* So a log of leaders' entries that takes in a piece of a leader's log becomes
\* the beginning of that log.
LEMMA TakenOver ==
  ASSUME NEW T \in TermLogs, TermLogsMade(T), NEW l \in Seq(Entry),
         FromLeaders(T, l), NEW m \in AppendEntriesRequestEvent,
         PieceOf(m, T[m.term]), PrevMatches(l, m)
  PROVE  /\ Len(NewLog(l, m)) = End(m)
         /\ SameUpTo(NewLog(l, m), T[m.term], End(m))
<1> DEFINE k == Kept(l, m)
           p == m.prevLogIndex
           L == Len(m.entries)
           t == T[m.term]
<1>1. /\ k \in Nat /\ p <= k /\ k <= p + L /\ k <= Len(l)
      /\ L \in Nat /\ p \in Nat /\ Len(l) \in Nat
      /\ t \in Seq(Entry) /\ Len(t) \in Nat /\ FromLeaders(T, t)
      /\ p + L <= Len(t)
  BY KeptBounds, LenProperties
     DEF AppendEntriesRequestEvent, TermLogs, TermLogsMade, PieceOf, End
<1>2. SameUpTo(l, t, k)
  <2>1. CASE k = 0
    BY <1>1, <2>1 DEF SameUpTo
  <2>2. CASE k # 0
    <3>1. l[k].term = t[k].term
      <4>1. CASE k = p
        BY <1>1, <2>2, <4>1 DEF PrevMatches, PieceOf, TermAt
      <4>2. CASE k # p
        <5>1. k - p \in 1..(k - p) /\ k - p \in 1..L /\ p + (k - p) = k
          BY <1>1, <4>2
        <5>2. l[k].term = m.entries[k - p].term
          BY <5>1, KeptAgrees DEF AgreesUpTo
        <5>3. m.entries[k - p] = t[k]
          BY <5>1 DEF PieceOf
        <5> QED BY <5>2, <5>3
      <4> QED BY <4>1, <4>2
    <3>2. k \in 1..Len(l) /\ k <= Len(t)
      BY <1>1, <2>2
    <3> QED BY <1>1, <3>1, <3>2, SameTermSameLog
  <2> QED BY <2>1, <2>2
<1>3. ASSUME NEW a \in 1..(p + L)
      PROVE  NewLog(l, m)[a] = t[a]
  <2>1. NewLog(l, m)[a] = IF a <= k THEN l[a] ELSE m.entries[a - p]
    BY NewLogEntries DEF End
  <2>2. CASE a <= k
    <3>1. a \in 1..k
      BY <1>1, <2>2
    <3> QED BY <1>2, <2>1, <2>2, <3>1 DEF SameUpTo
  <2>3. CASE ~(a <= k)
    <3>1. a - p \in 1..L /\ p + (a - p) = a
      BY <1>1, <2>3
    <3> QED BY <2>1, <2>3, <3>1 DEF PieceOf
  <2> QED BY <2>2, <2>3
<1> QED BY <1>1, <1>3, NewLogEntries DEF SameUpTo, End

\* Logs of leaders only grow while those leaders lead.
Grows(T, U) == \A t \in Nat : SameUpTo(U[t], T[t], Len(T[t]))

LEMMA StillMade ==
  ASSUME NEW T \in TermLogs, NEW U \in TermLogs, Grows(T, U),
         NEW l \in Seq(Entry), FromLeaders(T, l)
  PROVE  FromLeaders(U, l)
<1> SUFFICES ASSUME NEW n \in 1..Len(l)
             PROVE  SameUpTo(l, U[l[n].term], n)
  BY DEF FromLeaders
<1> DEFINE t == l[n].term
<1>1. t \in Nat
  <2>1. l[n] \in Entry
    BY ElementOfSeq
  <2> QED BY <2>1 DEF Entry
<1>2. Len(T[t]) \in Nat /\ Len(U[t]) \in Nat
  BY <1>1, LenProperties DEF TermLogs
<1>3. SameUpTo(l, T[t], n) /\ SameUpTo(U[t], T[t], Len(T[t]))
  BY <1>1 DEF FromLeaders, Grows
<1>4. SUFFICES SameUpTo(l, U[t], n)
  OBVIOUS
<1> HIDE DEF t
<1> QED BY <1>2, <1>3 DEF SameUpTo

LEMMA StillPiece ==
  ASSUME NEW k \in Seq(Entry), NEW l \in Seq(Entry), SameUpTo(l, k, Len(k)),
         NEW m \in AppendEntriesRequestEvent, PieceOf(m, k)
  PROVE  PieceOf(m, l)
<1>1. /\ Len(k) \in Nat /\ Len(l) \in Nat /\ Len(k) <= Len(l)
      /\ m.prevLogIndex \in Nat /\ Len(m.entries) \in Nat
      /\ m.prevLogIndex + Len(m.entries) <= Len(k)
  BY LenProperties DEF SameUpTo, AppendEntriesRequestEvent, PieceOf, End
<1>2. m.prevLogTerm = TermAt(l, m.prevLogIndex)
  BY <1>1 DEF PieceOf, SameUpTo, TermAt
<1>3. ASSUME NEW a \in 1..Len(m.entries)
      PROVE  m.entries[a] = l[m.prevLogIndex + a]
  <2>1. m.prevLogIndex + a \in 1..Len(k)
    BY <1>1
  <2> QED BY <2>1 DEF PieceOf, SameUpTo
<1> QED BY <1>1, <1>2, <1>3 DEF PieceOf, End

\* What a leader sends is a piece of its log, to the end.
LEMMA RequestPiece ==
  ASSUME TypeOK, NEW i \in Server, NEW n \in 1..(Len(log[i]) + 1)
  PROVE  /\ PieceOf(AppendRequestMsg(i, n), log[i])
         /\ End(AppendRequestMsg(i, n)) = Len(log[i])
         /\ AppendRequestMsg(i, n).term = currentTerm[i]
         /\ IsAppend(AppendRequestMsg(i, n))
         /\ AppendRequestMsg(i, n) \in Message
<1> DEFINE m == AppendRequestMsg(i, n)
           l == log[i]
<1>1. /\ l \in Seq(Entry) /\ Len(l) \in Nat
      /\ n \in Nat \ {0} /\ n <= Len(l) + 1
  BY LenProperties DEF TypeOK
<1>2. \A k \in n..Len(l) : l[k] \in Entry
  BY <1>1, ElementOfSeq
<1>3. /\ Len(SubSeq(l, n, Len(l))) = IF n <= Len(l) THEN Len(l) - n + 1 ELSE 0
      /\ \A a \in 1..(Len(l) - n + 1) : SubSeq(l, n, Len(l))[a] = l[n + a - 1]
  BY <1>1, <1>2, SubSeqProperties
<1>4. /\ m.prevLogIndex = n - 1 /\ m.prevLogTerm = TermAt(l, n - 1)
      /\ m.entries = SubSeq(l, n, Len(l)) /\ m.term = currentTerm[i]
      /\ m.type = "AppendEntriesRequest"
  BY DEF AppendRequestMsg
<1>5. m \in Message
  <2>1. n \in Nat \ {0} /\ CanBuildAppend(i, n)
    BY <1>1 DEF CanBuildAppend
  <2> QED BY <2>1, AppendRequestMsgType
<1> HIDE DEF m, l
<1>6. Len(m.entries) = Len(l) - n + 1 /\ End(m) = Len(l)
  <2>1. Len(m.entries) = Len(l) - n + 1
    <3>1. CASE n <= Len(l)
      BY <1>3, <1>4, <3>1
    <3>2. CASE ~(n <= Len(l))
      <4>1. n = Len(l) + 1
        BY <1>1, <3>2
      <4> QED BY <1>1, <1>3, <1>4, <3>2, <4>1
    <3> QED BY <3>1, <3>2
  <2> QED BY <1>1, <1>4, <2>1 DEF End
<1>7. ASSUME NEW a \in 1..Len(m.entries)
      PROVE  m.entries[a] = l[m.prevLogIndex + a]
  <2>1. n + a - 1 = m.prevLogIndex + a
    BY <1>1, <1>4, <1>6
  <2> QED BY <1>3, <1>4, <1>6, <2>1
<1> QED BY <1>1, <1>4, <1>5, <1>6, <1>7 DEF PieceOf, IsAppend, m, l

-----------------------------------------------------------------------------
(* What a step does to terms, logs, commits and channels *)

IsAccept(m) == m.type = "AppendEntriesResponse" /\ m.success

\* What x may send in a step in which it does not follow a leader: what a leader
\* has, what a candidate has as it begins to be one, votes and refusals.
Sent(x) ==
  {m \in Message :
     /\ IsAppend(m) => /\ state'[x] = "LEADER" /\ currentTerm'[x] = currentTerm[x]
                       /\ \E n \in 1..(Len(log[x]) + 1) : m = AppendRequestMsg(x, n)
     /\ IsVoteRequest(m) => /\ currentTerm[x] < currentTerm'[x]
                            /\ m = VoteRequestMsg(x)
     /\ ~IsAccept(m)}

SentNet == \A x, y \in Server : Moved(net[x][y], net'[x][y], Sent(x))

\* Server x stays what it is, or becomes a follower.
Settles(x) ==
  \/ state'[x] = state[x] /\ currentTerm'[x] = currentTerm[x]
  \/ state'[x] = "FOLLOWER" /\ currentTerm[x] <= currentTerm'[x]

\* x puts nothing in CommitCh, or gives a command back.
Redirects(x) ==
  \/ commitCh'[x] = commitCh[x]
  \/ \E ci \in CommitInfo : ci.err /\ commitCh'[x] = Append(commitCh[x], ci)

\* A step in which nothing is logged, committed, voted or won.
IdleStep ==
  /\ SentNet
  /\ UNCHANGED <<log, logCommitIndex, matchIndex, ballots, elected>>
  /\ \A x \in Server : Settles(x) /\ Redirects(x)

CampaignStep(i) ==
  /\ TimeoutElection(i) /\ SentNet
  /\ UNCHANGED <<log, logCommitIndex, matchIndex, commitCh, elected>>

GrantStep(i, j) ==
  /\ VoteStep(i, j) /\ SentNet /\ UpToDate(log[i], Head(net[j][i]))
  /\ UNCHANGED <<log, logCommitIndex, matchIndex, commitCh, elected>>

LogStep(i) ==
  /\ SentNet /\ state[i] = "LEADER"
  /\ \E c \in Cmd : log' = [log EXCEPT ![i] =
                              Append(@, [term |-> currentTerm[i], cmd |-> c])]
  /\ UNCHANGED <<termVars, logCommitIndex, matchIndex, commitCh, net,
                 ballots, elected>>

LeadStep(i) ==
  /\ SentNet /\ state[i] = "CANDIDATE"
  /\ state' = [state EXCEPT ![i] = "LEADER"]
  /\ elected' = elected \cup {<<currentTerm[i], i>>}
  /\ matchIndex' = [matchIndex EXCEPT ![i] = [p \in Server |-> 0]]
  /\ UNCHANGED <<currentTerm, log, logCommitIndex, commitCh, ballots>>

\* i learns that j accepts what m says, and may commit.
MatchStep(i, j) ==
  LET m == Head(net[j][i])
      match == [matchIndex[i] EXCEPT ![j] = m.index]
  IN /\ SentNet /\ state[i] = "LEADER" /\ i # j
     /\ net[j][i] # <<>> /\ IsAccept(m)
     /\ matchIndex' = [matchIndex EXCEPT ![i] = match]
     /\ ~BeyondLog(i, match)
     /\ AdvanceCommit(i, match)
     /\ UNCHANGED <<termVars, log, ballots, elected>>

\* i takes over what the append request of j has, or refuses it, and answers
\* if it was a follower.
TakeStep(i, j) ==
  LET m == Head(net[j][i]) IN
  /\ i # j /\ FollowStep(i, j) /\ AppendEntries(i, m)
  /\ \A x, y \in Server : ~(x = i /\ y = j) =>
       net'[x][y] = IF x = j /\ y = i THEN Tail(net[x][y]) ELSE net[x][y]
  /\ \/ net'[i][j] = net[i][j]
     \/ \E a \in Message :
          /\ net'[i][j] = Append(net[i][j], a)
          /\ a.type = "AppendEntriesResponse"
          /\ a.success => /\ PrevMatches(log[i], m)
                          /\ a.term = m.term /\ a.index = Len(log'[i])
  /\ \A x \in Server : commitCh'[x] = commitCh[x] \/
       /\ x = i /\ PrevMatches(log[i], m)
       /\ commitCh'[i] = commitCh[i] \o
            CommitInfos(log'[i], logCommitIndex[i], logCommitIndex'[i])
  /\ UNCHANGED <<matchIndex, ballots, elected>>

RaftStep ==
  \/ IdleStep
  \/ \E i \in Server : CampaignStep(i) \/ LogStep(i) \/ LeadStep(i)
  \/ \E i, j \in Server : GrantStep(i, j) \/ MatchStep(i, j) \/ TakeStep(i, j)

-----------------------------------------------------------------------------
(* Every action takes one of these steps *)

LEMMA SentUnchanged ==
  ASSUME TypeOK, UNCHANGED net
  PROVE  SentNet
<1>1. \A x, y \in Server : net[x][y] \in Seq(Message)
  BY DEF TypeOK
<1> QED BY <1>1, MovedBy DEF SentNet

LEMMA SentConsume ==
  ASSUME TypeOK, NEW i \in Server, NEW j \in Server, net[j][i] # <<>>,
         Consume(i, j)
  PROVE  SentNet
<1>1. \A x, y \in Server : net[x][y] \in Seq(Message)
  BY DEF TypeOK
<1>2. \A x, y \in Server :
        net'[x][y] = IF x = j /\ y = i THEN Tail(net[x][y]) ELSE net[x][y]
  BY NetConsume
<1> QED BY <1>1, <1>2, MovedBy DEF SentNet

LEMMA SentAnswer ==
  ASSUME ElectionInv, NEW i \in Server, NEW j \in Server, net[j][i] # <<>>,
         NEW m \in Sent(i), ConsumeAndSend(i, j, m)
  PROVE  SentNet
<1>1. TypeOK /\ ChannelsInOrder
  BY DEF ElectionInv
<1>2. \A x, y \in Server : net[x][y] \in Seq(Message)
  BY <1>1 DEF TypeOK
<1>3. i # j
  BY <1>1, NotFromSelf
<1>4. \A x, y \in Server :
        net'[x][y] = IF x = j /\ y = i THEN Tail(net[x][y])
                     ELSE IF x = i /\ y = j THEN Append(net[x][y], m)
                     ELSE net[x][y]
  BY <1>1, <1>3, NetConsumeAndSend
<1> SUFFICES ASSUME NEW x \in Server, NEW y \in Server
             PROVE  Moved(net[x][y], net'[x][y], Sent(x))
  BY DEF SentNet
<1>5. CASE x = j /\ y = i
  BY <1>2, <1>3, <1>4, <1>5, MovedBy
<1>6. CASE x = i /\ y = j
  BY <1>2, <1>3, <1>4, <1>6, MovedBy
<1>7. CASE ~(x = j /\ y = i) /\ ~(x = i /\ y = j)
  BY <1>2, <1>4, <1>7, MovedBy
<1> QED BY <1>5, <1>6, <1>7

LEMMA SentPeers ==
  ASSUME TypeOK, NEW i \in Server, NEW n \in NetType, NEW ms,
         \A x, y \in Server : \/ n[x][y] = net[x][y]
                              \/ net[x][y] # <<>> /\ n[x][y] = Tail(net[x][y]),
         \A p \in Peers(i) : ms[p] \in Sent(i),
         net' = SendToPeers(n, i, ms)
  PROVE  SentNet
<1>1. \A x, y \in Server : net[x][y] \in Seq(Message)
  BY DEF TypeOK
<1>2. \A x, y \in Server :
        net'[x][y] = IF x = i /\ y # i THEN Append(n[x][y], ms[y]) ELSE n[x][y]
  BY NetSendToPeers
<1>3. \A y \in Server : y # i => ms[y] \in Sent(i)
  BY DEF Peers
<1> SUFFICES ASSUME NEW x \in Server, NEW y \in Server
             PROVE  Moved(net[x][y], net'[x][y], Sent(x))
  BY DEF SentNet
<1>4. CASE x = i /\ y # i
  BY <1>1, <1>2, <1>3, <1>4, MovedBy
<1>5. CASE ~(x = i /\ y # i)
  BY <1>1, <1>2, <1>5, MovedBy
<1> QED BY <1>4, <1>5

\* Votes and refusals may be sent at any time, append requests by leaders.
LEMMA SentMessages ==
  ASSUME NEW i \in Server
  PROVE  /\ \A t \in Nat, yes \in BOOLEAN : VoteResponseMsg(t, yes) \in Sent(i)
         /\ \A t, n \in Nat : AppendResponseMsg(t, FALSE, n) \in Sent(i)
         /\ TypeOK /\ state'[i] = "LEADER" /\ currentTerm'[i] = currentTerm[i] =>
              \A n \in 1..(Len(log[i]) + 1) : AppendRequestMsg(i, n) \in Sent(i)
<1>1. \A t \in Nat, yes \in BOOLEAN : VoteResponseMsg(t, yes) \in Sent(i)
  BY VoteResponseMsgType
     DEF Sent, VoteResponseMsg, IsVoteRequest, IsAppend, IsAccept
<1>2. \A t, n \in Nat : AppendResponseMsg(t, FALSE, n) \in Sent(i)
  BY AppendResponseMsgType
     DEF Sent, AppendResponseMsg, IsVoteRequest, IsAppend, IsAccept
<1>3. ASSUME TypeOK, state'[i] = "LEADER", currentTerm'[i] = currentTerm[i],
             NEW n \in 1..(Len(log[i]) + 1)
      PROVE  AppendRequestMsg(i, n) \in Sent(i)
  <2>1. AppendRequestMsg(i, n) \in Message
    BY <1>3, RequestPiece
  <2>2. AppendRequestMsg(i, n).type = "AppendEntriesRequest"
    BY DEF AppendRequestMsg
  <2> QED BY <1>3, <2>1, <2>2 DEF Sent, IsVoteRequest, IsAppend, IsAccept
<1> QED BY <1>1, <1>2, <1>3

LEMMA IdleStay ==
  ASSUME SentNet, UNCHANGED <<termVars, logVars, matchIndex, history, commitCh>>
  PROVE  IdleStep
  BY DEF IdleStep, Settles, Redirects, termVars, logVars, history

LEMMA IdleEnter ==
  ASSUME TypeOK, SentNet, UNCHANGED <<logVars, matchIndex, history, commitCh>>,
         NEW i \in Server, NEW t, currentTerm[i] <= t, EnterTerm(i, t)
  PROVE  IdleStep
<1>1. \A x \in Server : Settles(x) /\ Redirects(x)
  BY DEF TypeOK, EnterTerm, Settles, Redirects
<1> QED BY <1>1 DEF IdleStep, logVars, history

LEMMA HeartbeatStep ==
  ASSUME ElectionInv, NEW i \in Server, TimeoutLeader(i)
  PROVE  IdleStep
<1>1. TypeOK /\ UNCHANGED termVars /\ state'[i] = "LEADER"
      /\ currentTerm'[i] = currentTerm[i]
  BY DEF ElectionInv, TimeoutLeader, termVars
<1>2. SentNet
  <2>1. CASE \A p \in Peers(i) : CanBuildAppend(i, nextIndex[i][p])
    <3> DEFINE ms == [p \in Peers(i) |-> AppendRequestMsg(i, nextIndex[i][p])]
    <3>1. ASSUME NEW p \in Peers(i)
          PROVE  ms[p] \in Sent(i)
      <4>1. nextIndex[i][p] \in Nat \ {0} /\ Len(log[i]) \in Nat
        BY <1>1, LenProperties DEF TypeOK, Peers
      <4>2. nextIndex[i][p] \in 1..(Len(log[i]) + 1)
        BY <2>1, <4>1 DEF CanBuildAppend
      <4> QED BY <1>1, <4>2, SentMessages
    <3>2. net \in NetType /\ net' = SendToPeers(net, i, ms)
      BY <1>1, <2>1 DEF TypeOK, NetType, TimeoutLeader
    <3> HIDE DEF ms
    <3> QED BY <1>1, <3>1, <3>2, SentPeers
  <2>2. CASE ~\A p \in Peers(i) : CanBuildAppend(i, nextIndex[i][p])
    BY <1>1, <2>2, SentUnchanged DEF TimeoutLeader
  <2> QED BY <2>1, <2>2
<1> QED BY <1>2, IdleStay DEF TimeoutLeader, leaderVars

LEMMA StepCampaign ==
  ASSUME ElectionInv, TypeOK', NEW i \in Server, TimeoutElection(i)
  PROVE  CampaignStep(i)
<1> DEFINE ms == [p \in Peers(i) |-> VoteRequestMsg(i)]
<1>1. TypeOK /\ currentTerm[i] \in Nat /\ currentTerm'[i] = currentTerm[i] + 1
  BY DEF ElectionInv, TypeOK, TimeoutElection
<1>2. VoteRequestMsg(i) \in Sent(i)
  <2>1. VoteRequestMsg(i) \in Message
    BY <1>1, VoteRequestMsgType DEF TypeOK
  <2>2. VoteRequestMsg(i).type = "VoteRequest"
    BY DEF VoteRequestMsg
  <2> QED BY <1>1, <2>1, <2>2 DEF Sent, IsVoteRequest, IsAppend, IsAccept
<1>3. /\ \A p \in Peers(i) : ms[p] \in Sent(i)
      /\ net \in NetType /\ net' = SendToPeers(net, i, ms)
  BY <1>1, <1>2 DEF TypeOK, NetType, TimeoutElection
<1> HIDE DEF ms
<1>4. SentNet
  BY <1>1, <1>3, SentPeers
<1> QED BY <1>4 DEF CampaignStep, TimeoutElection, logVars, leaderVars

LEMMA StepLog ==
  ASSUME ElectionInv, NEW i \in Server, NEW c \in Cmd, AppendLeader(i, c)
  PROVE  LogStep(i)
<1>1. SentNet
  BY SentUnchanged DEF ElectionInv, AppendLeader
<1> QED BY <1>1 DEF LogStep, AppendLeader, leaderVars, history

LEMMA StepRedirect ==
  ASSUME ElectionInv, NEW i \in Server, NEW c \in Cmd,
         AppendFollowerOrCandidate(i, c)
  PROVE  IdleStep
<1> DEFINE ci == [index |-> 0, cmd |-> c, err |-> TRUE]
<1>1. SentNet /\ TypeOK
  BY SentUnchanged DEF ElectionInv, AppendFollowerOrCandidate
<1>2. ci \in CommitInfo /\ ci.err
  BY DEF CommitInfo
<1>3. commitCh' = [commitCh EXCEPT ![i] = Append(commitCh[i], ci)]
  BY DEF AppendFollowerOrCandidate
<1> HIDE DEF ci
<1>4. \A x \in Server : Redirects(x) /\ Settles(x)
  <2>1. DOMAIN commitCh = Server /\ UNCHANGED termVars
    BY <1>1 DEF TypeOK, AppendFollowerOrCandidate
  <2> QED BY <1>2, <1>3, <2>1 DEF Redirects, Settles, termVars
<1> QED BY <1>1, <1>4 DEF IdleStep, AppendFollowerOrCandidate, logVars,
          leaderVars, history

LEMMA HeadTerm ==
  ASSUME TypeOK, NEW i \in Server, NEW j \in Server, net[j][i] # <<>>
  PROVE  /\ Head(net[j][i]) \in In(net[j][i])
         /\ Head(net[j][i]).term \in Nat /\ currentTerm[i] \in Nat
<1>1. net[j][i] \in Seq(Message)
  BY DEF TypeOK
<1>2. Head(net[j][i]) \in In(net[j][i])
  BY <1>1, InTail
<1> QED BY <1>2, InMessages DEF TypeOK

LEMMA CastVoteSteps ==
  ASSUME ElectionInv, NEW i \in Server, NEW j \in Server,
         Receives(i, j, "VoteRequest"), VoteOpen(i, j, Head(net[j][i])),
         state[i] = "LEADER" => currentTerm[i] # Head(net[j][i]).term,
         CastVote(i, j, Head(net[j][i])),
         UNCHANGED <<log, logCommitIndex, matchIndex, yesVotesNum, commitCh, elected>>
  PROVE  IdleStep \/ GrantStep(i, j)
<1> DEFINE m == Head(net[j][i])
           yes == UpToDate(log[i], m)
<1>1. /\ TypeOK /\ net[j][i] # <<>> /\ IsVoteRequest(m)
  BY DEF ElectionInv, Receives, IsVoteRequest
<1>2. /\ m.term \in Nat /\ currentTerm[i] \in Nat /\ currentTerm[i] <= m.term
      /\ yes \in BOOLEAN
  BY <1>1, VoteIsNew, HeadTerm DEF UpToDate
<1>3. SentNet
  <2>1. ConsumeAndSend(i, j, VoteResponseMsg(m.term, yes))
    BY DEF CastVote
  <2>2. VoteResponseMsg(m.term, yes) \in Sent(i)
    BY <1>2, SentMessages
  <2> HIDE DEF yes, m
  <2> QED BY <1>1, <2>1, <2>2, SentAnswer DEF m
<1>4. CASE yes
  <2>1. VoteStep(i, j)
    BY <1>1, <1>4 DEF CastVote, VoteStep, Ballot
  <2> QED BY <1>3, <1>4, <2>1 DEF GrantStep
<1>5. CASE ~yes
  <2>1. /\ currentTerm' = [currentTerm EXCEPT ![i] = m.term]
        /\ state' = [state EXCEPT ![i] = "FOLLOWER"]
        /\ UNCHANGED ballots
    BY <1>5 DEF CastVote
  <2>2. \A x \in Server : Settles(x) /\ Redirects(x)
    BY <1>1, <1>2, <2>1 DEF TypeOK, Settles, Redirects
  <2> QED BY <1>3, <2>1, <2>2 DEF IdleStep
<1> QED BY <1>4, <1>5

LEMMA StepVoteRequests ==
  ASSUME ElectionInv, NEW i \in Server, NEW j \in Server,
         VoteRequestLeaderOrCandidate(i, j) \/ VoteRequestFollower(i, j)
  PROVE  IdleStep \/ GrantStep(i, j)
<1> DEFINE m == Head(net[j][i])
<1>1. /\ Receives(i, j, "VoteRequest") /\ net[j][i] # <<>> /\ TypeOK
      /\ UNCHANGED <<log, logCommitIndex, matchIndex, yesVotesNum, commitCh, elected>>
  BY DEF ElectionInv, VoteRequestLeaderOrCandidate, VoteRequestFollower, Receives,
     tallyVars, logVars, leaderVars
<1>2. m.term \in Nat /\ currentTerm[i] \in Nat
  BY <1>1, HeadTerm
<1>3. \/ /\ VoteOpen(i, j, m) /\ CastVote(i, j, m)
         /\ state[i] = "LEADER" => currentTerm[i] # m.term
      \/ RefuseVote(i, j)
  <2>1. currentTerm[i] < m.term => currentTerm[i] # m.term
    BY <1>2
  <2> QED BY <2>1 DEF VoteRequestLeaderOrCandidate, VoteRequestFollower, VoteOpen
<1>4. CASE RefuseVote(i, j)
  <2>1. SentNet
    BY <1>1, <1>2, <1>4, SentMessages, SentAnswer DEF RefuseVote
  <2> QED BY <1>1, <1>4, <2>1, IdleStay DEF RefuseVote, logVars, history
<1> QED BY <1>1, <1>3, <1>4, CastVoteSteps

LEMMA StepVoteResponses ==
  ASSUME ElectionInv, NEW i \in Server, NEW j \in Server,
         VoteResponseLeader(i, j) \/ VoteResponseFollower(i, j)
  PROVE  IdleStep
<1> DEFINE m == Head(net[j][i])
<1>1. /\ net[j][i] # <<>> /\ Consume(i, j) /\ TypeOK
      /\ UNCHANGED <<logVars, matchIndex, history, commitCh>>
  BY DEF ElectionInv, VoteResponseLeader, VoteResponseFollower, Receives, leaderVars
<1>2. SentNet
  BY <1>1, SentConsume
<1>3. \/ UNCHANGED termVars
      \/ m.term > currentTerm[i] /\ EnterTerm(i, m.term)
  BY DEF VoteResponseLeader, VoteResponseFollower
<1>4. m.term \in Nat /\ currentTerm[i] \in Nat
  BY <1>1, HeadTerm
<1>5. m.term > currentTerm[i] => currentTerm[i] <= m.term
  BY <1>4
<1> QED BY <1>1, <1>2, <1>3, <1>5, IdleStay, IdleEnter

LEMMA StepLead ==
  ASSUME ElectionInv, NEW i \in Server, NEW j \in Server, net[j][i] # <<>>,
         state[i] = "CANDIDATE", BecomeLeader(i, j), UNCHANGED <<logVars, commitCh, ballots>>
  PROVE  LeadStep(i)
<1> DEFINE n == [net EXCEPT ![j][i] = Tail(@)]
           ms == [p \in Peers(i) |-> AppendRequestMsg(i, Len(log[i]) + 1)]
<1>1. TypeOK /\ state'[i] = "LEADER" /\ currentTerm'[i] = currentTerm[i]
  BY DEF ElectionInv, TypeOK, BecomeLeader
<1>2. \A x, y \in Server : net[x][y] \in Seq(Message)
  BY <1>1 DEF TypeOK
<1>3. Tail(net[j][i]) \in Seq(Message)
  BY <1>2, InTail
<1>4. /\ n \in NetType
      /\ \A x, y \in Server :
           n[x][y] = IF x = j /\ y = i THEN Tail(net[x][y]) ELSE net[x][y]
  BY <1>1, <1>3 DEF TypeOK, NetType
<1>5. \A p \in Peers(i) : ms[p] \in Sent(i)
  <2>1. Len(log[i]) + 1 \in 1..(Len(log[i]) + 1)
    <3>1. Len(log[i]) \in Nat
      BY <1>1, LenProperties DEF TypeOK
    <3> QED BY <3>1
  <2>2. AppendRequestMsg(i, Len(log[i]) + 1) \in Sent(i)
    BY <1>1, <2>1, SentMessages
  <2> QED BY <2>2
<1>6. net' = SendToPeers(n, i, ms)
  BY DEF BecomeLeader
<1> HIDE DEF n, ms
<1>7. SentNet
  BY <1>1, <1>4, <1>5, <1>6, SentPeers
<1> QED BY <1>7 DEF LeadStep, BecomeLeader, logVars

LEMMA StepVoteCounted ==
  ASSUME ElectionInv, NEW i \in Server, NEW j \in Server,
         VoteResponseCandidate(i, j)
  PROVE  IdleStep \/ LeadStep(i)
<1> DEFINE m == Head(net[j][i])
<1>1. /\ TypeOK /\ net[j][i] # <<>> /\ state[i] = "CANDIDATE"
      /\ UNCHANGED <<logVars, commitCh, ballots>>
  BY DEF ElectionInv, VoteResponseCandidate, Receives
<1>2. m.term \in Nat /\ currentTerm[i] \in Nat
  BY <1>1, HeadTerm
<1>3. Consume(i, j) => SentNet
  BY <1>1, SentConsume
<1>4. \/ BecomeLeader(i, j)
      \/ /\ Consume(i, j) /\ UNCHANGED <<leaderVars, elected>>
         /\ \/ UNCHANGED termVars
            \/ m.term > currentTerm[i] /\ EnterTerm(i, m.term)
            \/ state' = [state EXCEPT ![i] = "FOLLOWER"] /\ UNCHANGED currentTerm
  BY DEF VoteResponseCandidate
<1>5. CASE BecomeLeader(i, j)
  BY <1>1, <1>5, StepLead
<1>6. CASE Consume(i, j) /\ UNCHANGED <<leaderVars, elected>> /\ UNCHANGED termVars
  BY <1>1, <1>3, <1>6, IdleStay DEF leaderVars, history
<1>7. CASE /\ Consume(i, j) /\ UNCHANGED <<leaderVars, elected>>
           /\ m.term > currentTerm[i] /\ EnterTerm(i, m.term)
  <2>1. currentTerm[i] <= m.term
    BY <1>2, <1>7
  <2> QED BY <1>1, <1>3, <1>7, <2>1, IdleEnter DEF leaderVars, history
<1>8. CASE /\ Consume(i, j) /\ UNCHANGED <<leaderVars, elected>>
           /\ state' = [state EXCEPT ![i] = "FOLLOWER"] /\ UNCHANGED currentTerm
  <2>1. \A x \in Server : Settles(x) /\ Redirects(x)
    BY <1>1, <1>8 DEF TypeOK, Settles, Redirects
  <2> QED BY <1>1, <1>3, <1>8, <2>1 DEF IdleStep, logVars, leaderVars
<1> QED BY <1>4, <1>5, <1>6, <1>7, <1>8

LEMMA StepRefuseAppend ==
  ASSUME ElectionInv, NEW i \in Server, NEW j \in Server, net[j][i] # <<>>,
         RefuseAppend(i, j), UNCHANGED <<leaderVars, history>>
  PROVE  IdleStep
<1>1. TypeOK /\ currentTerm[i] \in Nat /\ Len(log[i]) \in Nat
  BY LenProperties DEF ElectionInv, TypeOK
<1>2. AppendResponseMsg(currentTerm[i], FALSE, Len(log[i])) \in Sent(i)
  BY <1>1, SentMessages
<1>3. SentNet
  BY <1>2, SentAnswer DEF RefuseAppend
<1> QED BY <1>3, IdleStay DEF RefuseAppend, leaderVars

LEMMA StepTake ==
  ASSUME ElectionInv, TypeOK', NEW i \in Server, NEW j \in Server,
         \/ AppendEntriesRequestLeaderOrCandidate(i, j)
         \/ AppendEntriesRequestFollower(i, j)
  PROVE  IdleStep \/ TakeStep(i, j)
<1> DEFINE m == Head(net[j][i])
           ok == PrevMatches(log[i], m)
           a == AppendResponseMsg(m.term, ok, Len(log'[i]))
<1>1. /\ TypeOK /\ net[j][i] # <<>> /\ IsAppend(m)
      /\ UNCHANGED <<leaderVars, tallyVars, history>>
  BY DEF ElectionInv, AppendEntriesRequestLeaderOrCandidate,
     AppendEntriesRequestFollower, Receives, IsAppend
<1>2. \/ RefuseAppend(i, j)
      \/ /\ currentTerm[i] <= m.term /\ FollowLeader(i, j, m)
         /\ AppendEntries(i, m)
         /\ \/ Consume(i, j) /\ UNCHANGED commitCh
            \/ /\ ConsumeAndSend(i, j, a)
               /\ \/ UNCHANGED commitCh
                  \/ /\ ok
                     /\ commitCh' = [commitCh EXCEPT ![i] = @ \o
                          CommitInfos(log'[i], logCommitIndex[i],
                                      logCommitIndex'[i])]
  BY DEF AppendEntriesRequestLeaderOrCandidate, AppendEntriesRequestFollower
<1>3. CASE RefuseAppend(i, j)
  BY <1>1, <1>3, StepRefuseAppend
<1>4. CASE ~RefuseAppend(i, j)
  <2>1. i # j
    BY <1>1, NotFromSelf DEF ElectionInv
  <2>2. /\ a \in Message /\ a \in Calm(i) /\ a.type = "AppendEntriesResponse"
        /\ a.success = ok /\ a.term = m.term /\ a.index = Len(log'[i])
    <3>1. m.term \in Nat /\ Len(log'[i]) \in Nat /\ ok \in BOOLEAN
      BY <1>1, HeadTerm, LenProperties DEF TypeOK, PrevMatches
    <3>2. a \in Message /\ a \in Calm(i)
      BY <3>1, AppendResponseMsgType, CalmMessages
    <3> QED BY <3>2 DEF AppendResponseMsg
  <2> HIDE DEF a
  <2>3. /\ \/ Consume(i, j)
           \/ ConsumeAndSend(i, j, a)
        /\ CalmNet /\ net'[j][i] = Tail(net[j][i])
    BY <1>1, <1>2, <1>4, <2>2, CalmConsume, CalmAnswer
  <2>4. FollowStep(i, j)
    BY <1>1, <1>2, <1>4, <2>3 DEF FollowStep, history, tallyVars
  <2>5. \A x, y \in Server : ~(x = i /\ y = j) =>
          net'[x][y] = IF x = j /\ y = i THEN Tail(net[x][y]) ELSE net[x][y]
    BY <1>1, <2>1, <2>3, NetConsume, NetConsumeAndSend
  <2>6. net'[i][j] = net[i][j] \/ net'[i][j] = Append(net[i][j], a)
    <3>1. CASE Consume(i, j)
      <4>1. \A x, y \in Server :
              net'[x][y] = IF x = j /\ y = i THEN Tail(net[x][y]) ELSE net[x][y]
        BY <1>1, <3>1, NetConsume
      <4> QED BY <2>1, <4>1
    <3>2. CASE ConsumeAndSend(i, j, a)
      <4>1. \A x, y \in Server :
              net'[x][y] = IF x = j /\ y = i THEN Tail(net[x][y])
                           ELSE IF x = i /\ y = j THEN Append(net[x][y], a)
                           ELSE net[x][y]
        BY <1>1, <2>1, <3>2, NetConsumeAndSend
      <4> QED BY <2>1, <4>1
    <3> QED BY <2>3, <3>1, <3>2
  <2>7. \/ net'[i][j] = net[i][j]
        \/ \E b \in Message :
             /\ net'[i][j] = Append(net[i][j], b)
             /\ b.type = "AppendEntriesResponse"
             /\ b.success => ok /\ b.term = m.term /\ b.index = Len(log'[i])
    BY <2>2, <2>6
  <2>8. \A x \in Server : commitCh'[x] = commitCh[x] \/
          /\ x = i /\ ok
          /\ commitCh'[i] = commitCh[i] \o
               CommitInfos(log'[i], logCommitIndex[i], logCommitIndex'[i])
    <3> HIDE DEF m, ok
    <3> QED BY <1>1, <1>2, <1>4 DEF TypeOK
  <2> QED BY <1>1, <1>2, <1>4, <2>1, <2>4, <2>5, <2>7, <2>8
          DEF TakeStep, leaderVars, history
<1> QED BY <1>3, <1>4

LEMMA StepAccepted ==
  ASSUME ElectionInv, NEW i \in Server, NEW j \in Server,
         AppendEntriesResponseLeader(i, j)
  PROVE  IdleStep \/ MatchStep(i, j)
<1> DEFINE m == Head(net[j][i])
           n == OneBack(nextIndex[i][j])
<1>1. /\ TypeOK /\ net[j][i] # <<>> /\ state[i] = "LEADER"
      /\ m.type = "AppendEntriesResponse" /\ UNCHANGED <<log, history>>
  BY DEF ElectionInv, AppendEntriesResponseLeader, Receives
<1>2. m.term \in Nat /\ currentTerm[i] \in Nat
  BY <1>1, HeadTerm
<1>3. Consume(i, j) => SentNet
  BY <1>1, SentConsume
<1>4. CASE ~m.success /\ m.term > currentTerm[i]
  <2>1. /\ Consume(i, j) /\ EnterTerm(i, m.term) /\ currentTerm[i] <= m.term
        /\ UNCHANGED <<leaderVars, logCommitIndex, commitCh>>
    BY <1>2, <1>4 DEF AppendEntriesResponseLeader
  <2> QED BY <1>1, <1>3, <2>1, IdleEnter DEF logVars, leaderVars
<1>5. CASE ~m.success /\ ~(m.term > currentTerm[i])
  <2>1. BackUp(i, j) /\ UNCHANGED <<termVars, matchIndex, logCommitIndex, commitCh>>
    BY <1>5 DEF AppendEntriesResponseLeader
  <2>2. SentNet
    <3>1. CASE CanBuildAppend(i, n)
      <4>1. n \in 1..(Len(log[i]) + 1)
        <5>1. nextIndex[i][j] \in Nat \ {0} /\ Len(log[i]) \in Nat
          BY <1>1, LenProperties DEF TypeOK
        <5> QED BY <3>1, <5>1 DEF OneBack, CanBuildAppend
      <4>2. AppendRequestMsg(i, n) \in Sent(i)
        BY <1>1, <2>1, <4>1, SentMessages DEF termVars
      <4>3. ConsumeAndSend(i, j, AppendRequestMsg(i, n))
        BY <2>1, <3>1 DEF BackUp
      <4> QED BY <1>1, <4>2, <4>3, SentAnswer
    <3>2. CASE ~CanBuildAppend(i, n)
      BY <1>3, <2>1, <3>2 DEF BackUp
    <3> QED BY <3>1, <3>2
  <2> QED BY <1>1, <2>1, <2>2, IdleStay DEF logVars
<1>6. CASE m.success
  <2> DEFINE match == [matchIndex[i] EXCEPT ![j] = m.index]
  <2>1. RecordMatch(i, j, m) /\ UNCHANGED termVars
    BY <1>6 DEF AppendEntriesResponseLeader
  <2>2. SentNet
    BY <1>3, <2>1 DEF RecordMatch
  <2>3. CASE BeyondLog(i, match)
    <3>1. UNCHANGED <<leaderVars, logCommitIndex, commitCh>>
      BY <2>1, <2>3 DEF RecordMatch
    <3> QED BY <1>1, <2>1, <2>2, <3>1, IdleStay DEF logVars, leaderVars
  <2>4. CASE ~BeyondLog(i, match)
    <3>1. /\ matchIndex' = [matchIndex EXCEPT ![i] = match]
          /\ AdvanceCommit(i, match)
      BY <2>1, <2>4 DEF RecordMatch
    <3>2. i # j
      BY <1>1, NotFromSelf DEF ElectionInv
    <3> QED BY <1>1, <1>6, <2>1, <2>2, <2>4, <3>1, <3>2
            DEF MatchStep, IsAccept, history
  <2> QED BY <2>3, <2>4
<1> QED BY <1>4, <1>5, <1>6

LEMMA StepAnswerIgnored ==
  ASSUME ElectionInv, NEW i \in Server, NEW j \in Server,
         AppendEntriesResponseFollowerOrCandidate(i, j)
  PROVE  IdleStep
<1> DEFINE m == Head(net[j][i])
<1>1. /\ net[j][i] # <<>> /\ Consume(i, j) /\ TypeOK
      /\ UNCHANGED <<logVars, matchIndex, history, commitCh>>
  BY DEF ElectionInv, AppendEntriesResponseFollowerOrCandidate, Receives, leaderVars
<1>2. SentNet
  BY <1>1, SentConsume
<1>3. \/ UNCHANGED termVars
      \/ m.term > currentTerm[i] /\ EnterTerm(i, m.term)
  BY DEF AppendEntriesResponseFollowerOrCandidate
<1>4. m.term \in Nat /\ currentTerm[i] \in Nat
  BY <1>1, HeadTerm
<1>5. m.term > currentTerm[i] => currentTerm[i] <= m.term
  BY <1>4
<1> QED BY <1>1, <1>2, <1>3, <1>5, IdleStay, IdleEnter

LEMMA StepLoses ==
  ASSUME ElectionInv, NEW i \in Server, NEW j \in Server, Lose(i, j)
  PROVE  IdleStep
<1>1. TypeOK /\ net[i][j] # <<>> /\ Consume(j, i)
  BY DEF ElectionInv, Lose, Consume
<1>2. SentNet
  BY <1>1, SentConsume
<1> QED BY <1>2, IdleStay DEF Lose, leaderVars

LEMMA NextRaftStep ==
  ASSUME ElectionInv, TypeOK', [Next]_vars
  PROVE  RaftStep
<1>1. CASE UNCHANGED vars
  <2>1. SentNet
    BY <1>1, SentUnchanged DEF ElectionInv, vars
  <2> QED BY <1>1, <2>1, IdleStay DEF RaftStep, vars, leaderVars
<1>2. CASE \E i \in Server : TimeoutLeader(i)
  BY <1>2, HeartbeatStep DEF RaftStep
<1>3. CASE \E i \in Server : TimeoutElection(i)
  BY <1>3, StepCampaign DEF RaftStep
<1>4. CASE \E i \in Server, c \in Cmd : AppendLeader(i, c)
  BY <1>4, StepLog DEF RaftStep
<1>5. CASE \E i \in Server, c \in Cmd : AppendFollowerOrCandidate(i, c)
  BY <1>5, StepRedirect DEF RaftStep
<1>6. CASE \E i, j \in Server : Receive(i, j)
  <2>1. PICK i \in Server, j \in Server : Receive(i, j)
    BY <1>6
  <2>2. \/ IdleStep \/ GrantStep(i, j) \/ LeadStep(i)
        \/ TakeStep(i, j) \/ MatchStep(i, j)
    BY <2>1, StepVoteRequests, StepVoteResponses, StepVoteCounted, StepTake,
       StepAccepted, StepAnswerIgnored DEF Receive
  <2> QED BY <2>2 DEF RaftStep
<1>7. CASE \E i, j \in Server : Lose(i, j)
  BY <1>7, StepLoses DEF RaftStep
<1> QED BY <1>1, <1>2, <1>3, <1>4, <1>5, <1>6, <1>7 DEF Next

-----------------------------------------------------------------------------
(* What the leaders have had stays true *)

\* What is in a channel after the step was there before or has been sent in it.
LEMMA SentIn ==
  ASSUME TypeOK, SentNet, NEW x \in Server, NEW y \in Server,
         NEW m \in In(net'[x][y])
  PROVE  m \in In(net[x][y]) \/ m \in Sent(x)
<1>1. net[x][y] \in Seq(Message) /\ Moved(net[x][y], net'[x][y], Sent(x))
  BY DEF TypeOK, SentNet
<1>2. Sent(x) \in SUBSET Message
  BY DEF Sent
<1> QED BY <1>1, <1>2, MovedIn

LEMMA AppendIsRequest ==
  ASSUME NEW m \in Message, IsAppend(m)
  PROVE  m \in AppendEntriesRequestEvent
  BY DEF Message, IsAppend, VoteRequestEvent, VoteResponseEvent,
     AppendEntriesRequestEvent, AppendEntriesResponseEvent

LEMMA TermsForward ==
  ASSUME ElectionInv, TypeOK', [Next]_vars
  PROVE  \A x \in Server : currentTerm[x] \in Nat /\ currentTerm'[x] \in Nat
                             /\ currentTerm[x] <= currentTerm'[x]
<1>1. ElectionStep
  BY NextStep DEF ElectionInv
<1>2. \A x \in Server : currentTerm'[x] >= currentTerm[x]
  BY <1>1, VoteFixedStep
<1> QED BY <1>2 DEF ElectionInv, TypeOK

LEMMA ReignsStay ==
  ASSUME OddCluster, ElectionInv, TypeOK', [Next]_vars, ReignsOver,
         \A e \in elected' : e \in elected \/
           (state'[e[2]] = "LEADER" /\ e[1] = currentTerm'[e[2]])
  PROVE  ReignsOver'
<1> SUFFICES ASSUME NEW e \in elected'
             PROVE  /\ e[1] <= currentTerm'[e[2]]
                    /\ e[1] = currentTerm'[e[2]] => state'[e[2]] = "LEADER"
  BY DEF ReignsOver
<1>1. e[1] \in Nat /\ e[2] \in Server
  BY DEF TypeOK
<1>2. /\ currentTerm[e[2]] \in Nat /\ currentTerm'[e[2]] \in Nat
      /\ currentTerm[e[2]] <= currentTerm'[e[2]]
  BY <1>1, TermsForward
<1>3. CASE e \in elected
  <2>1. /\ e[1] <= currentTerm[e[2]]
        /\ e[1] = currentTerm[e[2]] => state[e[2]] = "LEADER"
    BY <1>3 DEF ReignsOver
  <2>2. state[e[2]] = "LEADER" /\ state'[e[2]] # "LEADER" =>
          currentTerm'[e[2]] > currentTerm[e[2]]
    <3>1. ElectionSafety /\ ElectionStep
      BY SafetyImplied, NextStep DEF ElectionInv
    <3> QED BY <1>1, <3>1, LeaderKeepsStep
  <2> QED BY <1>1, <1>2, <2>1, <2>2
<1>4. CASE e \notin elected
  BY <1>1, <1>2, <1>4
<1> QED BY <1>3, <1>4

LEMMA SafetyAfter ==
  ASSUME OddCluster
  PROVE  ElectionInv' => ElectionSafety'
<1>1. ElectionInv => ElectionSafety
  BY SafetyImplied
<1> QED BY <1>1, PTL

\* In a step in which nobody follows a leader, the logs of leaders grow from T
\* to U, and any other log stays.
LEMMA LogInvGrows ==
  ASSUME TypeOK, TypeOK', NEW T \in TermLogs, NEW U \in TermLogs,
         LogInv(T), Grows(T, U), TermLogsMade(U), SentNet, ReignsOver',
         \A x \in Server : currentTerm[x] <= currentTerm'[x],
         TermsLed(U)', LeadersHave(U)',
         \A x \in Server : \/ log'[x] = log[x]
                           \/ /\ log'[x] = U[currentTerm'[x]]
                              /\ SameUpTo(log'[x], log[x], Len(log[x]))
  PROVE  LogInv(U)'
<1>1. LogsMade(U)'
  <2> SUFFICES ASSUME NEW x \in Server
               PROVE  FromLeaders(U, log'[x]) /\ TermsUpTo(log'[x], currentTerm'[x])
    BY DEF LogsMade
  <2>1. /\ currentTerm[x] \in Nat /\ currentTerm'[x] \in Nat
        /\ log[x] \in Seq(Entry) /\ log'[x] \in Seq(Entry)
    BY DEF TypeOK
  <2>2. CASE log'[x] = log[x]
    <3>1. FromLeaders(T, log[x]) /\ TermsUpTo(log[x], currentTerm[x])
      BY DEF LogInv, LogsMade
    <3>2. FromLeaders(U, log[x])
      BY <2>1, <3>1, StillMade
    <3>3. TermsUpTo(log[x], currentTerm'[x])
      <4> SUFFICES ASSUME NEW n \in 1..Len(log[x])
                   PROVE  log[x][n].term <= currentTerm'[x]
        BY DEF TermsUpTo
      <4>1. log[x][n] \in Entry /\ log[x][n].term <= currentTerm[x]
        BY <2>1, <3>1, ElementOfSeq DEF TermsUpTo
      <4>2. log[x][n].term \in Nat
        BY <4>1 DEF Entry
      <4> QED BY <2>1, <4>1, <4>2
    <3> QED BY <2>2, <3>2, <3>3
  <2>3. CASE log'[x] = U[currentTerm'[x]]
    BY <2>1, <2>3 DEF TermLogsMade
  <2> QED BY <2>2, <2>3
<1>2. RequestsMade(U)'
  <2> SUFFICES ASSUME NEW x \in Server, NEW y \in Server,
                      NEW m \in In(net'[x][y]), IsAppend(m)
               PROVE  PieceOf(m, U[m.term])
    BY DEF RequestsMade
  <2>1. m \in In(net[x][y]) \/ m \in Sent(x)
    BY SentIn
  <2>2. CASE m \in In(net[x][y])
    <3>1. m \in Message /\ m.term \in Nat
      BY <2>2, InMessages
    <3>2. m \in AppendEntriesRequestEvent
      BY <3>1, AppendIsRequest
    <3>3. PieceOf(m, T[m.term])
      BY <2>2 DEF LogInv, RequestsMade
    <3>4. T[m.term] \in Seq(Entry) /\ U[m.term] \in Seq(Entry)
      BY <3>1 DEF TermLogs
    <3>5. SameUpTo(U[m.term], T[m.term], Len(T[m.term]))
      BY <3>1 DEF Grows
    <3> QED BY <3>2, <3>3, <3>4, <3>5, StillPiece
  <2>3. CASE m \in Sent(x)
    <3>1. /\ m \in Message /\ state'[x] = "LEADER"
          /\ currentTerm'[x] = currentTerm[x]
      BY <2>3 DEF Sent
    <3>2. PICK n \in 1..(Len(log[x]) + 1) : m = AppendRequestMsg(x, n)
      BY <2>3 DEF Sent
    <3>3. PieceOf(m, log[x]) /\ m.term = currentTerm[x]
      BY <3>2, RequestPiece
    <3>4. log'[x] = U[currentTerm[x]]
      BY <3>1 DEF LeadersHave
    <3>5. log[x] \in Seq(Entry) /\ log'[x] \in Seq(Entry) /\ Len(log[x]) \in Nat
      BY LenProperties DEF TypeOK
    <3>6. SameUpTo(log'[x], log[x], Len(log[x]))
      BY <3>5 DEF SameUpTo
    <3>7. m \in AppendEntriesRequestEvent
      BY <3>1, AppendIsRequest
    <3>8. PieceOf(m, log'[x])
      BY <3>3, <3>5, <3>6, <3>7, StillPiece
    <3> QED BY <3>3, <3>4, <3>8
  <2> QED BY <2>1, <2>2, <2>3
<1> QED BY <1>1, <1>2 DEF LogInv

\* A step in which no log changes and nobody wins an election.
LogsStay ==
  /\ SentNet /\ UNCHANGED <<log, elected>>
  /\ \A x \in Server : state'[x] = "LEADER" =>
       state[x] = "LEADER" /\ currentTerm'[x] = currentTerm[x]

LEMMA StepsStay ==
  ASSUME TypeOK,
         \/ IdleStep
         \/ \E i \in Server : CampaignStep(i)
         \/ \E i, j \in Server : GrantStep(i, j) \/ MatchStep(i, j)
  PROVE  LogsStay
<1>1. CASE IdleStep
  BY <1>1 DEF IdleStep, Settles, LogsStay
<1>2. CASE \E i \in Server : CampaignStep(i)
  BY <1>2 DEF CampaignStep, TimeoutElection, TypeOK, LogsStay
<1>3. CASE \E i, j \in Server : GrantStep(i, j)
  <2>1. PICK i \in Server, j \in Server : GrantStep(i, j)
    BY <1>3
  <2> DEFINE m == Head(net[j][i])
  <2>2. /\ SentNet /\ UNCHANGED <<log, elected>>
        /\ currentTerm' = [currentTerm EXCEPT ![i] = m.term]
        /\ state' = [state EXCEPT ![i] = "FOLLOWER"]
    BY <2>1 DEF GrantStep, VoteStep
  <2> HIDE DEF m
  <2> QED BY <2>2 DEF TypeOK, LogsStay
<1>4. CASE \E i, j \in Server : MatchStep(i, j)
  BY <1>4 DEF MatchStep, LogsStay, termVars
<1> QED BY <1>1, <1>2, <1>3, <1>4

LEMMA LogInvStay ==
  ASSUME OddCluster, ElectionInv, TypeOK', [Next]_vars, LogsStay,
         NEW T \in TermLogs, LogInv(T)
  PROVE  LogInv(T)'
<1>1. TypeOK /\ UNCHANGED <<log, elected>> /\ SentNet
  BY DEF ElectionInv, LogsStay
<1>2. TermsLed(T)' /\ LeadersHave(T)' /\ TermLogsMade(T) /\ ReignsOver
  BY <1>1 DEF LogInv, TermsLed, LeadersHave, LogsStay
<1>3. Grows(T, T)
  <2>1. \A t \in Nat : T[t] \in Seq(Entry) /\ Len(T[t]) \in Nat
    BY LenProperties DEF TermLogs
  <2> QED BY <2>1 DEF Grows, SameUpTo
<1>4. ReignsOver'
  BY <1>1, <1>2, ReignsStay
<1>5. \A x \in Server : currentTerm[x] <= currentTerm'[x] /\ log'[x] = log[x]
  BY <1>1, TermsForward
<1> QED BY <1>1, <1>2, <1>3, <1>4, <1>5, LogInvGrows

\* The log of the leader of one term grows.
LEMMA TermLogsGrow ==
  ASSUME NEW T \in TermLogs, TermLogsMade(T), NEW t \in Nat,
         NEW l \in Seq(Entry), SameUpTo(l, T[t], Len(T[t])), TermsUpTo(l, t),
         \A n \in 1..Len(l) : \/ l[n].term = t
                              \/ SameUpTo(l, T[l[n].term], n)
  PROVE  /\ [T EXCEPT ![t] = l] \in TermLogs
         /\ Grows(T, [T EXCEPT ![t] = l])
         /\ TermLogsMade([T EXCEPT ![t] = l])
<1> DEFINE U == [T EXCEPT ![t] = l]
<1>1. U \in TermLogs /\ U[t] = l /\ \A s \in Nat \ {t} : U[s] = T[s]
  BY DEF TermLogs
<1> HIDE DEF U
<1>2. \A s \in Nat : T[s] \in Seq(Entry) /\ Len(T[s]) \in Nat
  BY LenProperties DEF TermLogs
<1>3. Grows(T, U)
  <2> SUFFICES ASSUME NEW s \in Nat
               PROVE  SameUpTo(U[s], T[s], Len(T[s]))
    BY DEF Grows
  <2>1. CASE s = t
    BY <1>1, <2>1
  <2>2. CASE s # t
    BY <1>1, <1>2, <2>2 DEF SameUpTo
  <2> QED BY <2>1, <2>2
<1>4. ASSUME NEW s \in Nat
      PROVE  FromLeaders(U, U[s]) /\ TermsUpTo(U[s], s)
  <2>1. CASE s = t
    <3> SUFFICES ASSUME NEW n \in 1..Len(l)
                 PROVE  SameUpTo(l, U[l[n].term], n)
      BY <1>1, <2>1 DEF FromLeaders
    <3> DEFINE r == l[n].term
    <3>1. r \in Nat /\ Len(l) \in Nat
      <4>1. l[n] \in Entry
        BY ElementOfSeq
      <4> QED BY <4>1, LenProperties DEF Entry
    <3>2. CASE r = t
      BY <1>1, <3>1, <3>2 DEF SameUpTo
    <3>3. CASE r # t
      <4>1. SameUpTo(l, T[r], n) /\ U[r] = T[r]
        BY <1>1, <3>1, <3>3
      <4> QED BY <4>1
    <3> QED BY <3>2, <3>3
  <2>2. CASE s # t
    <3>1. U[s] = T[s] /\ FromLeaders(T, T[s]) /\ TermsUpTo(T[s], s)
      BY <1>1, <2>2 DEF TermLogsMade
    <3> QED BY <1>1, <1>2, <1>3, <3>1, StillMade
  <2> QED BY <2>1, <2>2
<1> QED BY <1>1, <1>3, <1>4 DEF TermLogsMade, U

LEMMA LogInvLog ==
  ASSUME OddCluster, ElectionInv, TypeOK', [Next]_vars,
         NEW T \in TermLogs, LogInv(T), NEW i \in Server, LogStep(i),
         NEW U, U = [T EXCEPT ![currentTerm[i]] = log'[i]]
  PROVE  U \in TermLogs /\ Grows(T, U) /\ LogInv(U)'
<1> DEFINE t == currentTerm[i]
           l == log'[i]
<1>0. U = [T EXCEPT ![t] = l]
  OBVIOUS
<1>1. /\ TypeOK /\ SentNet /\ state[i] = "LEADER" /\ UNCHANGED <<termVars, elected>>
      /\ t \in Nat /\ log[i] \in Seq(Entry) /\ l \in Seq(Entry)
  BY DEF ElectionInv, LogStep, TypeOK
<1>2. PICK c \in Cmd : log' = [log EXCEPT ![i] =
                                 Append(@, [term |-> currentTerm[i], cmd |-> c])]
  BY DEF LogStep
<1> DEFINE e == [term |-> t, cmd |-> c]
<1>3. /\ l = Append(log[i], e) /\ e \in Entry /\ e.term = t
      /\ \A x \in Server : x # i => log'[x] = log[x]
  BY <1>1, <1>2 DEF TypeOK, Entry
<1>4. /\ log[i] = T[t] /\ TermLogsMade(T) /\ TermsLed(T) /\ LeadersHave(T)
      /\ ReignsOver /\ FromLeaders(T, log[i]) /\ TermsUpTo(log[i], t)
  BY <1>1 DEF LogInv, LeadersHave, LogsMade
<1> HIDE DEF e, l, t
<1>5. /\ Len(log[i]) \in Nat /\ Len(l) = Len(log[i]) + 1
      /\ \A n \in 1..Len(log[i]) : l[n] = log[i][n]
      /\ l[Len(log[i]) + 1] = e
  BY <1>1, <1>3, AppendProperties, LenProperties
<1>6. SameUpTo(l, log[i], Len(log[i]))
  BY <1>5 DEF SameUpTo
<1>7. ASSUME NEW n \in 1..Len(l)
      PROVE  /\ l[n].term <= t
             /\ l[n].term = t \/ SameUpTo(l, T[l[n].term], n)
  <2>1. CASE n = Len(log[i]) + 1
    BY <1>1, <1>3, <1>5, <2>1
  <2>2. CASE n # Len(log[i]) + 1
    <3>1. n \in 1..Len(log[i])
      BY <1>5, <2>2
    <3>2. l[n] = log[i][n] /\ log[i][n].term <= t
          /\ SameUpTo(log[i], T[log[i][n].term], n)
      BY <1>4, <1>5, <3>1 DEF TermsUpTo, FromLeaders
    <3> QED BY <1>5, <3>1, <3>2 DEF SameUpTo
  <2> QED BY <2>1, <2>2
<1>8. U \in TermLogs /\ Grows(T, U) /\ TermLogsMade(U)
  <2>1. TermsUpTo(l, t) /\ SameUpTo(l, T[t], Len(T[t]))
    BY <1>4, <1>6, <1>7 DEF TermsUpTo
  <2>2. LET V == [T EXCEPT ![t] = l]
        IN  V \in TermLogs /\ Grows(T, V) /\ TermLogsMade(V)
    BY <1>1, <1>4, <1>7, <2>1, TermLogsGrow
  <2> QED BY <1>0, <2>2
<1>9. U[t] = l /\ \A s \in Nat \ {t} : U[s] = T[s]
  BY <1>1, <1>0 DEF TermLogs
<1>10. <<t, i>> \in elected
  BY <1>1 DEF ElectionInv, LeaderElected, t
<1>11. TermsLed(U)'
  BY <1>1, <1>4, <1>9, <1>10 DEF TermsLed
<1>12. LeadersHave(U)'
  <2> SUFFICES ASSUME NEW x \in Server, state'[x] = "LEADER"
               PROVE  log'[x] = U[currentTerm'[x]]
    BY DEF LeadersHave
  <2>1. state[x] = "LEADER" /\ currentTerm'[x] = currentTerm[x]
        /\ currentTerm[x] \in Nat
    BY <1>1 DEF termVars, TypeOK
  <2>2. CASE x = i
    BY <1>9, <2>1, <2>2 DEF t, l
  <2>3. CASE x # i
    <3>1. <<currentTerm[x], x>> \in elected /\ ElectionSafety
      BY <2>1, SafetyImplied DEF ElectionInv, LeaderElected
    <3>2. currentTerm[x] # t
      BY <1>10, <2>3, <3>1 DEF ElectionSafety
    <3>3. log'[x] = log[x] /\ log[x] = T[currentTerm[x]]
      BY <1>3, <1>4, <2>1, <2>3 DEF LeadersHave
    <3> QED BY <1>9, <2>1, <3>2, <3>3
  <2> QED BY <2>2, <2>3
<1>13. ReignsOver' /\ \A x \in Server : currentTerm[x] <= currentTerm'[x]
  BY <1>1, <1>4, ReignsStay, TermsForward
<1>14. \A x \in Server : \/ log'[x] = log[x]
                         \/ /\ log'[x] = U[currentTerm'[x]]
                            /\ SameUpTo(log'[x], log[x], Len(log[x]))
  BY <1>1, <1>3, <1>6, <1>9 DEF termVars, t, l
<1>15. LogInv(U)'
  BY <1>1, <1>8, <1>11, <1>12, <1>13, <1>14, LogInvGrows
<1> QED BY <1>8, <1>15

\* Nobody has led the term of a candidate, so the leader it becomes is the
\* first to have a log in that term.
LEMMA NewReign ==
  ASSUME OddCluster, ElectionInv, ElectionInv', NEW T \in TermLogs, LogInv(T),
         NEW i \in Server, LeadStep(i)
  PROVE  /\ T[currentTerm[i]] = <<>>
         /\ \A x \in Server : <<currentTerm[i], x>> \notin elected
<1>1. /\ elected \subseteq elected' /\ <<currentTerm[i], i>> \in elected'
      /\ state[i] = "CANDIDATE" /\ currentTerm[i] \in Nat
  BY DEF LeadStep, ElectionInv, TypeOK
<1>2. <<currentTerm[i], i>> \notin elected
  BY <1>1 DEF LogInv, ReignsOver
<1>3. ASSUME NEW x \in Server, <<currentTerm[i], x>> \in elected
      PROVE  FALSE
  <2>1. ElectionSafety'
    BY SafetyAfter
  <2>2. x = i
    BY <1>1, <1>3, <2>1 DEF ElectionSafety
  <2> QED BY <1>2, <1>3, <2>2
<1> QED BY <1>1, <1>2, <1>3 DEF LogInv, TermsLed

LEMMA LogInvLead ==
  ASSUME OddCluster, ElectionInv, ElectionInv', [Next]_vars,
         NEW T \in TermLogs, LogInv(T), NEW i \in Server, LeadStep(i),
         NEW U, U = [T EXCEPT ![currentTerm[i]] = log[i]]
  PROVE  U \in TermLogs /\ Grows(T, U) /\ LogInv(U)'
<1> DEFINE t == currentTerm[i]
           l == log[i]
<1>0. U = [T EXCEPT ![t] = l]
  OBVIOUS
<1>1. /\ TypeOK /\ TypeOK' /\ SentNet /\ UNCHANGED <<log, currentTerm>>
      /\ state'[i] = "LEADER" /\ elected' = elected \cup {<<t, i>>}
      /\ \A x \in Server \ {i} : state'[x] = state[x]
      /\ t \in Nat /\ l \in Seq(Entry) /\ Len(l) \in Nat
  BY LenProperties DEF ElectionInv, LeadStep, TypeOK
<1>2. /\ TermLogsMade(T) /\ TermsLed(T) /\ LeadersHave(T)
      /\ ReignsOver /\ FromLeaders(T, l) /\ TermsUpTo(l, t)
  BY DEF LogInv, LogsMade
<1>3. T[t] = <<>> /\ Len(T[t]) = 0
  <2>1. T[t] = <<>>
    BY NewReign
  <2> QED BY <2>1
<1> HIDE DEF l, t
<1>4. U \in TermLogs /\ Grows(T, U) /\ TermLogsMade(U)
  <2>1. SameUpTo(l, T[t], Len(T[t]))
    BY <1>1, <1>3 DEF SameUpTo
  <2>2. \A n \in 1..Len(l) : SameUpTo(l, T[l[n].term], n)
    BY <1>2 DEF FromLeaders
  <2>3. LET V == [T EXCEPT ![t] = l]
        IN  V \in TermLogs /\ Grows(T, V) /\ TermLogsMade(V)
    BY <1>1, <1>2, <2>1, <2>2, TermLogsGrow
  <2> QED BY <1>0, <2>3
<1>5. U[t] = l /\ \A s \in Nat \ {t} : U[s] = T[s]
  BY <1>0, <1>1 DEF TermLogs
<1>6. TermsLed(U)'
  BY <1>1, <1>2, <1>5 DEF TermsLed
<1>7. LeadersHave(U)'
  <2> SUFFICES ASSUME NEW x \in Server, state'[x] = "LEADER"
               PROVE  log'[x] = U[currentTerm'[x]]
    BY DEF LeadersHave
  <2>1. CASE x = i
    BY <1>1, <1>5, <2>1 DEF t, l
  <2>2. CASE x # i
    <3>1. /\ state[x] = "LEADER" /\ currentTerm'[x] = currentTerm[x]
          /\ currentTerm[x] \in Nat /\ log'[x] = log[x]
      BY <1>1, <2>2 DEF TypeOK
    <3>2. <<currentTerm[x], x>> \in elected' /\ <<t, i>> \in elected'
          /\ ElectionSafety'
      BY <1>1, <3>1, SafetyAfter DEF ElectionInv, LeaderElected
    <3>3. currentTerm[x] # t
      BY <2>2, <3>2 DEF ElectionSafety
    <3> QED BY <1>2, <1>5, <3>1, <3>3 DEF LeadersHave
  <2> QED BY <2>1, <2>2
<1>8. ReignsOver' /\ \A x \in Server : currentTerm[x] <= currentTerm'[x]
  <2>1. \A e \in elected' : e \in elected \/
           (state'[e[2]] = "LEADER" /\ e[1] = currentTerm'[e[2]])
    BY <1>1 DEF t
  <2> QED BY <1>1, <1>2, <2>1, ReignsStay, TermsForward
<1>9. \A x \in Server : log'[x] = log[x]
  BY <1>1
<1>10. LogInv(U)'
  BY <1>1, <1>4, <1>6, <1>7, <1>8, <1>9, LogInvGrows
<1> QED BY <1>4, <1>10

\* What a follower has after a request of the leader.
LEMMA TakeLog ==
  ASSUME TypeOK, TypeOK', NEW T \in TermLogs, LogInv(T),
         NEW i \in Server, NEW j \in Server, TakeStep(i, j),
         PrevMatches(log[i], Head(net[j][i]))
  PROVE  /\ log'[i] = NewLog(log[i], Head(net[j][i]))
         /\ Len(log'[i]) = End(Head(net[j][i]))
         /\ SameUpTo(log'[i], T[currentTerm'[i]], Len(log'[i]))
<1> DEFINE m == Head(net[j][i])
<1>1. /\ net[j][i] # <<>> /\ IsAppend(m) /\ currentTerm'[i] = m.term
      /\ log'[i] = NewLog(log[i], m)
  BY DEF TakeStep, FollowStep, FollowLeader, AppendEntries, TypeOK
<1>2. m \in In(net[j][i]) /\ m \in AppendEntriesRequestEvent
  BY <1>1, HeadTerm, InMessages, AppendIsRequest
<1>3. /\ PieceOf(m, T[m.term]) /\ TermLogsMade(T)
      /\ FromLeaders(T, log[i]) /\ log[i] \in Seq(Entry)
  BY <1>1, <1>2 DEF LogInv, RequestsMade, LogsMade, TypeOK
<1> HIDE DEF m
<1> QED BY <1>1, <1>2, <1>3, TakenOver DEF m

LEMMA TakeIn ==
  ASSUME TypeOK, NEW i \in Server, NEW j \in Server, TakeStep(i, j),
         NEW x \in Server, NEW y \in Server, NEW m \in In(net'[x][y])
  PROVE  \/ m \in In(net[x][y])
         \/ /\ x = i /\ y = j /\ m.type = "AppendEntriesResponse" /\ m \in Message
            /\ m.success => /\ PrevMatches(log[i], Head(net[j][i]))
                            /\ m.term = Head(net[j][i]).term
                            /\ m.index = Len(log'[i])
<1>1. net[x][y] \in Seq(Message)
  BY DEF TypeOK
<1>2. CASE ~(x = i /\ y = j)
  <2>1. net'[x][y] = IF x = j /\ y = i THEN Tail(net[x][y]) ELSE net[x][y]
    BY <1>2 DEF TakeStep
  <2>2. net[j][i] # <<>>
    BY DEF TakeStep, FollowStep
  <2> QED BY <1>1, <2>1, <2>2, InTail
<1>3. CASE x = i /\ y = j
  <2>1. CASE net'[x][y] = net[x][y]
    BY <2>1
  <2>2. CASE net'[x][y] # net[x][y]
    <3>1. PICK a \in Message :
            /\ net'[i][j] = Append(net[i][j], a)
            /\ a.type = "AppendEntriesResponse"
            /\ a.success => /\ PrevMatches(log[i], Head(net[j][i]))
                            /\ a.term = Head(net[j][i]).term
                            /\ a.index = Len(log'[i])
      BY <1>3, <2>2 DEF TakeStep
    <3>2. In(net'[x][y]) = In(net[x][y]) \cup {a}
      BY <1>1, <1>3, <3>1, InAppend
    <3> QED BY <1>3, <3>1, <3>2
  <2> QED BY <2>1, <2>2
<1> QED BY <1>2, <1>3

LEMMA LogInvTake ==
  ASSUME OddCluster, ElectionInv, TypeOK', [Next]_vars,
         NEW T \in TermLogs, LogInv(T),
         NEW i \in Server, NEW j \in Server, TakeStep(i, j)
  PROVE  LogInv(T)'
<1> DEFINE m == Head(net[j][i])
<1>1. /\ TypeOK /\ UNCHANGED elected /\ net[j][i] # <<>>
      /\ AppendEntries(i, m) /\ state'[i] = "FOLLOWER" /\ currentTerm'[i] = m.term
      /\ \A x \in Server \ {i} : /\ state'[x] = state[x]
                                 /\ currentTerm'[x] = currentTerm[x]
  BY DEF ElectionInv, TakeStep, FollowStep, FollowLeader, TypeOK
<1>2. /\ \A x \in Server \ {i} : log'[x] = log[x]
      /\ log'[i] = log[i] \/ PrevMatches(log[i], m)
  BY <1>1 DEF AppendEntries, TypeOK, logVars
<1> HIDE DEF m
<1>3. TermsLed(T)' /\ LeadersHave(T)' /\ TermLogsMade(T) /\ ReignsOver
  BY <1>1, <1>2 DEF LogInv, TermsLed, LeadersHave
<1>4. ReignsOver'
  BY <1>1, <1>3, ReignsStay
<1>5. RequestsMade(T)'
  <2> SUFFICES ASSUME NEW x \in Server, NEW y \in Server,
                      NEW a \in In(net'[x][y]), IsAppend(a)
               PROVE  PieceOf(a, T[a.term])
    BY DEF RequestsMade
  <2>1. a \in In(net[x][y])
    BY <1>1, TakeIn DEF IsAppend
  <2> QED BY <2>1 DEF LogInv, RequestsMade
<1>6. LogsMade(T)'
  <2> SUFFICES ASSUME NEW x \in Server
               PROVE  FromLeaders(T, log'[x]) /\ TermsUpTo(log'[x], currentTerm'[x])
    BY DEF LogsMade
  <2>1. /\ currentTerm[x] \in Nat /\ currentTerm'[x] \in Nat
        /\ currentTerm[x] <= currentTerm'[x]
        /\ log[x] \in Seq(Entry) /\ log'[x] \in Seq(Entry)
    <3>1. log[x] \in Seq(Entry) /\ log'[x] \in Seq(Entry)
      BY <1>1 DEF TypeOK
    <3> QED BY <3>1, TermsForward
  <2>2. CASE log'[x] = log[x]
    <3>1. FromLeaders(T, log[x]) /\ TermsUpTo(log[x], currentTerm[x])
      BY DEF LogInv, LogsMade
    <3> SUFFICES ASSUME NEW n \in 1..Len(log[x])
                 PROVE  log[x][n].term <= currentTerm'[x]
      BY <2>2, <3>1 DEF TermsUpTo
    <3>2. log[x][n] \in Entry /\ log[x][n].term <= currentTerm[x]
      BY <2>1, <3>1, ElementOfSeq DEF TermsUpTo
    <3>3. log[x][n].term \in Nat
      BY <3>2 DEF Entry
    <3> QED BY <2>1, <3>2, <3>3
  <2>3. CASE log'[x] # log[x]
    <3>1. x = i /\ PrevMatches(log[i], m)
      BY <1>2, <2>3
    <3>2. SameUpTo(log'[i], T[currentTerm'[i]], Len(log'[i]))
      BY <1>1, <3>1, TakeLog DEF m
    <3> QED BY <1>3, <2>1, <3>1, <3>2, PrefixMade
  <2> QED BY <2>2, <2>3
<1> QED BY <1>3, <1>4, <1>5, <1>6 DEF LogInv

LEMMA LogInvNext ==
  ASSUME OddCluster, ElectionInv, ElectionInv', [Next]_vars,
         \E T \in TermLogs : LogInv(T)
  PROVE  \E T \in TermLogs : LogInv(T)'
<1>1. PICK T \in TermLogs : LogInv(T)
  OBVIOUS
<1>2. TypeOK /\ TypeOK' /\ RaftStep
  BY NextRaftStep DEF ElectionInv
<1>3. CASE LogsStay
  BY <1>1, <1>2, <1>3, LogInvStay
<1>4. ASSUME NEW i \in Server, LogStep(i)
      PROVE  \E U \in TermLogs : LogInv(U)'
  <2>1. PICK U : U = [T EXCEPT ![currentTerm[i]] = log'[i]]
    OBVIOUS
  <2> QED BY <1>1, <1>2, <1>4, <2>1, LogInvLog
<1>5. ASSUME NEW i \in Server, LeadStep(i)
      PROVE  \E U \in TermLogs : LogInv(U)'
  <2>1. PICK U : U = [T EXCEPT ![currentTerm[i]] = log[i]]
    OBVIOUS
  <2> QED BY <1>1, <1>5, <2>1, LogInvLead
<1>6. ASSUME NEW i \in Server, NEW j \in Server, TakeStep(i, j)
      PROVE  \E U \in TermLogs : LogInv(U)'
  BY <1>1, <1>2, <1>6, LogInvTake
<1> QED BY <1>2, <1>3, <1>4, <1>5, <1>6, StepsStay DEF RaftStep

LEMMA LogInvInit == Init => \E T \in TermLogs : LogInv(T)
<1> SUFFICES ASSUME Init PROVE \E T \in TermLogs : LogInv(T)
  OBVIOUS
<1> DEFINE T == [t \in Nat |-> <<>>]
<1>1. T \in TermLogs
  BY DEF TermLogs
<1>2. TermsLed(T) /\ TermLogsMade(T)
  BY DEF TermsLed, TermLogsMade, FromLeaders, TermsUpTo
<1>3. LogsMade(T) /\ LeadersHave(T) /\ ReignsOver
  BY DEF Init, LogsMade, FromLeaders, TermsUpTo, LeadersHave, ReignsOver
<1>4. RequestsMade(T)
  BY InEmpty DEF Init, RequestsMade
<1> HIDE DEF T
<1> QED BY <1>1, <1>2, <1>3, <1>4 DEF LogInv

-----------------------------------------------------------------------------
(* The theorem *)

\* Equal up to an index, as the properties of Raft say it.
LEMMA SamePrefix ==
  ASSUME NEW l \in Seq(Entry), NEW k \in Seq(Entry), NEW n \in Nat,
         SameUpTo(l, k, n)
  PROVE  SubSeq(l, 1, n) = SubSeq(k, 1, n)
<1>1. n <= Len(l) /\ n <= Len(k) /\ Len(l) \in Nat /\ Len(k) \in Nat
      /\ \A a \in 1..n : l[a] = k[a]
  BY LenProperties DEF SameUpTo
<1>2. \A a \in 1..n : l[a] \in Entry /\ k[a] \in Entry
  BY <1>1, ElementOfSeq
<1>3. /\ SubSeq(l, 1, n) \in Seq(Entry) /\ Len(SubSeq(l, 1, n)) = n
      /\ \A a \in 1..n : SubSeq(l, 1, n)[a] = l[a]
  <2>1. /\ SubSeq(l, 1, n) \in Seq(Entry)
        /\ Len(SubSeq(l, 1, n)) = IF 1 <= n THEN n - 1 + 1 ELSE 0
        /\ \A a \in 1..(n - 1 + 1) : SubSeq(l, 1, n)[a] = l[1 + a - 1]
    BY <1>2, SubSeqProperties
  <2> QED BY <2>1
<1>4. /\ SubSeq(k, 1, n) \in Seq(Entry) /\ Len(SubSeq(k, 1, n)) = n
      /\ \A a \in 1..n : SubSeq(k, 1, n)[a] = k[a]
  <2>1. /\ SubSeq(k, 1, n) \in Seq(Entry)
        /\ Len(SubSeq(k, 1, n)) = IF 1 <= n THEN n - 1 + 1 ELSE 0
        /\ \A a \in 1..(n - 1 + 1) : SubSeq(k, 1, n)[a] = k[1 + a - 1]
    BY <1>2, SubSeqProperties
  <2> QED BY <2>1
<1> QED BY <1>1, <1>3, <1>4, SeqEqual

LEMMA MatchingImplied ==
  TypeOK /\ (\E T \in TermLogs : LogInv(T)) => LogMatching
<1> SUFFICES ASSUME TypeOK, NEW T \in TermLogs, LogInv(T),
                    NEW i \in Server, NEW j \in Server,
                    NEW n \in (1..Len(log[i])) \cap (1..Len(log[j])),
                    log[i][n].term = log[j][n].term
             PROVE  SubSeq(log[i], 1, n) = SubSeq(log[j], 1, n)
  BY DEF LogMatching
<1>1. /\ log[i] \in Seq(Entry) /\ log[j] \in Seq(Entry)
      /\ FromLeaders(T, log[i]) /\ FromLeaders(T, log[j])
  BY DEF TypeOK, LogInv, LogsMade
<1>2. n \in Nat /\ n \in 1..Len(log[i]) /\ n <= Len(log[j])
  BY <1>1, LenProperties
<1>3. SameUpTo(log[i], log[j], n)
  BY <1>1, <1>2, SameTermSameLog
<1> QED BY <1>1, <1>2, <1>3, SamePrefix

\* In a cluster of odd size, two logs in memory that have an entry of the same
\* term at the same index are the same up to there
\* (AppendEntriesRequest.go keeps, cuts and extends logs entry by entry).
THEOREM LogsMatch ==
  ASSUME OddCluster
  PROVE  Spec => []LogMatching
<1> DEFINE Inv == ElectionInv /\ \E T \in TermLogs : LogInv(T)
<1>1. Init => Inv
  BY ElectionInit, LogInvInit
<1>2. Inv /\ [Next]_vars => Inv'
  BY ElectionNext, LogInvNext
<1>3. Inv => LogMatching
  BY MatchingImplied DEF ElectionInv
<1> QED BY <1>1, <1>2, <1>3, PTL DEF Spec
=============================================================================
