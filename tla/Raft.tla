-------------------------------- MODULE Raft --------------------------------
(***************************************************************************)
(* The consensus core of the replicated file server (src/assign4): the     *)
(* state machine of state.go, Timeout.go, Append.go, VoteRequest.go,       *)
(* VoteResponse.go, AppendEntriesRequest.go and AppendEntriesResponse.go,  *)
(* together with what ActionHandler.go does with the actions it returns.   *)
(*                                                                         *)
(* One TLA+ action is one call of ProcessEvent followed by doActions.      *)
(* Conventions:                                                            *)
(*   - an index is the code's index plus one, so the code's -1 is 0 and    *)
(*     logCurrentIndex is Len(log[i]);                                     *)
(*   - Nobody is the code's votedFor = 0;                                  *)
(*   - CandidateId, LeaderId and FromId always name the sending server, so *)
(*     the channel a message travels in stands for them;                   *)
(*   - net[i][j] holds what i has sent to j and j has not yet processed:   *)
(*     i's Outbox, the connection, j's Inbox and j's EventCh in a row.     *)
(***************************************************************************)
EXTENDS Integers, Sequences, FiniteSets, FiniteSetsExt

CONSTANTS Server,   \* the servers of the cluster
          Nobody,   \* votedFor = 0
          Cmd       \* the commands clients append

ASSUME ServerAssumption == IsFiniteSet(Server) /\ Nobody \notin Server

VARIABLES
  \* the fields of StateMachine
  state, currentTerm, votedFor, log, logCommitIndex,
  nextIndex, matchIndex, yesVotesNum, noVotesNum,
  \* the fields of RaftNode the actions write to
  up,          \* the servers whose process runs
  logFile,     \* the entries of the log on disk (logFP)
  stateFile,   \* the line last written to the state file (stateFP)
  commitCh,    \* everything put in CommitCh so far
  \* the messages under way
  net,
  \* history: every vote cast, every election won
  ballots, elected

termVars   == <<state, currentTerm, votedFor>>
logVars    == <<log, logCommitIndex>>
leaderVars == <<nextIndex, matchIndex>>
tallyVars  == <<yesVotesNum, noVotesNum>>
diskVars   == <<logFile, stateFile>>
history    == <<ballots, elected>>
vars == <<termVars, logVars, leaderVars, tallyVars, diskVars,
          up, commitCh, net, history>>

Peers(i) == Server \ {i}

-----------------------------------------------------------------------------
(* Slips: what single definitions below could say by mistake. Each is put in *)
(* the place of its definition to see that the properties notice.            *)

\* the log of the candidate against that of the voter, the wrong way round
SlipUpToDate(l, m) ==
  l # <<>> => \/ m.lastLogTerm < l[Len(l)].term
              \/ m.lastLogTerm = l[Len(l)].term /\ m.lastLogIndex <= Len(l)

SlipVoteOpen(i, j, m) == currentTerm[i] <= m.term

SlipStaleVote(i, m) == FALSE

SlipAgreesUpTo(l, m, n) == m.prevLogIndex + n <= Len(l)

SlipNewCommit(commit, len, m) == Min({m.leaderCommit, len})

SlipAppendResponseMsg(t, ok, n) ==
  [type |-> "AppendEntriesResponse", term |-> t, success |-> ok, index |-> n - 1]

-----------------------------------------------------------------------------
(* Data *)

Entry == [term : Nat, cmd : Cmd]

CommitInfo == [index : Nat, cmd : Cmd, err : BOOLEAN]

VoteRequestEvent ==
  [type : {"VoteRequest"}, term : Nat, lastLogIndex : Nat, lastLogTerm : Nat]

VoteResponseEvent ==
  [type : {"VoteResponse"}, term : Nat, granted : BOOLEAN]

AppendEntriesRequestEvent ==
  [type : {"AppendEntriesRequest"}, term : Nat, prevLogIndex : Nat,
   prevLogTerm : Nat, entries : Seq(Entry), leaderCommit : Nat]

AppendEntriesResponseEvent ==
  [type : {"AppendEntriesResponse"}, term : Nat, success : BOOLEAN, index : Nat]

Message == VoteRequestEvent \cup VoteResponseEvent
             \cup AppendEntriesRequestEvent \cup AppendEntriesResponseEvent

\* The term of the entry at index n of a log, 0 before the first one.
TermAt(l, n) == IF n = 0 THEN 0 ELSE l[n].term

\* The number of answers, its own vote included, that make a majority.
Majority == (Cardinality(Server) - 1) \div 2 + 1

\* A candidate's log, as it describes it in m, is no older than log l.
UpToDate(l, m) ==
  \/ TermAt(l, Len(l)) < m.lastLogTerm
  \/ TermAt(l, Len(l)) = m.lastLogTerm /\ Len(l) <= m.lastLogIndex

\* Server i considers the vote request m of j at all.
VoteOpen(i, j, m) ==
  \/ currentTerm[i] < m.term
  \/ currentTerm[i] = m.term /\ votedFor[i] \in {Nobody, j}

\* A candidate drops an answer to an earlier campaign.
StaleVote(i, m) == m.term < currentTerm[i]

\* Log l holds the entry that precedes those of the append request m.
PrevMatches(l, m) ==
  m.prevLogIndex # 0 =>
    m.prevLogIndex <= Len(l) /\ l[m.prevLogIndex].term = m.prevLogTerm

\* Log l agrees with the first n entries of m.
AgreesUpTo(l, m, n) ==
  \A k \in 1..n : /\ m.prevLogIndex + k <= Len(l)
                  /\ l[m.prevLogIndex + k].term = m.entries[k].term

\* How many entries of l stay when m is accepted: all up to the first
\* conflict, and never one past the end of m.
Kept(l, m) ==
  m.prevLogIndex
    + Cardinality({n \in 1..Len(m.entries) : AgreesUpTo(l, m, n)})

Added(l, m) ==
  SubSeq(m.entries, Kept(l, m) - m.prevLogIndex + 1, Len(m.entries))

NewLog(l, m) == SubSeq(l, 1, Kept(l, m)) \o Added(l, m)

\* The commit index after accepting m, when the new log has length len.
NewCommit(commit, len, m) ==
  IF m.leaderCommit > commit THEN Min({m.leaderCommit, len}) ELSE commit

\* What committing the entries of l after index from, up to index to, emits.
CommitInfos(l, from, to) ==
  [k \in 1..(to - from) |->
     [index |-> from + k, cmd |-> l[from + k].cmd, err |-> FALSE]]

\* The log on disk after a LogStore for each of new, the first one for the
\* index after s: a LogStore that finds its index taken only cuts the log
\* there, any other one appends at the end, wherever the end is.
LogStores(f, s, new) ==
  IF new # <<>> /\ Len(f) > s THEN SubSeq(f, 1, s) \o Tail(new) ELSE f \o new

-----------------------------------------------------------------------------
(* Messages and channels *)

VoteRequestMsg(i) ==
  [type |-> "VoteRequest", term |-> currentTerm'[i],
   lastLogIndex |-> Len(log[i]), lastLogTerm |-> TermAt(log[i], Len(log[i]))]

VoteResponseMsg(t, yes) ==
  [type |-> "VoteResponse", term |-> t, granted |-> yes]

AppendResponseMsg(t, ok, n) ==
  [type |-> "AppendEntriesResponse", term |-> t, success |-> ok, index |-> n]

\* The append request of leader i with every entry from index n on. Building
\* it indexes the log at n - 1: beyond the end the process panics.
CanBuildAppend(i, n) == n <= Len(log[i]) + 1

AppendRequestMsg(i, n) ==
  [type |-> "AppendEntriesRequest", term |-> currentTerm[i],
   prevLogIndex |-> n - 1, prevLogTerm |-> TermAt(log[i], n - 1),
   entries |-> SubSeq(log[i], n, Len(log[i])),
   leaderCommit |-> logCommitIndex[i]]

\* The next event of running server i is the message of j at the head of
\* their channel, which is of the given type.
Receives(i, j, type) ==
  /\ i \in up
  /\ net[j][i] # <<>>
  /\ Head(net[j][i]).type = type

Consume(i, j) == net' = [net EXCEPT ![j][i] = Tail(@)]

ConsumeAndSend(i, j, m) ==
  LET rest == [net EXCEPT ![j][i] = Tail(@)]
  IN  net' = [rest EXCEPT ![i][j] = Append(@, m)]

\* channels n after i has sent m[p] to every peer p
SendToPeers(n, i, m) ==
  [n EXCEPT ![i] = [p \in Server |->
     IF p = i THEN n[i][p] ELSE Append(n[i][p], m[p])]]

\* StateStore{sm.state, sm.currentTerm, sm.votedFor} once the handler is done
StateStore(i) ==
  stateFile' = [stateFile EXCEPT ![i] =
    [state |-> state'[i], term |-> currentTerm'[i], votedFor |-> votedFor'[i]]]

\* Server i enters term t as a follower that has not voted.
EnterTerm(i, t) ==
  /\ currentTerm' = [currentTerm EXCEPT ![i] = t]
  /\ state' = [state EXCEPT ![i] = "FOLLOWER"]
  /\ votedFor' = [votedFor EXCEPT ![i] = Nobody]

-----------------------------------------------------------------------------
(* Initial state: main initialises the state file, the log directory is new *)

Init ==
  /\ state = [i \in Server |-> "FOLLOWER"]
  /\ currentTerm = [i \in Server |-> 0]
  /\ votedFor = [i \in Server |-> Nobody]
  /\ log = [i \in Server |-> <<>>]
  /\ logCommitIndex = [i \in Server |-> 0]
  /\ nextIndex = [i \in Server |-> [j \in Server |-> 1]]
  /\ matchIndex = [i \in Server |-> [j \in Server |-> 0]]
  /\ yesVotesNum = [i \in Server |-> 0]
  /\ noVotesNum = [i \in Server |-> 0]
  /\ up = Server
  /\ logFile = [i \in Server |-> <<>>]
  /\ stateFile = [i \in Server |->
       [state |-> "FOLLOWER", term |-> 0, votedFor |-> Nobody]]
  /\ commitCh = [i \in Server |-> <<>>]
  /\ net = [i \in Server |-> [j \in Server |-> <<>>]]
  /\ ballots = {}
  /\ elected = {}

-----------------------------------------------------------------------------
(* Timeouts *)

\* A leader whose heartbeat timer fires sends every peer what it may lack.
TimeoutLeader(i) ==
  /\ i \in up /\ state[i] = "LEADER"
  /\ IF \A p \in Peers(i) : CanBuildAppend(i, nextIndex[i][p])
       THEN /\ net' = SendToPeers(net, i,
                 [p \in Peers(i) |-> AppendRequestMsg(i, nextIndex[i][p])])
            /\ UNCHANGED up
       ELSE /\ up' = up \ {i}
            /\ UNCHANGED net
  /\ UNCHANGED <<termVars, logVars, leaderVars, tallyVars, diskVars,
                 commitCh, history>>

\* A follower or candidate whose election timer fires campaigns.
TimeoutElection(i) ==
  /\ i \in up /\ state[i] \in {"FOLLOWER", "CANDIDATE"}
  /\ currentTerm' = [currentTerm EXCEPT ![i] = @ + 1]
  /\ state' = [state EXCEPT ![i] = "CANDIDATE"]
  /\ votedFor' = [votedFor EXCEPT ![i] = i]
  /\ StateStore(i)
  /\ yesVotesNum' = [yesVotesNum EXCEPT ![i] = 1]
  /\ noVotesNum' = [noVotesNum EXCEPT ![i] = 0]
  /\ net' = SendToPeers(net, i, [p \in Peers(i) |-> VoteRequestMsg(i)])
  /\ ballots' = ballots \cup
       {[term |-> currentTerm'[i], voter |-> i, candidate |-> i]}
  /\ UNCHANGED <<logVars, leaderVars, logFile, up, commitCh, elected>>

-----------------------------------------------------------------------------
(* A client's command *)

\* The leader appends it, in memory and on disk; a heartbeat will spread it.
AppendLeader(i, c) ==
  /\ i \in up /\ state[i] = "LEADER"
  /\ LET e == [term |-> currentTerm[i], cmd |-> c] IN
       /\ log' = [log EXCEPT ![i] = Append(@, e)]
       /\ logFile' = [logFile EXCEPT ![i] =
            LogStores(@, Len(log[i]), <<e>>)]
  /\ UNCHANGED <<termVars, logCommitIndex, leaderVars, tallyVars, stateFile,
                 up, commitCh, net, history>>

\* Any other server gives it back, with an error.
AppendFollowerOrCandidate(i, c) ==
  /\ i \in up /\ state[i] # "LEADER"
  /\ commitCh' = [commitCh EXCEPT ![i] =
       Append(@, [index |-> 0, cmd |-> c, err |-> TRUE])]
  /\ UNCHANGED <<termVars, logVars, leaderVars, tallyVars, diskVars,
                 up, net, history>>

-----------------------------------------------------------------------------
(* Vote requests *)

\* Server i, in the term of m, votes for j if j's log allows it, and answers.
CastVote(i, j, m) ==
  LET yes == UpToDate(log[i], m) IN
  /\ currentTerm' = [currentTerm EXCEPT ![i] = m.term]
  /\ state' = [state EXCEPT ![i] = "FOLLOWER"]
  /\ votedFor' = [votedFor EXCEPT ![i] =
       IF yes THEN j ELSE IF currentTerm[i] < m.term THEN Nobody ELSE @]
  /\ ConsumeAndSend(i, j, VoteResponseMsg(m.term, yes))
  /\ ballots' = IF yes
       THEN ballots \cup {[term |-> m.term, voter |-> i, candidate |-> j]}
       ELSE ballots

\* Server i refuses its vote and keeps its state.
RefuseVote(i, j) ==
  /\ ConsumeAndSend(i, j, VoteResponseMsg(currentTerm[i], FALSE))
  /\ UNCHANGED <<termVars, stateFile, ballots>>

VoteRequestLeaderOrCandidate(i, j) ==
  /\ Receives(i, j, "VoteRequest")
  /\ state[i] \in {"LEADER", "CANDIDATE"}
  /\ LET m == Head(net[j][i]) IN
       \/ /\ currentTerm[i] < m.term
          /\ CastVote(i, j, m)
          /\ StateStore(i)
       \/ /\ currentTerm[i] >= m.term
          /\ RefuseVote(i, j)
  /\ UNCHANGED <<logVars, leaderVars, tallyVars, logFile, up, commitCh, elected>>

\* A vote given in the term the follower was already in is not stored.
VoteRequestFollower(i, j) ==
  /\ Receives(i, j, "VoteRequest")
  /\ state[i] = "FOLLOWER"
  /\ LET m == Head(net[j][i]) IN
       \/ /\ VoteOpen(i, j, m)
          /\ CastVote(i, j, m)
          /\ IF currentTerm[i] < m.term THEN StateStore(i)
                                        ELSE UNCHANGED stateFile
       \/ /\ ~VoteOpen(i, j, m)
          /\ RefuseVote(i, j)
  /\ UNCHANGED <<logVars, leaderVars, tallyVars, logFile, up, commitCh, elected>>

-----------------------------------------------------------------------------
(* Answers to vote requests *)

VoteResponseLeader(i, j) ==
  /\ Receives(i, j, "VoteResponse")
  /\ state[i] = "LEADER"
  /\ Consume(i, j)
  /\ UNCHANGED <<termVars, logVars, leaderVars, tallyVars, diskVars,
                 up, commitCh, history>>

VoteResponseFollower(i, j) ==
  /\ Receives(i, j, "VoteResponse")
  /\ state[i] = "FOLLOWER"
  /\ LET m == Head(net[j][i]) IN
       \/ /\ m.term > currentTerm[i]
          /\ EnterTerm(i, m.term)
          /\ StateStore(i)
       \/ /\ m.term <= currentTerm[i]
          /\ UNCHANGED <<termVars, stateFile>>
  /\ Consume(i, j)
  /\ UNCHANGED <<logVars, leaderVars, tallyVars, logFile,
                 up, commitCh, history>>

\* The candidate has its majority: it leads, and says so with an empty append
\* request at the end of its log to every peer.
BecomeLeader(i, j) ==
  /\ state' = [state EXCEPT ![i] = "LEADER"]
  /\ UNCHANGED <<currentTerm, votedFor>>
  /\ StateStore(i)
  /\ matchIndex' = [matchIndex EXCEPT ![i] = [p \in Server |-> 0]]
  /\ nextIndex' = [nextIndex EXCEPT ![i] = [p \in Server |-> Len(log[i]) + 1]]
  /\ net' = SendToPeers([net EXCEPT ![j][i] = Tail(@)], i,
              [p \in Peers(i) |-> AppendRequestMsg(i, Len(log[i]) + 1)])
  /\ elected' = elected \cup {<<currentTerm[i], i>>}

\* Votes are counted by number; who sent them is not looked at.
VoteResponseCandidate(i, j) ==
  /\ Receives(i, j, "VoteResponse")
  /\ state[i] = "CANDIDATE"
  /\ LET m == Head(net[j][i]) IN
       \/ /\ StaleVote(i, m)
          /\ Consume(i, j)
          /\ UNCHANGED <<termVars, tallyVars, leaderVars, stateFile, elected>>
       \/ /\ ~StaleVote(i, m) /\ m.granted
          /\ yesVotesNum' = [yesVotesNum EXCEPT ![i] = @ + 1]
          /\ UNCHANGED noVotesNum
          /\ IF yesVotesNum'[i] >= Majority
               THEN BecomeLeader(i, j)
               ELSE /\ Consume(i, j)
                    /\ UNCHANGED <<termVars, leaderVars, stateFile, elected>>
       \/ /\ ~StaleVote(i, m) /\ ~m.granted /\ m.term > currentTerm[i]
          /\ EnterTerm(i, m.term)
          /\ StateStore(i)
          /\ Consume(i, j)
          /\ UNCHANGED <<tallyVars, leaderVars, elected>>
       \/ /\ ~StaleVote(i, m) /\ ~m.granted /\ m.term <= currentTerm[i]
          /\ noVotesNum' = [noVotesNum EXCEPT ![i] = @ + 1]
          /\ IF noVotesNum'[i] >= Majority
               THEN /\ state' = [state EXCEPT ![i] = "FOLLOWER"]
                    /\ UNCHANGED <<currentTerm, votedFor>>
                    /\ StateStore(i)
               ELSE UNCHANGED <<termVars, stateFile>>
          /\ Consume(i, j)
          /\ UNCHANGED <<yesVotesNum, leaderVars, elected>>
  /\ UNCHANGED <<logVars, logFile, up, commitCh, ballots>>

-----------------------------------------------------------------------------
(* Append requests *)

\* A follower of the term of m refuses m, or takes its entries in.
AppendEntries(i, m) ==
  \/ /\ ~PrevMatches(log[i], m)
     /\ UNCHANGED logVars
  \/ /\ PrevMatches(log[i], m)
     /\ log' = [log EXCEPT ![i] = NewLog(@, m)]
     /\ logCommitIndex' = [logCommitIndex EXCEPT ![i] =
          NewCommit(@, Len(log'[i]), m)]

\* j leads the term of m: i follows it, whatever i was and whoever had i's vote.
FollowLeader(i, j, m) ==
  /\ currentTerm' = [currentTerm EXCEPT ![i] = m.term]
  /\ state' = [state EXCEPT ![i] = "FOLLOWER"]
  /\ votedFor' = [votedFor EXCEPT ![i] = j]

\* The request of a leader of an earlier term is refused.
RefuseAppend(i, j) ==
  /\ ConsumeAndSend(i, j,
       AppendResponseMsg(currentTerm[i], FALSE, Len(log[i])))
  /\ UNCHANGED <<termVars, logVars, diskVars, commitCh>>

\* The actions the follower's handler returns are nested in one element of
\* the list this handler returns, and doActions skips that element: memory
\* changes, and nothing is stored, sent or put in CommitCh.
AppendEntriesRequestLeaderOrCandidate(i, j) ==
  /\ Receives(i, j, "AppendEntriesRequest")
  /\ state[i] \in {"LEADER", "CANDIDATE"}
  /\ LET m == Head(net[j][i]) IN
       \/ /\ currentTerm[i] > m.term
          /\ RefuseAppend(i, j)
       \/ /\ currentTerm[i] <= m.term
          /\ FollowLeader(i, j, m)
          /\ AppendEntries(i, m)
          /\ Consume(i, j)
          /\ UNCHANGED <<diskVars, commitCh>>
  /\ UNCHANGED <<leaderVars, tallyVars, up, history>>

AppendEntriesRequestFollower(i, j) ==
  /\ Receives(i, j, "AppendEntriesRequest")
  /\ state[i] = "FOLLOWER"
  /\ LET m == Head(net[j][i])
         ok == PrevMatches(log[i], m)
     IN \/ /\ currentTerm[i] > m.term
           /\ RefuseAppend(i, j)
        \/ /\ currentTerm[i] <= m.term
           /\ FollowLeader(i, j, m)
           /\ AppendEntries(i, m)
           /\ StateStore(i)
           /\ ConsumeAndSend(i, j, AppendResponseMsg(m.term, ok, Len(log'[i])))
           /\ IF ok
                THEN /\ logFile' = [logFile EXCEPT ![i] =
                          LogStores(@, Kept(log[i], m), Added(log[i], m))]
                     /\ commitCh' = [commitCh EXCEPT ![i] = @ \o
                          CommitInfos(log'[i], logCommitIndex[i],
                                      logCommitIndex'[i])]
                ELSE UNCHANGED <<logFile, commitCh>>
  /\ UNCHANGED <<leaderVars, tallyVars, up, history>>

-----------------------------------------------------------------------------
(* Answers to append requests *)

\* Given what leader i believes of its peers (match), the entries it may
\* commit: of its own term, and on a majority.
Committable(i, match) ==
  {n \in {match[p] : p \in Peers(i)} :
     /\ n > logCommitIndex[i]
     /\ TermAt(log[i], n) = currentTerm[i]
     /\ 1 + Cardinality({p \in Peers(i) : match[p] >= n}) >= Majority}

\* The check indexes the log at every belief not yet committed.
BeyondLog(i, match) ==
  \E p \in Peers(i) : match[p] > logCommitIndex[i] /\ match[p] > Len(log[i])

\* Leader i commits the latest entry it may, if any.
AdvanceCommit(i, match) ==
  \/ /\ Committable(i, match) = {}
     /\ UNCHANGED <<logCommitIndex, commitCh>>
  \/ \E n \in Committable(i, match) :
       /\ \A k \in Committable(i, match) : k <= n
       /\ commitCh' = [commitCh EXCEPT ![i] =
            @ \o CommitInfos(log[i], logCommitIndex[i], n)]
       /\ logCommitIndex' = [logCommitIndex EXCEPT ![i] = n]

OneBack(n) == IF n > 1 THEN n - 1 ELSE 1

\* j has refused in the term of i or before: i goes one entry back and resends.
BackUp(i, j) ==
  LET n == OneBack(nextIndex[i][j]) IN
  IF CanBuildAppend(i, n)
    THEN /\ nextIndex' = [nextIndex EXCEPT ![i][j] = n]
         /\ ConsumeAndSend(i, j, AppendRequestMsg(i, n))
         /\ UNCHANGED up
    ELSE /\ up' = up \ {i}
         /\ Consume(i, j)
         /\ UNCHANGED nextIndex

\* j has accepted: i records how far, whatever the term of the answer, and
\* commits what it can.
RecordMatch(i, j, m) ==
  LET match == [matchIndex[i] EXCEPT ![j] = m.index] IN
  /\ Consume(i, j)
  /\ IF BeyondLog(i, match)
       THEN /\ up' = up \ {i}
            /\ UNCHANGED <<leaderVars, logCommitIndex, commitCh>>
       ELSE /\ nextIndex' = [nextIndex EXCEPT ![i][j] = m.index + 1]
            /\ matchIndex' = [matchIndex EXCEPT ![i] = match]
            /\ AdvanceCommit(i, match)
            /\ UNCHANGED up

AppendEntriesResponseLeader(i, j) ==
  /\ Receives(i, j, "AppendEntriesResponse")
  /\ state[i] = "LEADER"
  /\ LET m == Head(net[j][i]) IN
       \/ /\ ~m.success /\ m.term > currentTerm[i]
          /\ EnterTerm(i, m.term)
          /\ StateStore(i)
          /\ Consume(i, j)
          /\ UNCHANGED <<leaderVars, logCommitIndex, commitCh, up>>
       \/ /\ ~m.success /\ m.term <= currentTerm[i]
          /\ BackUp(i, j)
          /\ UNCHANGED <<termVars, stateFile, matchIndex, logCommitIndex,
                         commitCh>>
       \/ /\ m.success
          /\ RecordMatch(i, j, m)
          /\ UNCHANGED <<termVars, stateFile>>
  /\ UNCHANGED <<log, tallyVars, logFile, history>>

\* The dispatcher drops the action returned here: the new term is not stored.
AppendEntriesResponseFollowerOrCandidate(i, j) ==
  /\ Receives(i, j, "AppendEntriesResponse")
  /\ state[i] \in {"FOLLOWER", "CANDIDATE"}
  /\ LET m == Head(net[j][i]) IN
       \/ m.term > currentTerm[i] /\ EnterTerm(i, m.term)
       \/ m.term <= currentTerm[i] /\ UNCHANGED termVars
  /\ Consume(i, j)
  /\ UNCHANGED <<logVars, leaderVars, tallyVars, diskVars,
                 up, commitCh, history>>

-----------------------------------------------------------------------------
(* The network: a connection that breaks loses the messages at its head *)

Lose(i, j) ==
  /\ net[i][j] # <<>>
  /\ net' = [net EXCEPT ![i][j] = Tail(@)]
  /\ UNCHANGED <<termVars, logVars, leaderVars, tallyVars, diskVars,
                 up, commitCh, history>>

-----------------------------------------------------------------------------

Receive(i, j) ==
  \/ VoteRequestLeaderOrCandidate(i, j)
  \/ VoteRequestFollower(i, j)
  \/ VoteResponseLeader(i, j)
  \/ VoteResponseFollower(i, j)
  \/ VoteResponseCandidate(i, j)
  \/ AppendEntriesRequestLeaderOrCandidate(i, j)
  \/ AppendEntriesRequestFollower(i, j)
  \/ AppendEntriesResponseLeader(i, j)
  \/ AppendEntriesResponseFollowerOrCandidate(i, j)

Next ==
  \/ \E i \in Server : TimeoutLeader(i)
  \/ \E i \in Server : TimeoutElection(i)
  \/ \E i \in Server, c \in Cmd : AppendLeader(i, c)
  \/ \E i \in Server, c \in Cmd : AppendFollowerOrCandidate(i, c)
  \/ \E i, j \in Server : Receive(i, j)
  \/ \E i, j \in Server : Lose(i, j)

Spec == Init /\ [][Next]_vars

-----------------------------------------------------------------------------
(* What must hold *)

\* Every variable has its type; only running servers answer.
TypeOK ==
  /\ state \in [Server -> {"FOLLOWER", "CANDIDATE", "LEADER"}]
  /\ currentTerm \in [Server -> Nat]
  /\ votedFor \in [Server -> Server \cup {Nobody}]
  /\ log \in [Server -> Seq(Entry)]
  /\ logCommitIndex \in [Server -> Nat]
  /\ nextIndex \in [Server -> [Server -> Nat \ {0}]]
  /\ matchIndex \in [Server -> [Server -> Nat]]
  /\ yesVotesNum \in [Server -> Nat]
  /\ noVotesNum \in [Server -> Nat]
  /\ up \subseteq Server
  /\ logFile \in [Server -> Seq(Entry)]
  /\ stateFile \in [Server -> [state : {"FOLLOWER", "CANDIDATE", "LEADER"},
                               term : Nat, votedFor : Server \cup {Nobody}]]
  /\ commitCh \in [Server -> Seq(CommitInfo)]
  /\ net \in [Server -> [Server -> Seq(Message)]]
  /\ ballots \subseteq [term : Nat, voter : Server, candidate : Server]
  /\ elected \subseteq Nat \X Server

\* At most one server is ever elected in a term (VoteResponse.go counts
\* answers, VoteRequest.go gives them; nothing else keeps leaders apart).
ElectionSafety ==
  \A a, b \in elected : a[1] = b[1] => a[2] = b[2]

\* A leader was voted for by more than half of the servers of the cluster.
ElectedByMajority ==
  \A e \in elected :
    2 * Cardinality({b \in ballots : b.term = e[1] /\ b.candidate = e[2]})
      > Cardinality(Server)

\* No server votes for two candidates in one term, although following a leader
\* overwrites votedFor in the middle of a term (AppendEntriesRequest.go).
OneVotePerTerm ==
  \A a, b \in ballots :
    a.term = b.term /\ a.voter = b.voter => a.candidate = b.candidate

\* A candidate, and the leader it becomes, never counts more votes than servers
\* voted for it in its term, although VoteResponseCandidate does not look at
\* who answers.
TallyHonest ==
  \A i \in Server : state[i] # "FOLLOWER" =>
    yesVotesNum[i] <= Cardinality(
      {b \in ballots : b.term = currentTerm[i] /\ b.candidate = i})

\* Two logs in memory that have an entry of the same term at the same index
\* are the same up to there.
LogMatching ==
  \A i, j \in Server :
    \A n \in (1..Len(log[i])) \cap (1..Len(log[j])) :
      log[i][n].term = log[j][n].term =>
        SubSeq(log[i], 1, n) = SubSeq(log[j], 1, n)

\* No server has led twice. A leader counts an acknowledgement whatever its
\* term, so one it gets from an earlier reign of its own can deceive it; the
\* four properties below are promised only while that cannot happen.
OneReign == \A a, b \in elected : a[2] = b[2] => a[1] = b[1]

\* What a leader believes to be on a peer of its term is there
\* (RecordMatch: matchIndex and nextIndex are set from the peer's last index).
MatchTruthful ==
  OneReign => \A i \in Server : \A p \in Peers(i) :
    state[i] = "LEADER" /\ currentTerm[p] = currentTerm[i] =>
      /\ matchIndex[i][p] <= Len(log[p]) /\ matchIndex[i][p] <= Len(log[i])
      /\ SubSeq(log[p], 1, matchIndex[i][p]) = SubSeq(log[i], 1, matchIndex[i][p])

\* A leader of a term not older than that of server j has every entry j knows
\* to be committed.
LeaderCompleteness ==
  OneReign => \A i, j \in Server :
    state[i] = "LEADER" /\ currentTerm[i] >= currentTerm[j] =>
      /\ logCommitIndex[j] <= Len(log[i])
      /\ logCommitIndex[j] <= Len(log[j])
      /\ SubSeq(log[i], 1, logCommitIndex[j]) = SubSeq(log[j], 1, logCommitIndex[j])

\* No two entries ever put in any CommitCh for the same index differ.
StateMachineSafety ==
  OneReign => \A i, j \in Server :
    \A a \in 1..Len(commitCh[i]), b \in 1..Len(commitCh[j]) :
      /\ ~commitCh[i][a].err /\ ~commitCh[j][b].err
      /\ commitCh[i][a].index = commitCh[j][b].index
      => commitCh[i][a].cmd = commitCh[j][b].cmd

\* A server puts committed entries in its CommitCh in the order of the log and
\* none of them twice (the file system above applies them as they come).
CommitChOrdered ==
  OneReign => \A i \in Server : \A a, b \in 1..Len(commitCh[i]) :
    a < b /\ ~commitCh[i][a].err /\ ~commitCh[i][b].err =>
      commitCh[i][a].index < commitCh[i][b].index

\* The same, whatever the reigns: all servers apply the same commands
\* (README.md: "eventually all server be in same state").
SameCommands ==
  \A i, j \in Server :
    \A a \in 1..Len(commitCh[i]), b \in 1..Len(commitCh[j]) :
      /\ ~commitCh[i][a].err /\ ~commitCh[j][b].err
      /\ commitCh[i][a].index = commitCh[j][b].index
      => commitCh[i][a].cmd = commitCh[j][b].cmd

\* The log of a running server is on its disk (state.go: "persistent").
LogOnDisk == \A i \in up : logFile[i] = log[i]

\* A leader is never made to step down by a message of its own term, although
\* AppendEntriesRequestLeaderOrCandidate would let it.
LeaderKeepsTerm ==
  [][\A i \in Server : state[i] = "LEADER" /\ state'[i] # "LEADER" =>
       currentTerm'[i] > currentTerm[i]]_vars

\* A server never goes back to an earlier term, and within a term its votedFor
\* changes only from Nobody or to the leader elected in that term.
VoteFixed ==
  [][\A i \in Server :
       /\ currentTerm'[i] >= currentTerm[i]
       /\ currentTerm'[i] = currentTerm[i] /\ votedFor'[i] # votedFor[i] =>
            \/ votedFor[i] = Nobody
            \/ <<currentTerm[i], votedFor'[i]>> \in elected]_vars

=============================================================================
