---------------------------- MODULE RaftRestart ----------------------------
(***************************************************************************)
(* Raft with servers that stop and come back (RaftNode.go: Shutdown,       *)
(* RestartNode, BringNodeUp, InitializeStateMachine).                      *)
(*                                                                         *)
(* A restarted server takes its log from the log directory and its term    *)
(* and vote from ReadState, which reads the FIRST line of the state file.  *)
(* WriteState only ever adds lines behind it, and main has put             *)
(* "FOLLOWER 0 0" there: that is what every restart finds.                 *)
(***************************************************************************)
EXTENDS Raft

InitialState == [state |-> "FOLLOWER", term |-> 0, votedFor |-> Nobody]

\* The line ReadState finds in the state file of i.
ReadState(i) == InitialState

\* Server i stops, on purpose or not. What it had not yet handed to the
\* connections is lost: of each channel from i, some messages stay.
Stop(i) ==
  /\ i \in up
  /\ up' = up \ {i}
  /\ \E sent \in [Peers(i) -> UNION {0..Len(net[i][p]) : p \in Peers(i)}] :
       /\ \A p \in Peers(i) : sent[p] <= Len(net[i][p])
       /\ net' = [net EXCEPT ![i] = [p \in Server |->
            IF p = i THEN <<>> ELSE SubSeq(net[i][p], 1, sent[p])]]
  /\ UNCHANGED <<termVars, logVars, leaderVars, tallyVars, diskVars,
                 commitCh, history>>

\* The process of server i starts on the files it left.
Start(i) ==
  /\ i \notin up
  /\ up' = up \cup {i}
  /\ state' = [state EXCEPT ![i] = ReadState(i).state]
  /\ currentTerm' = [currentTerm EXCEPT ![i] = ReadState(i).term]
  /\ votedFor' = [votedFor EXCEPT ![i] = ReadState(i).votedFor]
  /\ log' = [log EXCEPT ![i] = logFile[i]]
  /\ logCommitIndex' = [logCommitIndex EXCEPT ![i] = 0]
  /\ nextIndex' = [nextIndex EXCEPT ![i] =
       [p \in Server |-> Len(logFile[i]) + 1]]
  /\ matchIndex' = [matchIndex EXCEPT ![i] = [p \in Server |-> 0]]
  /\ yesVotesNum' = [yesVotesNum EXCEPT ![i] = 0]
  /\ noVotesNum' = [noVotesNum EXCEPT ![i] = 0]
  /\ commitCh' = [commitCh EXCEPT ![i] = <<>>]
  /\ UNCHANGED <<logFile, net, history>>

\* main, told "true": RestartNode alone.
RestartNode(i) == Start(i) /\ UNCHANGED stateFile

\* main, told "false": the state file gets its initial line, then RestartNode.
\* The log directory is left as it is.
BringNodeUp(i) ==
  /\ Start(i)
  /\ stateFile' = [stateFile EXCEPT ![i] = InitialState]

RestartNext ==
  \/ Next
  \/ \E i \in Server : Stop(i)
  \/ \E i \in Server : RestartNode(i)
  \/ \E i \in Server : BringNodeUp(i)

RestartSpec == Init /\ [][RestartNext]_vars
=============================================================================
