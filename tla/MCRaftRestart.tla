--------------------------- MODULE MCRaftRestart ---------------------------
(* Bounds for model checking RaftRestart. *)
EXTENDS RaftRestart, TLC

CONSTANTS MaxTerm,  \* terms a server may reach
          MaxLog,   \* entries a log may hold
          MaxChan   \* messages under way from one server to another

Bounded ==
  /\ \A i \in Server : /\ currentTerm[i] <= MaxTerm
                       /\ Len(log[i]) <= MaxLog
                       /\ commitCh[i] = <<>>
  /\ \A i, j \in Server : Len(net[i][j]) <= MaxChan

Symmetry == Permutations(Server)
=============================================================================
