------------------------------- MODULE MCRaft -------------------------------
(* Bounds for model checking Raft. *)
EXTENDS Raft, TLC

CONSTANTS MaxTerm,      \* terms a server may reach
          MaxLog,       \* entries a log may hold
          MaxChan,      \* messages under way from one server to another
          MaxMsgs,      \* messages under way in all
          MaxRedirects  \* client commands given back, on all servers

Redirects(i) == {n \in 1..Len(commitCh[i]) : commitCh[i][n].err}

Bounded ==
  /\ \A i \in Server : currentTerm[i] <= MaxTerm /\ Len(log[i]) <= MaxLog
  /\ \A i, j \in Server : Len(net[i][j]) <= MaxChan
  /\ MapThenSumSet(LAMBDA p : Len(net[p[1]][p[2]]), Server \X Server) <= MaxMsgs
  /\ MapThenSumSet(LAMBDA i : Cardinality(Redirects(i)), Server) <= MaxRedirects

\* The elections of Raft, messages and counts aside, are those of Election: a
\* server votes in ever later terms, a leader has the votes of a majority.
Voting == INSTANCE Election WITH
  Term <- 0..(MaxTerm + 1),
  Quorum <- {Q \in SUBSET Server : 2 * Cardinality(Q) > Cardinality(Server)}

ImplementsElection == Voting!Spec

Symmetry == Permutations(Server) \cup Permutations(Cmd)

\* No two servers campaign in the same term.
NoRivals == \A a, b \in ballots : a.term = b.term => a.candidate = b.candidate

\* Commands tell terms apart: every leader takes one command, over and over,
\* and no two leaders the same.
CommandPerTerm ==
  \A i, j \in Server : \A m \in 1..Len(log[i]), n \in 1..Len(log[j]) :
    log[i][m].term = log[j][n].term <=> log[i][m].cmd = log[j][n].cmd
=============================================================================
