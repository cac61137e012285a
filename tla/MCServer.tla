------------------------------ MODULE MCServer ------------------------------
(* Bounds for model checking Server. *)
EXTENDS Server, TLC

CONSTANTS MaxClients,  \* clients accepted in one life
          MaxReqs,     \* commands sent by clients
          MaxLog,      \* entries of the log in the first life, one less in each further one
          MaxChan,     \* values waiting in CommitCh
          MaxLives     \* starts of the process

Bounded ==
  /\ clientid <= MaxClients /\ reqs <= MaxReqs
  /\ Len(log) + lives <= MaxLog + 1 /\ Len(disk) + lives <= MaxLog + 1
  /\ Len(commitCh) <= MaxChan /\ lives <= MaxLives

MCNext == Next /\ Bounded'

MCSpec == Init /\ [][MCNext]_vars /\ Fairness

\* Answered, for every command of a small instance.
AllAnswered == \A r \in 1..MaxReqs : Answered(r)
=============================================================================
