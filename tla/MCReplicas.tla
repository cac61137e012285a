----------------------------- MODULE MCReplicas -----------------------------
(* Bounds for model checking Replicas. *)
EXTENDS Replicas, TLC

CONSTANTS MaxCmds,  \* commands committed
          MaxTime   \* where the clock stops

Bounded == Len(cmds) <= MaxCmds /\ now <= MaxTime

Symmetry == Permutations(Contents)
=============================================================================
