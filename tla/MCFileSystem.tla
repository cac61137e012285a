---------------------------- MODULE MCFileSystem ----------------------------
(* Bounds for model checking FileSystem. *)
EXTENDS FileSystem, TLC

CONSTANTS MaxCalls,  \* commands processed
          MaxTime    \* where the clock stops; all files expire before

Bounded ==
  /\ calls <= MaxCalls
  /\ now <= MaxTime
  /\ \A t \in timers : t.at <= MaxTime

\* Every command has been processed and every timer has done its work.
Finished ==
  /\ calls = MaxCalls /\ now = MaxTime /\ timers = {} /\ fired = {}
  /\ UNCHANGED vars

MCNext == (Next /\ Bounded') \/ Finished

MCSpec ==
  /\ Init /\ [][MCNext]_vars
  /\ WF_vars(Tick /\ Bounded')
  /\ TimersFair
=============================================================================
