--------------------------- MODULE MCSingleServer ---------------------------
(* Bounds for model checking SingleServer. *)
EXTENDS SingleServer, FiniteSetsExt

\* Commands read, refusals of a mistake and ticks of the clock, in all.
CONSTANT MaxEvents

Of(op, version, numBytes, expTime) ==
  [op |-> op, name |-> "f", version |-> version, numBytes |-> numBytes,
   expTime |-> expTime]

MCFilename == {"f"}

\* Each command, with a write that expires.
RightRequest ==
  {Of("write", 0, 1, 0), Of("cas", 1, 1, NIL), Of("read", 0, 1, NIL),
   Of("delete", 0, 1, NIL)}

\* Mistakes of each outcome; the last two end the process.
MCRequest == RightRequest \cup
  {Of("other", 0, 1, NIL), Of("write", 0, Bad, NIL), Of("write", 0, 1, Bad),
   Of("cas", Bad, 1, NIL), Of("cas", 1, 1, Bad), Of("write", 0, -1, NIL),
   Of("cas", 1, -1, NIL)}

Mistakes(c) ==
  {k \in 1..Len(answers[c]) : answers[c][k].what = "ERR_CMD_ERR"}

Bounded ==
  calls + tick + MapThenSumSet(LAMBDA c : Cardinality(Mistakes(c)), Client) <= MaxEvents

MCNext == Next /\ Bounded'

MCSpec == Init /\ [][MCNext]_vars /\ Fairness

AllDone == \A c \in Client : Done(c)
=============================================================================
