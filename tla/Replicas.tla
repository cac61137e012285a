------------------------------ MODULE Replicas ------------------------------
(***************************************************************************)
(* Two servers' file systems fed the same committed commands.              *)
(*                                                                         *)
(* ListenCommitChannel (server_main.go) calls ProcessMsg with the commands *)
(* of the replicated log in order, each server when it learns of them. A   *)
(* server that restarts begins again with no files at the first command.   *)
(* Expiry is not in the log: each server's timers go by its own clock from *)
(* the moment it processed the command.                                    *)
(***************************************************************************)
EXTENDS Naturals, Sequences, FiniteSets

CONSTANTS File, Contents, ExpTime, Version, NoFile

VARIABLES cmds,                                     \* the committed commands
          DirA, gversionA, timersA, firedA, doneA,  \* one server
          DirB, gversionB, timersB, firedB, doneB,  \* another
          now

varsA == <<DirA, gversionA, timersA, firedA, doneA>>
varsB == <<DirB, gversionB, timersB, firedB, doneB>>
vars == <<cmds, varsA, varsB, now>>

A == INSTANCE FileSystem WITH Dir <- DirA, gversion <- gversionA,
       timers <- timersA, fired <- firedA, calls <- doneA
B == INSTANCE FileSystem WITH Dir <- DirB, gversion <- gversionB,
       timers <- timersB, fired <- firedB, calls <- doneB

\* What FileSystem takes for granted of its constants.
ASSUME RequestAssumption == ExpTime \subseteq Nat /\ Version \subseteq Nat
ASSUME NoFileAssumption ==
  NoFile \notin A!FileInfo \cup [version : Nat, until : Nat]

-----------------------------------------------------------------------------

Init == cmds = <<>> /\ A!Init /\ B!Init

\* The cluster commits one more command.
Commit(m) == cmds' = Append(cmds, m) /\ UNCHANGED <<varsA, varsB, now>>

\* The listener of a server processes the next command.
ListenA ==
  /\ doneA < Len(cmds) /\ A!ProcessMsg(cmds[doneA + 1])
  /\ UNCHANGED <<cmds, varsB>>

ListenB ==
  /\ doneB < Len(cmds) /\ B!ProcessMsg(cmds[doneB + 1])
  /\ UNCHANGED <<cmds, varsA>>

TimerA ==
  /\ \/ \E t \in timersA : A!TimerFires(t)
     \/ \E t \in firedA : A!timerFunc(t)
  /\ UNCHANGED <<cmds, varsB>>

TimerB ==
  /\ \/ \E t \in timersB : B!TimerFires(t)
     \/ \E t \in firedB : B!timerFunc(t)
  /\ UNCHANGED <<cmds, varsA>>

\* Server A starts again: an empty directory, gversion 0, no timers, and the
\* log from its beginning.
RestartA ==
  /\ DirA' = [f \in File |-> NoFile] /\ gversionA' = 0
  /\ timersA' = {} /\ firedA' = {} /\ doneA' = 0
  /\ UNCHANGED <<cmds, varsB, now>>

Tick == now' = now + 1 /\ UNCHANGED <<cmds, varsA, varsB>>

Next ==
  \/ \E m \in A!Msg : Commit(m)
  \/ ListenA \/ ListenB
  \/ TimerA \/ TimerB
  \/ RestartA
  \/ Tick

Spec == Init /\ [][Next]_vars

-----------------------------------------------------------------------------
(* What must hold *)

\* Whether a cas finds its file may depend on the moment it is processed as
\* soon as files expire: the properties below are promised without one of them.
NoCas == \A n \in 1..Len(cmds) : cmds[n].kind # "c"
NoExpiry == \A n \in 1..Len(cmds) : cmds[n].kind # "d" => cmds[n].exptime = 0

\* Two servers that have processed the same commands, and whose timers have
\* all done their work, have the same files.
Settled == /\ doneA = doneB
           /\ timersA = {} /\ firedA = {} /\ timersB = {} /\ firedB = {}

SameFile(f) ==
  /\ A!Exists(f) <=> B!Exists(f)
  /\ A!Exists(f) => /\ DirA[f].version = DirB[f].version
                    /\ DirA[f].contents = DirB[f].contents

Converged == (NoCas \/ NoExpiry) /\ Settled => \A f \in File : SameFile(f)

\* A version names the same contents on every server at every moment: what a
\* client read on one server is what its cas replaces on another.
VersionMeansContents ==
  NoCas \/ NoExpiry =>
    \A f \in File :
      A!Exists(f) /\ B!Exists(f) /\ DirA[f].version = DirB[f].version =>
        DirA[f].contents = DirB[f].contents

\* The same with expiry and cas together (README.md: "eventually all server be
\* in same state as long as majority of nodes are up").
SameState == Settled => \A f \in File : SameFile(f)
=============================================================================
