----------------------------- MODULE FileStore -----------------------------
(***************************************************************************)
(* What the file system (fs.go) promises its clients: a set of files, each *)
(* with a version that no file had before it and perhaps a time until      *)
(* which it stays. A file changes or goes because of a client's call, or   *)
(* by itself once its time has come, and never before.                     *)
(***************************************************************************)
EXTENDS Naturals

CONSTANTS File, ExpTime, NoFile

VARIABLES files,        \* each file's version and the time it stays until (0: ever)
          lastVersion,  \* the latest version given to a file
          calls,        \* the number of calls of clients served so far
          now           \* the clock

vars == <<files, lastVersion, calls, now>>

Init ==
  /\ files = [f \in File |-> NoFile]
  /\ lastVersion = 0
  /\ calls = 0
  /\ now = 0

Serve == calls' = calls + 1 /\ UNCHANGED now

\* File f is created or replaced, to stay for e time units or (e = 0) for ever.
Put(f, e) ==
  /\ Serve
  /\ lastVersion' = lastVersion + 1
  /\ files' = [files EXCEPT ![f] =
       [version |-> lastVersion', until |-> IF e = 0 THEN 0 ELSE now + e]]

Remove(f) ==
  /\ Serve
  /\ files' = [files EXCEPT ![f] = NoFile]
  /\ UNCHANGED lastVersion

Refuse == Serve /\ UNCHANGED <<files, lastVersion>>

\* The only way for a file to go that is no client's doing.
Expire(f) ==
  /\ files[f] # NoFile /\ files[f].until # 0 /\ files[f].until <= now
  /\ files' = [files EXCEPT ![f] = NoFile]
  /\ UNCHANGED <<lastVersion, calls, now>>

Tick == now' = now + 1 /\ UNCHANGED <<files, lastVersion, calls>>

Next ==
  \/ \E f \in File : Remove(f) \/ Expire(f)
  \/ \E f \in File, e \in ExpTime : Put(f, e)
  \/ Refuse
  \/ Tick

Spec == Init /\ [][Next]_vars
=============================================================================
