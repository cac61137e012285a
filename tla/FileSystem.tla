----------------------------- MODULE FileSystem -----------------------------
(***************************************************************************)
(* The file system of one server (src/assign4/fs/fs.go): a directory of    *)
(* files in memory, changed by the commands ProcessMsg is called with and  *)
(* by expiry timers, each of which is a goroutine of the Go runtime.       *)
(*                                                                         *)
(* ProcessMsg and the timers' function hold the lock of FS from their      *)
(* first look at the directory to their return, so each is one action. A   *)
(* timer that has gone off cannot be stopped any more: its goroutine waits *)
(* for the lock while other commands pass (fired).                         *)
(***************************************************************************)
EXTENDS Naturals, FiniteSets

CONSTANTS File,      \* file names
          Contents,  \* what is written to files
          ExpTime,   \* the expiry times clients ask for, 0 for none
          Version,   \* the versions clients name in cas
          NoFile     \* no entry in the directory

ASSUME RequestAssumption == ExpTime \subseteq Nat /\ Version \subseteq Nat

VARIABLES
  Dir,       \* FS.Dir
  gversion,  \* Server.gversion
  timers,    \* the timers that run
  fired,     \* the timers that have gone off and wait for the lock
  calls,     \* history: how many commands were processed
  now        \* the clock

vars == <<Dir, gversion, timers, fired, calls, now>>

-----------------------------------------------------------------------------
(* Slips: what single definitions below could say by mistake. Each is put in *)
(* the place of its definition to see that the properties notice.            *)

SlipIsStale(f, v) == FALSE

SlipStopped(f) == {}

SlipTimerVersion == gversion

SlipSameVersion(f) == gversion

SlipNewVersion(f) ==
  IF Dir[f] = NoFile THEN 1 ELSE Dir[f].version + 1

-----------------------------------------------------------------------------

\* A file: timer is the version the timer in fi.timer was made for, 0 if nil.
FileInfo ==
  [contents : Contents, version : Nat \ {0}, timer : Nat, absexptime : Nat]

ASSUME NoFileAssumption == NoFile \notin FileInfo \cup [version : Nat, until : Nat]

\* A command that changes files: write, cas or delete.
Msg ==
  [kind : {"w"}, file : File, contents : Contents, exptime : ExpTime]
    \cup [kind : {"c"}, file : File, contents : Contents, exptime : ExpTime,
          version : Version]
    \cup [kind : {"d"}, file : File]

Exists(f) == Dir[f] # NoFile

Init ==
  /\ Dir = [f \in File |-> NoFile]
  /\ gversion = 0
  /\ timers = {}
  /\ fired = {}
  /\ calls = 0
  /\ now = 0

\* The timers cancelTimer stops: the one of f, unless it has gone off.
Stopped(f) ==
  {t \in timers : t.file = f /\ Exists(f) /\ t.version = Dir[f].timer}

NewVersion(f) == gversion + 1

\* The version the timer's function is made with.
TimerVersion == gversion'

\* m.file is written anew, and any earlier timer stopped.
internalWrite(m) ==
  LET f == m.file
      expires == m.exptime > 0
      at == IF expires THEN now + m.exptime ELSE 0
  IN /\ gversion' = NewVersion(f)
     /\ Dir' = [Dir EXCEPT ![f] =
          [contents |-> m.contents, version |-> gversion',
           timer |-> IF expires THEN TimerVersion ELSE 0, absexptime |-> at]]
     /\ timers' = (timers \ Stopped(f)) \cup
          (IF expires THEN {[file |-> f, version |-> TimerVersion, at |-> at]} ELSE {})
     /\ UNCHANGED fired

processWrite(m) == m.kind = "w" /\ internalWrite(m)

\* A file that is not there takes any version.
processCas(m) ==
  /\ m.kind = "c"
  /\ \/ /\ Exists(m.file) => m.version = Dir[m.file].version
        /\ internalWrite(m)
     \/ /\ Exists(m.file) /\ m.version # Dir[m.file].version
        /\ UNCHANGED <<Dir, gversion, timers, fired>>

\* The file a timer was made for has been replaced since; 0 is no timer.
IsStale(f, v) == v > 0 /\ Dir[f].version # v

\* f goes, whatever its version for v = 0.
delete(f, v) ==
  \/ /\ Exists(f) /\ ~IsStale(f, v)
     /\ timers' = timers \ Stopped(f)
     /\ Dir' = [Dir EXCEPT ![f] = NoFile]
  \/ /\ Exists(f) => IsStale(f, v)
     /\ UNCHANGED <<Dir, timers>>

processDelete(m) ==
  /\ m.kind = "d"
  /\ delete(m.file, 0)
  /\ UNCHANGED <<gversion, fired>>

\* Reads change nothing and have no action.
ProcessMsg(m) ==
  /\ processWrite(m) \/ processCas(m) \/ processDelete(m)
  /\ calls' = calls + 1
  /\ UNCHANGED now

\* Timer t goes off.
TimerFires(t) ==
  /\ t \in timers /\ t.at <= now
  /\ timers' = timers \ {t}
  /\ fired' = fired \cup {t}
  /\ UNCHANGED <<Dir, gversion, calls, now>>

\* Its function gets the lock.
timerFunc(t) ==
  /\ t \in fired
  /\ fired' = fired \ {t}
  /\ delete(t.file, t.version)
  /\ UNCHANGED <<gversion, calls, now>>

Tick == now' = now + 1 /\ UNCHANGED <<Dir, gversion, timers, fired, calls>>

Next ==
  \/ \E m \in Msg : ProcessMsg(m)
  \/ \E t \in timers : TimerFires(t)
  \/ \E t \in fired : timerFunc(t)
  \/ Tick

Spec == Init /\ [][Next]_vars

\* The runtime lets the timers of a file go off, and their functions have the
\* lock, which nobody keeps.
TimersFair ==
  \A f \in File :
    /\ WF_vars(\E t \in timers : t.file = f /\ TimerFires(t))
    /\ WF_vars(\E t \in fired : t.file = f /\ timerFunc(t))

FairSpec == Spec /\ WF_vars(Tick) /\ TimersFair

-----------------------------------------------------------------------------
(* What must hold *)

Timer == [file : File, version : Nat \ {0}, at : Nat]

\* Every variable has its type; no version is 0, which to processDelete means
\* a client's delete.
TypeOK ==
  /\ Dir \in [File -> FileInfo \cup {NoFile}]
  /\ gversion \in Nat
  /\ timers \subseteq Timer /\ IsFiniteSet(timers)
  /\ fired \subseteq Timer /\ IsFiniteSet(fired)
  /\ calls \in Nat /\ now \in Nat

\* A file that has a time to go has a timer that will make it go: running, or
\* gone off and waiting for the lock (internalWrite makes the timer with the
\* version it has just given, and cancelTimer never stops another file's).
WillExpire ==
  \A f \in File : Exists(f) /\ Dir[f].absexptime # 0 =>
    \E t \in timers \cup fired :
      t.file = f /\ t.version = Dir[f].version /\ t.at = Dir[f].absexptime

\* Every timer that runs is the timer of the file of its name as it is now:
\* whatever replaces or deletes a file has stopped its timer.
NoStrayTimer ==
  \A t \in timers : Exists(t.file) /\ t.version = Dir[t.file].version

\* A version stands for one write: no two files have the same, and a timer
\* that has the version of a file was made by the write that made the file.
\* What processDelete asks of a timer rests on it, and so does cas.
VersionsApart ==
  \A f \in File : Exists(f) =>
    /\ \A g \in File \ {f} : Exists(g) => Dir[f].version # Dir[g].version
    /\ \A t \in timers \cup fired : t.version = Dir[f].version =>
         t.file = f /\ t.at = Dir[f].absexptime

\* The file system does what FileStore promises: in particular a timer that
\* goes off late, when its file has been written again or deleted and
\* recreated, takes nothing away.
Store == INSTANCE FileStore WITH
  files <- [f \in File |-> IF Exists(f)
              THEN [version |-> Dir[f].version, until |-> Dir[f].absexptime]
              ELSE NoFile],
  lastVersion <- gversion

ImplementsStore == Store!Spec

\* A file that has a time to go is gone or replaced one day. The runtime makes
\* every timer go off and lets its function have the lock.
Expires ==
  \A f \in File, v \in Version :
    (Exists(f) /\ Dir[f].version = v /\ Dir[f].absexptime # 0)
      ~> (~Exists(f) \/ Dir[f].version # v)
=============================================================================
