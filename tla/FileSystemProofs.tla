-------------------------- MODULE FileSystemProofs --------------------------
(***************************************************************************)
(* Proofs about FileSystem, for any files, contents and expiry times: the  *)
(* invariants of the timers and versions, and that the file system         *)
(* implements FileStore.                                                   *)
(***************************************************************************)
EXTENDS FileSystem, FiniteSetTheorems, TLAPS

\* Versions in use have been given.
VersionsGiven ==
  /\ \A f \in File : Exists(f) => Dir[f].version <= gversion
  /\ \A t \in timers \cup fired : t.version <= gversion

\* The timer of a file, if it has one, was made with the file's version.
TimerOfFile ==
  \A f \in File : Exists(f) =>
    Dir[f].timer = IF Dir[f].absexptime # 0 THEN Dir[f].version ELSE 0

\* A timer goes off at its time.
TimerTimes ==
  /\ \A t \in timers \cup fired : t.at # 0
  /\ \A t \in fired : t.at <= now

\* The invariant. The three invariants of the runs need each other, and what
\* they need besides is in the parts above: a new version is one that neither a
\* file nor a timer has, and cancelTimer finds the timer of a file.
IInv ==
  /\ TypeOK /\ WillExpire /\ NoStrayTimer /\ VersionsApart
  /\ VersionsGiven /\ TimerOfFile /\ TimerTimes

-----------------------------------------------------------------------------
(* Steps *)

\* What the parts of the invariant say of one file and of one timer.
LEMMA FileFacts ==
  ASSUME IInv, NEW f \in File, Exists(f)
  PROVE  /\ Dir[f] \in FileInfo /\ Dir[f].version \in Nat \ {0}
         /\ Dir[f].absexptime \in Nat /\ Dir[f].timer \in Nat
         /\ Dir[f].version <= gversion
         /\ Dir[f].timer = IF Dir[f].absexptime # 0 THEN Dir[f].version ELSE 0
<1>1. Dir[f] \in FileInfo
  BY DEF IInv, TypeOK, Exists
<1> QED
  BY <1>1 DEF IInv, VersionsGiven, TimerOfFile, FileInfo

LEMMA TimerFacts ==
  ASSUME IInv, NEW t \in timers \cup fired
  PROVE  /\ t \in Timer /\ t.file \in File /\ t.version \in Nat \ {0}
         /\ t.at \in Nat \ {0} /\ t.version <= gversion
<1>1. t \in Timer
  BY DEF IInv, TypeOK
<1> QED
  BY <1>1 DEF IInv, VersionsGiven, TimerTimes, Timer

\* cancelTimer finds every running timer of a file.
LEMMA StopsAll ==
  ASSUME IInv, NEW f \in File
  PROVE  Stopped(f) = {t \in timers : t.file = f}
<1> SUFFICES ASSUME NEW t \in timers, t.file = f
             PROVE  Exists(f) /\ t.version = Dir[f].timer
  BY DEF Stopped
<1>1. Exists(f) /\ t.version = Dir[f].version
  BY DEF IInv, NoStrayTimer
<1>2. t.at = Dir[f].absexptime
  BY <1>1 DEF IInv, VersionsApart
<1>3. t.at # 0
  BY DEF IInv, TimerTimes
<1> QED
  BY <1>1, <1>2, <1>3, FileFacts

\* A file is written: a new version, and a new timer if it is to expire.
LEMMA WriteStep ==
  ASSUME IInv, NEW f \in File, NEW c \in Contents, NEW e \in Nat,
         gversion' = gversion + 1,
         Dir' = [Dir EXCEPT ![f] =
           [contents |-> c, version |-> gversion + 1,
            timer |-> IF e > 0 THEN gversion + 1 ELSE 0,
            absexptime |-> IF e > 0 THEN now + e ELSE 0]],
         timers' = (timers \ Stopped(f)) \cup
           (IF e > 0 THEN {[file |-> f, version |-> gversion + 1, at |-> now + e]}
                     ELSE {}),
         fired' = fired, now' = now, calls' \in Nat
  PROVE  IInv'
<1> DEFINE new == [contents |-> c, version |-> gversion + 1,
                   timer |-> IF e > 0 THEN gversion + 1 ELSE 0,
                   absexptime |-> IF e > 0 THEN now + e ELSE 0]
           timer == [file |-> f, version |-> gversion + 1, at |-> now + e]
<1>0. gversion \in Nat /\ now \in Nat /\ DOMAIN Dir = File
  BY DEF IInv, TypeOK
<1>1. new \in FileInfo /\ new # NoFile
  BY <1>0, NoFileAssumption DEF FileInfo
<1>2. Dir'[f] = new /\ \A g \in File \ {f} : Dir'[g] = Dir[g]
  BY <1>0
<1>3. Exists(f)' /\ \A g \in File \ {f} : Exists(g)' <=> Exists(g)
  BY <1>1, <1>2 DEF Exists
<1>4. \A t \in timers' : (t \in timers /\ t.file # f) \/ (e > 0 /\ t = timer)
  BY StopsAll
<1>5. timer \in Timer
  BY <1>0 DEF Timer
<1>6. e > 0 => timer \in timers'
  OBVIOUS
<1>7. \A t \in timers : t.file # f => t \in timers'
  BY StopsAll
<1>8. TypeOK'
  <2>1. Dir' \in [File -> FileInfo \cup {NoFile}]
    BY <1>1 DEF IInv, TypeOK
  <2>2. timers' \subseteq Timer
    BY <1>4, <1>5 DEF IInv, TypeOK
  <2>3. IsFiniteSet(timers \ Stopped(f))
    BY FS_Subset DEF IInv, TypeOK
  <2>4. IsFiniteSet(timers')
    BY <2>3, FS_EmptySet, FS_Singleton, FS_Union
  <2> QED
    BY <2>1, <2>2, <2>4, <1>0 DEF IInv, TypeOK
<1>9. WillExpire'
  <2> SUFFICES ASSUME NEW g \in File, Exists(g)', Dir'[g].absexptime # 0
               PROVE  \E t \in timers' \cup fired' :
                        /\ t.file = g /\ t.version = Dir'[g].version
                        /\ t.at = Dir'[g].absexptime
    BY DEF WillExpire
  <2>1. CASE g = f
    <3>1. e > 0
      BY <2>1, <1>2
    <3>2. timer.file = g /\ timer.version = Dir'[g].version /\ timer.at = Dir'[g].absexptime
      BY <2>1, <3>1, <1>2
    <3> QED
      BY <3>1, <3>2, <1>6
  <2>2. CASE g # f
    <3>1. PICK t \in timers \cup fired :
            t.file = g /\ t.version = Dir[g].version /\ t.at = Dir[g].absexptime
      BY <2>2, <1>2, <1>3 DEF IInv, WillExpire
    <3>2. t \in timers' \cup fired'
      BY <2>2, <3>1, <1>7
    <3> QED
      BY <2>2, <3>1, <3>2, <1>2
  <2> QED
    BY <2>1, <2>2
<1>10. NoStrayTimer'
  <2> SUFFICES ASSUME NEW t \in timers'
               PROVE  Exists(t.file)' /\ t.version = Dir'[t.file].version
    BY DEF NoStrayTimer
  <2>1. CASE t = timer
    BY <2>1, <1>2, <1>3
  <2>2. CASE t \in timers /\ t.file # f
    <3>1. t.file \in File /\ Exists(t.file) /\ t.version = Dir[t.file].version
      BY <2>2, TimerFacts DEF IInv, NoStrayTimer
    <3> QED
      BY <2>2, <3>1, <1>2, <1>3
  <2> QED
    BY <2>1, <2>2, <1>4
<1>11. VersionsApart'
  <2> SUFFICES ASSUME NEW g \in File, Exists(g)'
               PROVE  /\ \A h \in File \ {g} : Exists(h)' => Dir'[g].version # Dir'[h].version
                      /\ \A t \in timers' \cup fired' : t.version = Dir'[g].version =>
                           t.file = g /\ t.at = Dir'[g].absexptime
    BY DEF VersionsApart
  <2>0. \A h \in File \ {f} : Exists(h) => Dir[h].version # gversion + 1
    BY <1>0, FileFacts
  <2>1. \A t \in timers \cup fired : t.version # gversion + 1
    BY <1>0, TimerFacts
  <2>2. CASE g = f
    <3>1. Dir'[g].version = gversion + 1
      BY <2>2, <1>2
    <3>2. \A h \in File \ {g} : Exists(h)' => Dir'[h].version # gversion + 1
      BY <2>2, <2>0, <1>2, <1>3
    <3>3. ASSUME NEW t \in timers' \cup fired', t.version = gversion + 1
          PROVE  t.file = g /\ t.at = Dir'[g].absexptime
      <4>1. e > 0 /\ t = timer
        BY <3>3, <2>1, <1>4
      <4> QED
        BY <4>1, <2>2, <1>2
    <3> QED
      BY <3>1, <3>2, <3>3
  <2>3. CASE g # f
    <3>1. Exists(g) /\ Dir'[g] = Dir[g]
      BY <2>3, <1>2, <1>3
    <3>2. \A h \in File \ {g} : Exists(h)' => Dir'[g].version # Dir'[h].version
      <4> SUFFICES ASSUME NEW h \in File \ {g}, Exists(h)'
                   PROVE  Dir'[g].version # Dir'[h].version
        OBVIOUS
      <4>1. CASE h = f
        BY <4>1, <3>1, <2>0, <2>3, <1>2
      <4>2. CASE h # f
        BY <4>2, <3>1, <1>2, <1>3 DEF IInv, VersionsApart
      <4> QED
        BY <4>1, <4>2
    <3>3. ASSUME NEW t \in timers' \cup fired', t.version = Dir'[g].version
          PROVE  t.file = g /\ t.at = Dir'[g].absexptime
      <4>1. t # timer
        BY <3>1, <3>3, <2>0, <2>3
      <4>2. t \in timers \cup fired
        BY <4>1, <1>4
      <4> QED
        BY <4>2, <3>1, <3>3 DEF IInv, VersionsApart
    <3> QED
      BY <3>2, <3>3
  <2> QED
    BY <2>2, <2>3
<1>12. VersionsGiven'
  <2>1. ASSUME NEW g \in File, Exists(g)'
        PROVE  Dir'[g].version <= gversion'
    <3>1. CASE g = f
      BY <3>1, <1>0, <1>2
    <3>2. CASE g # f
      BY <3>2, <2>1, <1>0, <1>2, <1>3, FileFacts
    <3> QED
      BY <3>1, <3>2
  <2>2. ASSUME NEW t \in timers' \cup fired'
        PROVE  t.version <= gversion'
    <3>1. CASE t = timer
      BY <3>1, <1>0
    <3>2. CASE t \in timers \cup fired
      BY <3>2, <1>0, TimerFacts
    <3> QED
      BY <3>1, <3>2, <1>4
  <2> QED
    BY <2>1, <2>2 DEF VersionsGiven
<1>13. TimerOfFile'
  <2> SUFFICES ASSUME NEW g \in File, Exists(g)'
               PROVE  Dir'[g].timer = IF Dir'[g].absexptime # 0 THEN Dir'[g].version ELSE 0
    BY DEF TimerOfFile
  <2>1. CASE g = f
    BY <2>1, <1>0, <1>2
  <2>2. CASE g # f
    BY <2>2, <1>2, <1>3, FileFacts
  <2> QED
    BY <2>1, <2>2
<1>14. TimerTimes'
  <2>1. ASSUME NEW t \in timers' \cup fired' PROVE t.at # 0
    <3>1. CASE t = timer /\ e > 0
      BY <3>1, <1>0
    <3>2. CASE t \in timers \cup fired
      BY <3>2, TimerFacts
    <3> QED
      BY <3>1, <3>2, <1>4
  <2> QED
    BY <2>1 DEF TimerTimes, IInv
<1> HIDE DEF new, timer
<1> QED
  BY <1>8, <1>9, <1>10, <1>11, <1>12, <1>13, <1>14 DEF IInv

\* A file goes with its running timers, and of the timers that have gone off
\* perhaps the one whose work is done.
LEMMA RemoveStep ==
  ASSUME IInv, NEW f \in File, Exists(f),
         Dir' = [Dir EXCEPT ![f] = NoFile], timers' = timers \ Stopped(f),
         fired' \subseteq fired, \A t \in fired \ fired' : t.file = f,
         gversion' = gversion, now' = now, calls' \in Nat
  PROVE  IInv'
<1>0. DOMAIN Dir = File
  BY DEF IInv, TypeOK
<1>1. Dir'[f] = NoFile /\ \A g \in File \ {f} : Dir'[g] = Dir[g]
  BY <1>0
<1>2. ~Exists(f)' /\ \A g \in File \ {f} : Exists(g)' <=> Exists(g)
  BY <1>1 DEF Exists
<1>3. \A t \in timers' : t \in timers /\ t.file # f
  BY StopsAll
<1>4. \A t \in timers \cup fired : t.file # f => t \in timers' \cup fired'
  BY StopsAll
<1>5. TypeOK'
  <2>1. Dir' \in [File -> FileInfo \cup {NoFile}]
    BY DEF IInv, TypeOK
  <2>2. IsFiniteSet(timers') /\ IsFiniteSet(fired')
    BY FS_Subset DEF IInv, TypeOK
  <2> QED
    BY <2>1, <2>2, <1>3 DEF IInv, TypeOK
<1>6. WillExpire'
  <2> SUFFICES ASSUME NEW g \in File, Exists(g)', Dir'[g].absexptime # 0
               PROVE  \E t \in timers' \cup fired' :
                        /\ t.file = g /\ t.version = Dir'[g].version
                        /\ t.at = Dir'[g].absexptime
    BY DEF WillExpire
  <2>1. g # f /\ Exists(g) /\ Dir'[g] = Dir[g]
    BY <1>1, <1>2
  <2> QED
    BY <2>1, <1>4 DEF IInv, WillExpire
<1>7. NoStrayTimer'
  <2> SUFFICES ASSUME NEW t \in timers'
               PROVE  Exists(t.file)' /\ t.version = Dir'[t.file].version
    BY DEF NoStrayTimer
  <2>1. t.file \in File /\ t.file # f /\ Exists(t.file) /\ t.version = Dir[t.file].version
    BY <1>3, TimerFacts DEF IInv, NoStrayTimer
  <2> QED
    BY <2>1, <1>1, <1>2
<1>8. VersionsApart'
  <2> SUFFICES ASSUME NEW g \in File, Exists(g)'
               PROVE  /\ \A h \in File \ {g} : Exists(h)' => Dir'[g].version # Dir'[h].version
                      /\ \A t \in timers' \cup fired' : t.version = Dir'[g].version =>
                           t.file = g /\ t.at = Dir'[g].absexptime
    BY DEF VersionsApart
  <2>1. g # f /\ Exists(g) /\ Dir'[g] = Dir[g]
    BY <1>1, <1>2
  <2>2. \A h \in File \ {g} : Exists(h)' => Exists(h) /\ Dir'[h] = Dir[h]
    BY <1>1, <1>2
  <2> QED
    BY <2>1, <2>2, <1>3 DEF IInv, VersionsApart
<1>9. VersionsGiven'
  BY <1>1, <1>2, <1>3 DEF IInv, VersionsGiven
<1>10. TimerOfFile'
  BY <1>1, <1>2 DEF IInv, TimerOfFile
<1>11. TimerTimes'
  BY <1>3 DEF IInv, TimerTimes
<1> QED
  BY <1>5, <1>6, <1>7, <1>8, <1>9, <1>10, <1>11 DEF IInv

\* The directory stays, and timers only go off or end without effect.
LEMMA QuietStep ==
  ASSUME IInv, Dir' = Dir, gversion' = gversion,
         timers' \subseteq timers, fired' \subseteq timers \cup fired,
         IsFiniteSet(fired'), \A t \in fired' : t.at <= now',
         \A t \in (timers \cup fired) \ (timers' \cup fired') :
           ~Exists(t.file) \/ Dir[t.file].version # t.version,
         now' \in Nat, calls' \in Nat
  PROVE  IInv'
<1>1. TypeOK'
  <2>1. IsFiniteSet(timers')
    BY FS_Subset DEF IInv, TypeOK
  <2> QED
    BY <2>1 DEF IInv, TypeOK
<1>2. \A f \in File : Exists(f)' <=> Exists(f)
  BY DEF Exists
<1>3. WillExpire'
  <2> SUFFICES ASSUME NEW f \in File, Exists(f), Dir[f].absexptime # 0
               PROVE  \E t \in timers' \cup fired' :
                        t.file = f /\ t.version = Dir[f].version /\ t.at = Dir[f].absexptime
    BY <1>2 DEF WillExpire
  <2>1. PICK t \in timers \cup fired :
          t.file = f /\ t.version = Dir[f].version /\ t.at = Dir[f].absexptime
    BY DEF IInv, WillExpire
  <2> QED
    BY <2>1
<1>4. NoStrayTimer'
  <2>1. \A t \in timers' : t.file \in File /\ Exists(t.file) /\ t.version = Dir[t.file].version
    BY TimerFacts DEF IInv, NoStrayTimer
  <2> QED
    BY <2>1, <1>2 DEF NoStrayTimer
<1>5. VersionsApart'
  BY <1>2 DEF IInv, VersionsApart
<1>6. VersionsGiven' /\ TimerOfFile' /\ TimerTimes'
  BY <1>2 DEF IInv, VersionsGiven, TimerOfFile, TimerTimes
<1> QED
  BY <1>1, <1>3, <1>4, <1>5, <1>6 DEF IInv

-----------------------------------------------------------------------------
(* The commands, as steps of the invariant *)

\* What a command that writes does, in one place.
LEMMA WriteFacts ==
  ASSUME IInv, NEW m \in Msg, m.kind \in {"w", "c"}, internalWrite(m),
         calls' = calls + 1, UNCHANGED now
  PROVE  /\ m.file \in File /\ m.contents \in Contents /\ m.exptime \in Nat
         /\ m.exptime \in ExpTime
         /\ gversion' = gversion + 1
         /\ Dir' = [Dir EXCEPT ![m.file] =
              [contents |-> m.contents, version |-> gversion + 1,
               timer |-> IF m.exptime > 0 THEN gversion + 1 ELSE 0,
               absexptime |-> IF m.exptime > 0 THEN now + m.exptime ELSE 0]]
         /\ timers' = (timers \ Stopped(m.file)) \cup
              (IF m.exptime > 0
                THEN {[file |-> m.file, version |-> gversion + 1, at |-> now + m.exptime]}
                ELSE {})
         /\ fired' = fired /\ now' = now /\ calls' \in Nat
<1>1. m.file \in File /\ m.contents \in Contents /\ m.exptime \in ExpTime
  BY DEF Msg
<1>2. m.exptime \in Nat
  BY <1>1, RequestAssumption
<1>3. calls' \in Nat
  BY DEF IInv, TypeOK
<1> QED
  BY <1>1, <1>2, <1>3 DEF internalWrite, NewVersion, TimerVersion

\* Every command keeps the invariant.
LEMMA ProcessStep ==
  ASSUME IInv, NEW m \in Msg, ProcessMsg(m)
  PROVE  IInv'
<1>0. calls' = calls + 1 /\ now' = now /\ calls' \in Nat
  BY DEF ProcessMsg, IInv, TypeOK
<1>1. CASE m.kind \in {"w", "c"} /\ internalWrite(m)
  BY <1>0, <1>1, WriteFacts, WriteStep
<1>2. CASE UNCHANGED <<Dir, gversion, timers, fired>>
  <2>1. IsFiniteSet(fired') /\ now' \in Nat /\ \A t \in fired' : t.at <= now'
    BY <1>0, <1>2 DEF IInv, TypeOK, TimerTimes
  <2> QED
    BY <2>1, <1>0, <1>2, QuietStep
<1>3. CASE processDelete(m) /\ Exists(m.file) /\ Dir' = [Dir EXCEPT ![m.file] = NoFile]
            /\ timers' = timers \ Stopped(m.file)
  <2>1. m.file \in File /\ gversion' = gversion /\ fired' = fired
    BY <1>3 DEF processDelete, Msg
  <2> QED
    BY <2>1, <1>0, <1>3, RemoveStep
<1> QED
  BY <1>1, <1>2, <1>3 DEF ProcessMsg, processWrite, processCas, processDelete, delete

\* A timer's function keeps it: the file goes only if it is the timer's own.
LEMMA TimerStep ==
  ASSUME IInv, NEW t \in fired, timerFunc(t)
  PROVE  IInv'
<1>0. /\ fired' = fired \ {t} /\ gversion' = gversion /\ now' = now /\ calls' = calls
      /\ now' \in Nat /\ calls' \in Nat /\ t.file \in File /\ t.version \in Nat \ {0}
  BY TimerFacts DEF timerFunc, IInv, TypeOK
<1>1. CASE Exists(t.file) /\ Dir' = [Dir EXCEPT ![t.file] = NoFile]
            /\ timers' = timers \ Stopped(t.file)
  BY <1>0, <1>1, RemoveStep
<1>2. CASE (Exists(t.file) => IsStale(t.file, t.version)) /\ UNCHANGED <<Dir, timers>>
  <2>1. IsFiniteSet(fired') /\ \A u \in fired' : u.at <= now'
    BY <1>0, FS_Subset DEF IInv, TypeOK, TimerTimes
  <2>2. ~Exists(t.file) \/ Dir[t.file].version # t.version
    BY <1>2 DEF IsStale
  <2>3. \A u \in (timers \cup fired) \ (timers' \cup fired') : u = t
    BY <1>0, <1>2
  <2> QED
    BY <2>1, <2>2, <2>3, <1>0, <1>2, QuietStep
<1> QED
  BY <1>1, <1>2 DEF timerFunc, delete

\* Every step keeps the invariant.
LEMMA Inductive == IInv /\ [Next]_vars => IInv'
<1> SUFFICES ASSUME IInv, [Next]_vars
             PROVE  IInv'
  OBVIOUS
<1>0. /\ now \in Nat /\ calls \in Nat /\ IsFiniteSet(fired)
      /\ \A t \in fired : t.at <= now
  BY DEF IInv, TypeOK, TimerTimes
<1>1. CASE \E m \in Msg : ProcessMsg(m)
  BY <1>1, ProcessStep
<1>2. ASSUME NEW t \in timers, TimerFires(t)
      PROVE  IInv'
  <2>1. /\ timers' = timers \ {t} /\ fired' = fired \cup {t} /\ t.at <= now
        /\ UNCHANGED <<Dir, gversion, calls, now>>
    BY <1>2 DEF TimerFires
  <2>2. IsFiniteSet(fired')
    BY <1>0, <2>1, FS_AddElement
  <2> QED
    BY <1>0, <2>1, <2>2, QuietStep
<1>3. CASE \E t \in fired : timerFunc(t)
  BY <1>3, TimerStep
<1>4. CASE Tick
  <2>1. now' = now + 1 /\ UNCHANGED <<Dir, gversion, timers, fired, calls>>
    BY <1>4 DEF Tick
  <2>2. \A t \in fired' : t.at <= now'
    <3>1. \A t \in fired : t.at \in Nat
      BY TimerFacts
    <3> QED
      BY <3>1, <1>0, <2>1
  <2> QED
    BY <1>0, <2>1, <2>2, QuietStep
<1>5. CASE UNCHANGED vars
  BY <1>0, <1>5, QuietStep DEF vars
<1> QED
  BY <1>1, <1>2, <1>3, <1>4, <1>5 DEF Next

\* An empty directory has it, at whatever time.
LEMMA EmptyKeeps ==
  /\ now \in Nat /\ now' = now
  /\ Dir' = [f \in File |-> NoFile] /\ gversion' = 0
  /\ timers' = {} /\ fired' = {} /\ calls' = 0
  => IInv'
  BY FS_EmptySet DEF IInv, TypeOK, WillExpire, NoStrayTimer, VersionsApart,
                     VersionsGiven, TimerOfFile, TimerTimes, Exists

\* So has a server that starts.
LEMMA Begins == Init => IInv
  BY FS_EmptySet DEF Init, IInv, TypeOK, WillExpire, NoStrayTimer, VersionsApart,
                     VersionsGiven, TimerOfFile, TimerTimes, Exists

\* The invariant holds.
THEOREM Invariant == Spec => []IInv
  BY Begins, Inductive, PTL DEF Spec

\* Every variable keeps its type, and no file gets version 0, which to
\* processDelete means a client's delete.
THEOREM TypeCorrect == Spec => []TypeOK
<1>1. IInv => TypeOK
  BY DEF IInv
<1> QED
  BY <1>1, Invariant, PTL

\* A file that has a time to go always has a timer, running or gone off, that
\* was made with its present version and its time.
THEOREM TimersKept == Spec => []WillExpire
<1>1. IInv => WillExpire
  BY DEF IInv
<1> QED
  BY <1>1, Invariant, PTL

\* cancelTimer never leaves the timer of a file that is no more.
THEOREM TimersStopped == Spec => []NoStrayTimer
<1>1. IInv => NoStrayTimer
  BY DEF IInv
<1> QED
  BY <1>1, Invariant, PTL

\* No two files have one version, and no timer has the version of a file it was
\* not made for.
THEOREM VersionsUnique == Spec => []VersionsApart
<1>1. IInv => VersionsApart
  BY DEF IInv
<1> QED
  BY <1>1, Invariant, PTL

-----------------------------------------------------------------------------
(* FileStore *)

\* What clients see of a file.
Seen(f) ==
  IF Exists(f) THEN [version |-> Dir[f].version, until |-> Dir[f].absexptime]
  ELSE NoFile

Files == [f \in File |-> Seen(f)]

\* A step that leaves the directory as it is leaves what clients see.
LEMMA SeenSame ==
  ASSUME Dir' = Dir
  PROVE  Files' = Files
  BY DEF Files, Seen, Exists

\* A step that removes a file does so for clients.
LEMMA SeenRemoved ==
  ASSUME IInv, NEW f \in File, Dir' = [Dir EXCEPT ![f] = NoFile]
  PROVE  Files' = [Files EXCEPT ![f] = NoFile]
<1>1. DOMAIN Dir = File
  BY DEF IInv, TypeOK
<1>2. Seen(f)' = NoFile /\ \A g \in File \ {f} : Seen(g)' = Seen(g)
  BY <1>1 DEF Seen, Exists
<1> QED
  BY <1>2 DEF Files

\* A step of the file system is one of FileStore, or one clients do not see.
LEMMA StoreStep ==
  ASSUME IInv, [Next]_vars
  PROVE  [Store!Next]_(Store!vars)
<1>0. DOMAIN Dir = File /\ gversion \in Nat /\ now \in Nat
  BY DEF IInv, TypeOK
<1>1. ASSUME NEW m \in Msg, ProcessMsg(m)
      PROVE  Store!Next
  <2>0. calls' = calls + 1 /\ now' = now
    BY <1>1 DEF ProcessMsg
  <2>1. CASE m.kind \in {"w", "c"} /\ internalWrite(m)
    <3>1. /\ m.file \in File /\ m.exptime \in ExpTime /\ m.exptime \in Nat
          /\ gversion' = gversion + 1
          /\ Dir' = [Dir EXCEPT ![m.file] =
               [contents |-> m.contents, version |-> gversion + 1,
                timer |-> IF m.exptime > 0 THEN gversion + 1 ELSE 0,
                absexptime |-> IF m.exptime > 0 THEN now + m.exptime ELSE 0]]
      BY <2>0, <2>1, WriteFacts
    <3>2. Dir'[m.file] # NoFile
      <4>1. IInv'
        BY <1>1, ProcessStep
      <4>2. Dir'[m.file] \in FileInfo \/ Dir'[m.file] = NoFile
        BY <4>1, <3>1 DEF IInv, TypeOK
      <4>3. m.contents \in Contents
        BY <2>1 DEF Msg
      <4>4. Dir'[m.file] \in FileInfo
        BY <1>0, <3>1, <4>3 DEF FileInfo
      <4> QED
        BY <4>4, NoFileAssumption
    <3>3. /\ Seen(m.file)' = [version |-> gversion',
                               until |-> IF m.exptime = 0 THEN 0 ELSE now + m.exptime]
          /\ \A g \in File \ {m.file} : Seen(g)' = Seen(g)
      BY <1>0, <3>1, <3>2 DEF Seen, Exists
    <3>4. Files' = [Files EXCEPT ![m.file] =
            [version |-> gversion', until |-> IF m.exptime = 0 THEN 0 ELSE now + m.exptime]]
      BY <3>3 DEF Files
    <3>5. Store!Put(m.file, m.exptime)
      BY <2>0, <3>1, <3>4 DEF Store!Put, Store!Serve, Files, Seen
    <3> QED
      BY <3>1, <3>5 DEF Store!Next
  <2>2. CASE UNCHANGED <<Dir, gversion>>
    <3>1. Files' = Files
      BY <2>2, SeenSame
    <3>2. Store!Refuse
      BY <2>0, <2>2, <3>1 DEF Store!Refuse, Store!Serve, Files, Seen
    <3> QED
      BY <3>2 DEF Store!Next
  <2>3. CASE processDelete(m) /\ Dir' = [Dir EXCEPT ![m.file] = NoFile]
    <3>1. m.file \in File /\ gversion' = gversion
      BY <2>3 DEF processDelete, Msg
    <3>2. Files' = [Files EXCEPT ![m.file] = NoFile]
      BY <2>3, <3>1, SeenRemoved
    <3>3. Store!Remove(m.file)
      BY <2>0, <3>1, <3>2 DEF Store!Remove, Store!Serve, Files, Seen
    <3> QED
      BY <3>1, <3>3 DEF Store!Next
  <2> QED
    BY <1>1, <2>1, <2>2, <2>3
       DEF ProcessMsg, processWrite, processCas, processDelete, delete
<1>2. ASSUME NEW t \in fired, timerFunc(t)
      PROVE  Store!Next \/ UNCHANGED Store!vars
  <2>0. UNCHANGED <<gversion, calls, now>>
    BY <1>2 DEF timerFunc
  <2>1. CASE UNCHANGED Dir
    BY <2>0, <2>1, SeenSame DEF Store!vars, Files, Seen
  <2>2. CASE Exists(t.file) /\ ~IsStale(t.file, t.version)
              /\ Dir' = [Dir EXCEPT ![t.file] = NoFile]
    <3>1. t.file \in File /\ t.version \in Nat \ {0} /\ t.at \in Nat \ {0} /\ t.at <= now
      BY TimerFacts DEF IInv, TimerTimes
    <3>2. Dir[t.file].version = t.version
      BY <2>2, <3>1 DEF IsStale
    <3>3. Dir[t.file].absexptime = t.at
      BY <2>2, <3>1, <3>2 DEF IInv, VersionsApart
    <3>4. Dir[t.file] # NoFile /\ Files[t.file] = [version |-> t.version, until |-> t.at]
      BY <2>2, <3>1, <3>2, <3>3 DEF Files, Seen, Exists
    <3>5. Files[t.file] # NoFile
      <4>1. Files[t.file] \in [version : Nat, until : Nat]
        BY <3>1, <3>4
      <4> QED
        BY <4>1, NoFileAssumption
    <3>6. Files' = [Files EXCEPT ![t.file] = NoFile]
      BY <2>2, <3>1, SeenRemoved
    <3>7. Store!Expire(t.file)
      BY <2>0, <3>1, <3>4, <3>5, <3>6 DEF Store!Expire, Files, Seen
    <3> QED
      BY <3>1, <3>7 DEF Store!Next
  <2> QED
    BY <1>2, <2>1, <2>2 DEF timerFunc, delete
<1>3. CASE Tick
  <2>1. Files' = Files
    BY <1>3, SeenSame DEF Tick
  <2>2. Store!Tick
    BY <1>3, <2>1 DEF Tick, Store!Tick, Files, Seen
  <2> QED
    BY <2>2 DEF Store!Next
<1>4. CASE UNCHANGED vars \/ \E t \in timers : TimerFires(t)
  <2>1. UNCHANGED <<Dir, gversion, calls, now>>
    BY <1>4 DEF vars, TimerFires
  <2> QED
    BY <2>1, SeenSame DEF Store!vars, Files, Seen
<1> QED
  BY <1>1, <1>2, <1>3, <1>4 DEF Next

\* The file system implements FileStore: a file goes only by a client's command
\* or when its own time has come, and every version is new.
THEOREM Implements == Spec => ImplementsStore
<1>1. Init => Store!Init
  BY DEF Init, Store!Init, Exists
<1> QED
  BY <1>1, StoreStep, Invariant, PTL DEF Spec, ImplementsStore, Store!Spec

-----------------------------------------------------------------------------
(* What commands make of the files, whatever time passes *)

\* A file as some commands leave it if nothing expires, and whether it may.
Past == [there : BOOLEAN, version : Nat, contents : Contents \cup {NoFile},
         expires : BOOLEAN]

Hist == [gv : Nat, dir : [File -> Past]]

Nothing ==
  [gv |-> 0,
   dir |-> [f \in File |-> [there |-> FALSE, version |-> 0, contents |-> NoFile,
                            expires |-> FALSE]]]

\* Command m writes its file, where h is what those before it have made.
Rewrites(h, m) ==
  \/ m.kind = "w"
  \/ m.kind = "c" /\ (h.dir[m.file].there => m.version = h.dir[m.file].version)

\* The file of m after it.
Left(h, m) ==
  IF Rewrites(h, m)
    THEN [there |-> TRUE, version |-> h.gv + 1, contents |-> m.contents,
          expires |-> m.exptime > 0]
    ELSE [h.dir[m.file] EXCEPT !.there = @ /\ m.kind # "d"]

Processed(h, m) ==
  [gv |-> IF Rewrites(h, m) THEN h.gv + 1 ELSE h.gv,
   dir |-> [h.dir EXCEPT ![m.file] = Left(h, m)]]

NothingExpires(h) == \A f \in File : h.dir[f].there => ~h.dir[f].expires

\* The directory has the files of h, but for some that may have expired.
Follows(h) ==
  /\ gversion = h.gv
  /\ \A f \in File : Exists(f) =>
       /\ h.dir[f].there /\ Dir[f].version = h.dir[f].version
       /\ Dir[f].contents = h.dir[f].contents
       /\ Dir[f].absexptime # 0 <=> h.dir[f].expires
  /\ \A f \in File : h.dir[f].there /\ ~h.dir[f].expires => Exists(f)

LEMMA HistFacts ==
  ASSUME NEW h \in Hist, NEW m \in Msg
  PROVE  /\ m.file \in File /\ h.gv \in Nat /\ h.dir \in [File -> Past]
         /\ Left(h, m) \in Past /\ Processed(h, m) \in Hist
         /\ Processed(h, m).dir[m.file] = Left(h, m)
         /\ \A f \in File : f # m.file => Processed(h, m).dir[f] = h.dir[f]
<1>1. m.file \in File /\ h.gv \in Nat /\ h.dir \in [File -> Past] /\ h.dir[m.file] \in Past
  BY DEF Msg, Hist
<1>2. Left(h, m) \in Past
  <2>1. CASE Rewrites(h, m)
    <3>1. m.contents \in Contents /\ (m.exptime > 0) \in BOOLEAN
      BY <2>1 DEF Rewrites, Msg
    <3> QED
      BY <1>1, <2>1, <3>1 DEF Left, Past
  <2>2. CASE ~Rewrites(h, m)
    <3>1. Left(h, m) = [h.dir[m.file] EXCEPT !.there = @ /\ m.kind # "d"]
      BY <2>2 DEF Left
    <3> QED
      BY <1>1, <3>1 DEF Past
  <2> QED
    BY <2>1, <2>2
<1>3. (IF Rewrites(h, m) THEN h.gv + 1 ELSE h.gv) \in Nat
  BY <1>1
<1> QED
  BY <1>1, <1>2, <1>3 DEF Processed, Hist

LEMMA HistType == \A h \in Hist, m \in Msg : Processed(h, m) \in Hist
  BY HistFacts

\* What a command leaves of its file.
LEMMA LeftFacts ==
  ASSUME NEW h \in Hist, NEW m \in Msg
  PROVE  /\ Rewrites(h, m) =>
              /\ Processed(h, m).gv = h.gv + 1
              /\ Left(h, m).there /\ Left(h, m).version = h.gv + 1
              /\ Left(h, m).contents = m.contents
              /\ Left(h, m).expires <=> m.exptime > 0
         /\ ~Rewrites(h, m) =>
              /\ Processed(h, m).gv = h.gv
              /\ Left(h, m).there <=> h.dir[m.file].there /\ m.kind # "d"
              /\ Left(h, m).version = h.dir[m.file].version
              /\ Left(h, m).contents = h.dir[m.file].contents
              /\ Left(h, m).expires <=> h.dir[m.file].expires
<1>1. h.dir[m.file] \in Past
  BY HistFacts
<1>2. CASE Rewrites(h, m)
  BY <1>2 DEF Left, Processed
<1>3. CASE ~Rewrites(h, m)
  <2>1. Left(h, m) = [h.dir[m.file] EXCEPT !.there = @ /\ m.kind # "d"]
    BY <1>3 DEF Left
  <2>2. Processed(h, m).gv = h.gv
    BY <1>3 DEF Processed
  <2> QED
    BY <1>1, <1>3, <2>1, <2>2 DEF Past
<1> QED
  BY <1>2, <1>3

\* A file that is there after a command was written by it, with a version above
\* all given before, or is as it was.
LEMMA ProcessedFacts ==
  \A h \in Hist, m \in Msg :
    /\ h.gv \in Nat /\ Processed(h, m).gv \in Nat /\ h.gv <= Processed(h, m).gv
    /\ \A f \in File : Processed(h, m).dir[f].there =>
         \/ /\ m.kind # "d" /\ (Processed(h, m).dir[f].expires => m.exptime > 0)
            /\ Processed(h, m).gv = h.gv + 1
            /\ Processed(h, m).dir[f].version = h.gv + 1
         \/ /\ h.dir[f].there
            /\ Processed(h, m).dir[f].version = h.dir[f].version
            /\ Processed(h, m).dir[f].contents = h.dir[f].contents
            /\ Processed(h, m).dir[f].expires <=> h.dir[f].expires
<1> SUFFICES ASSUME NEW h \in Hist, NEW m \in Msg
             PROVE  /\ h.gv \in Nat /\ Processed(h, m).gv \in Nat /\ h.gv <= Processed(h, m).gv
                    /\ \A f \in File : Processed(h, m).dir[f].there =>
                         \/ /\ m.kind # "d" /\ (Processed(h, m).dir[f].expires => m.exptime > 0)
                            /\ Processed(h, m).gv = h.gv + 1
                            /\ Processed(h, m).dir[f].version = h.gv + 1
                         \/ /\ h.dir[f].there
                            /\ Processed(h, m).dir[f].version = h.dir[f].version
                            /\ Processed(h, m).dir[f].contents = h.dir[f].contents
                            /\ Processed(h, m).dir[f].expires <=> h.dir[f].expires
  OBVIOUS
<1>1. h.gv \in Nat /\ Processed(h, m).gv \in Nat /\ h.gv <= Processed(h, m).gv
  <2>1. h.gv \in Nat
    BY HistFacts
  <2>2. Processed(h, m).gv = h.gv \/ Processed(h, m).gv = h.gv + 1
    BY LeftFacts
  <2> QED
    BY <2>1, <2>2
<1>2. ASSUME NEW f \in File, f # m.file
      PROVE  Processed(h, m).dir[f] = h.dir[f]
  BY <1>2, HistFacts
<1>3. Processed(h, m).dir[m.file] = Left(h, m)
  BY HistFacts
<1>4. Rewrites(h, m) => m.kind # "d"
  BY DEF Rewrites
<1> QED
  BY <1>1, <1>2, <1>3, <1>4, LeftFacts

\* Processing a command does what Processed says; a cas must find its file there
\* exactly if it was left there.
LEMMA ProcessFollows ==
  \A h \in Hist, m \in Msg :
    /\ IInv /\ ProcessMsg(m) /\ Follows(h)
    /\ m.kind = "c" => NothingExpires(h)
    => Follows(Processed(h, m))'
<1> SUFFICES ASSUME NEW h \in Hist, NEW m \in Msg, IInv, ProcessMsg(m), Follows(h),
                    m.kind = "c" => NothingExpires(h)
             PROVE  Follows(Processed(h, m))'
  OBVIOUS
<1>1. PICK k \in Hist : k = Processed(h, m)
  BY HistType
<1>2. PICK f \in File : f = m.file
  BY DEF Msg
<1>3. /\ k.dir[f] = Left(h, m) /\ \A g \in File : g # f => k.dir[g] = h.dir[g]
  BY <1>1, <1>2, HistFacts
<1>4. /\ gversion = h.gv /\ gversion \in Nat
      /\ \A g \in File : Exists(g) =>
           /\ h.dir[g].there /\ Dir[g].version = h.dir[g].version
           /\ Dir[g].contents = h.dir[g].contents
           /\ Dir[g].absexptime # 0 <=> h.dir[g].expires
      /\ \A g \in File : h.dir[g].there /\ ~h.dir[g].expires => Exists(g)
  BY DEF Follows, IInv, TypeOK
<1>5. SUFFICES /\ gversion' = k.gv
               /\ Exists(f)' =>
                    /\ Left(h, m).there /\ Dir'[f].version = Left(h, m).version
                    /\ Dir'[f].contents = Left(h, m).contents
                    /\ Dir'[f].absexptime # 0 <=> Left(h, m).expires
               /\ Left(h, m).there /\ ~Left(h, m).expires => Exists(f)'
               /\ \A g \in File : g # f => Dir'[g] = Dir[g]
  <2>1. ASSUME NEW g \in File, g # f, Dir'[g] = Dir[g]
        PROVE  /\ Exists(g)' =>
                    /\ k.dir[g].there /\ Dir'[g].version = k.dir[g].version
                    /\ Dir'[g].contents = k.dir[g].contents
                    /\ Dir'[g].absexptime # 0 <=> k.dir[g].expires
               /\ k.dir[g].there /\ ~k.dir[g].expires => Exists(g)'
    <3>1. (Exists(g)' <=> Exists(g)) /\ k.dir[g] = h.dir[g]
      BY <2>1, <1>3 DEF Exists
    <3> QED
      BY <2>1, <3>1, <1>4
  <2>2. Follows(k)'
    BY <2>1, <1>3, <1>5 DEF Follows
  <2> QED
    BY <2>2, <1>1
<1>6. DOMAIN Dir = File
  BY DEF IInv, TypeOK
<1>7. m.kind = "c" => (Exists(f) <=> h.dir[f].there)
  BY <1>4 DEF NothingExpires
<1>8. CASE m.kind \in {"w", "c"} /\ internalWrite(m) /\ Rewrites(h, m)
  <2>1. calls' = calls + 1 /\ UNCHANGED now
    BY DEF ProcessMsg
  <2>2. /\ gversion' = gversion + 1 /\ m.exptime \in Nat /\ now \in Nat
        /\ Dir' = [Dir EXCEPT ![f] =
             [contents |-> m.contents, version |-> gversion + 1,
              timer |-> IF m.exptime > 0 THEN gversion + 1 ELSE 0,
              absexptime |-> IF m.exptime > 0 THEN now + m.exptime ELSE 0]]
    BY <1>2, <1>8, <2>1, WriteFacts DEF IInv, TypeOK
  <2>3. /\ Dir'[f].version = gversion + 1 /\ Dir'[f].contents = m.contents
        /\ Dir'[f].absexptime = IF m.exptime > 0 THEN now + m.exptime ELSE 0
        /\ \A g \in File : g # f => Dir'[g] = Dir[g]
    BY <1>6, <2>2
  <2>4. Dir'[f].absexptime # 0 <=> m.exptime > 0
    BY <2>2, <2>3
  <2>5. Exists(f)'
    <3>1. Dir'[f] = [contents |-> m.contents, version |-> gversion + 1,
                     timer |-> IF m.exptime > 0 THEN gversion + 1 ELSE 0,
                     absexptime |-> IF m.exptime > 0 THEN now + m.exptime ELSE 0]
      BY <1>6, <2>2
    <3>2. m.contents \in Contents /\ gversion \in Nat
      BY <1>8, <2>1, WriteFacts DEF IInv, TypeOK
    <3>3. Dir'[f] \in FileInfo
      BY <2>2, <3>1, <3>2 DEF FileInfo
    <3> QED
      BY <3>3, NoFileAssumption DEF Exists
  <2> QED
    BY <1>1, <1>4, <1>8, <2>2, <2>3, <2>4, <2>5, LeftFacts
<1>9. CASE ~Rewrites(h, m) /\ UNCHANGED <<Dir, gversion>> /\ (m.kind = "d" => ~Exists(f))
  <2>1. /\ k.gv = h.gv /\ (Left(h, m).there <=> h.dir[f].there /\ m.kind # "d")
        /\ Left(h, m).version = h.dir[f].version /\ Left(h, m).contents = h.dir[f].contents
        /\ (Left(h, m).expires <=> h.dir[f].expires)
    BY <1>1, <1>2, <1>9, LeftFacts
  <2>2. Exists(f)' <=> Exists(f)
    BY <1>9 DEF Exists
  <2> QED
    BY <1>4, <1>9, <2>1, <2>2
<1>10. CASE m.kind = "d" /\ UNCHANGED gversion /\ Dir' = [Dir EXCEPT ![f] = NoFile]
  <2>1. ~Rewrites(h, m)
    BY <1>10 DEF Rewrites
  <2>2. k.gv = h.gv /\ ~Left(h, m).there
    BY <1>1, <1>2, <1>10, <2>1, LeftFacts
  <2>3. ~Exists(f)' /\ \A g \in File : g # f => Dir'[g] = Dir[g]
    BY <1>6, <1>10 DEF Exists
  <2> QED
    BY <1>4, <1>10, <2>2, <2>3
<1>11. CASE processWrite(m)
  BY <1>8, <1>11 DEF processWrite, Rewrites
<1>12. CASE processCas(m)
  <2>1. CASE internalWrite(m) /\ (Exists(f) => m.version = Dir[f].version)
    <3>1. m.kind = "c" /\ Rewrites(h, m)
      BY <1>2, <1>4, <1>7, <1>12, <2>1 DEF processCas, Rewrites
    <3> QED
      BY <1>8, <2>1, <3>1
  <2>2. CASE /\ UNCHANGED <<Dir, gversion>>
             /\ Exists(f) /\ m.version # Dir[f].version
    <3>1. m.kind = "c" /\ ~Rewrites(h, m)
      BY <1>2, <1>4, <1>12, <2>2 DEF processCas, Rewrites
    <3> QED
      BY <1>9, <2>2, <3>1
  <2> QED
    BY <1>2, <1>12, <2>1, <2>2 DEF processCas
<1>13. CASE processDelete(m)
  <2>0. m.kind = "d" /\ ~Rewrites(h, m) /\ ~IsStale(f, 0) /\ UNCHANGED gversion
    BY <1>13 DEF processDelete, Rewrites, IsStale
  <2>1. CASE Dir' = [Dir EXCEPT ![f] = NoFile]
    BY <1>10, <2>0, <2>1
  <2>2. CASE ~Exists(f) /\ UNCHANGED Dir
    BY <1>9, <2>0, <2>2
  <2> QED
    BY <1>2, <1>13, <2>0, <2>1, <2>2 DEF processDelete, delete
<1> QED
  BY <1>11, <1>12, <1>13 DEF ProcessMsg

\* Nothing else a server does makes or changes a file, and a timer takes away
\* only a file that was to expire.
LEMMA RestFollows ==
  \A h \in Hist : IInv /\ [Next]_vars /\ UNCHANGED calls /\ Follows(h) => Follows(h)'
<1> SUFFICES ASSUME NEW h \in Hist, IInv, [Next]_vars, UNCHANGED calls, Follows(h)
             PROVE  Follows(h)'
  OBVIOUS
<1>1. CASE UNCHANGED <<Dir, gversion>>
  <2>1. \A f \in File : Exists(f)' <=> Exists(f)
    BY <1>1 DEF Exists
  <2> QED
    BY <1>1, <2>1 DEF Follows
<1>2. ASSUME NEW t \in fired, timerFunc(t), ~UNCHANGED Dir
      PROVE  Follows(h)'
  <2>1. /\ t.file \in File /\ t.version \in Nat \ {0} /\ t.at # 0 /\ DOMAIN Dir = File
    BY TimerFacts DEF IInv, TypeOK
  <2>2. /\ Exists(t.file) /\ ~IsStale(t.file, t.version) /\ gversion' = gversion
        /\ Dir' = [Dir EXCEPT ![t.file] = NoFile]
    BY <1>2 DEF timerFunc, delete
  <2>3. Dir[t.file].version = t.version
    BY <2>1, <2>2 DEF IsStale
  <2>4. Dir[t.file].absexptime # 0
    BY <2>1, <2>2, <2>3 DEF IInv, VersionsApart
  <2>5. h.dir[t.file].expires
    BY <2>1, <2>2, <2>4 DEF Follows
  <2>6. ~Exists(t.file)' /\ \A f \in File : f # t.file => Dir'[f] = Dir[f] /\ (Exists(f)' <=> Exists(f))
    BY <2>1, <2>2 DEF Exists
  <2> QED
    BY <2>2, <2>5, <2>6 DEF Follows
<1>3. ASSUME NEW m \in Msg, ProcessMsg(m)
      PROVE  FALSE
  <2>1. calls \in Nat /\ calls' = calls + 1
    BY <1>3 DEF ProcessMsg, IInv, TypeOK
  <2> QED
    BY <2>1
<1> QED
  BY <1>1, <1>2, <1>3 DEF Next, vars, TimerFires, timerFunc, Tick

\* Without timers the directory has what the commands left that does not expire.
LEMMA SettledFollows ==
  \A h \in Hist :
    IInv /\ Follows(h) /\ timers = {} /\ fired = {} =>
      \A f \in File : Exists(f) <=> h.dir[f].there /\ ~h.dir[f].expires
  BY DEF Follows, IInv, WillExpire

\* An empty directory is what no commands make.
LEMMA EmptyFollows ==
  Dir = [f \in File |-> NoFile] /\ gversion = 0 => Follows(Nothing)
  BY DEF Follows, Nothing, Exists
=============================================================================
