--------------------------- MODULE ReplicasProofs ---------------------------
(***************************************************************************)
(* Proofs about Replicas, for any files, contents, versions, expiry times  *)
(* and commands: what two servers that go through one log of commands have *)
(* in common, whatever their clocks, timers and restarts do.               *)
(*                                                                         *)
(* What the commands make of the files is computed once, in H: H[n] is     *)
(* what the first n of them leave if nothing expires (FileSystemProofs).   *)
(* Each server follows H at the place it has come to.                      *)
(***************************************************************************)
EXTENDS Replicas, SequenceTheorems, TLAPS

AP == INSTANCE FileSystemProofs WITH Dir <- DirA, gversion <- gversionA,
        timers <- timersA, fired <- firedA, calls <- doneA
BP == INSTANCE FileSystemProofs WITH Dir <- DirB, gversion <- gversionB,
        timers <- timersB, fired <- firedB, calls <- doneB

-----------------------------------------------------------------------------
(* The invariant *)

\* The commands are commands, each server's file system has its own invariant,
\* and no server has processed more than there is.
Sound ==
  /\ cmds \in Seq(AP!Msg)
  /\ doneA \in 0..Len(cmds) /\ doneB \in 0..Len(cmds)
  /\ AP!IInv /\ BP!IInv

\* H is what the commands make of the files, one after the other.
Recorded(H) ==
  /\ H \in [Nat -> AP!Hist] /\ H[0] = AP!Nothing
  /\ \A n \in 1..Len(cmds) : H[n] = AP!Processed(H[n - 1], cmds[n])

\* Versions are given in order, so that one never stands for two contents of a
\* file, not even at different places of the log.
Given(H) ==
  \A n \in 0..Len(cmds), f \in File : H[n].dir[f].there =>
    /\ H[n].dir[f].version <= H[Len(cmds)].gv
    /\ \A k \in 0..Len(cmds) :
         H[k].dir[f].there /\ H[k].dir[f].version = H[n].dir[f].version =>
           H[k].dir[f].contents = H[n].dir[f].contents

\* Nothing expires if no command asks for it.
Lasting(H) == NoExpiry => \A n \in 0..Len(cmds) : AP!NothingExpires(H[n])

\* Each server has the files of its place in the log but for expired ones. With
\* expiry a cas could find its file gone on one server only, hence the premise.
Following(H) ==
  NoCas \/ NoExpiry => AP!Follows(H[doneA]) /\ BP!Follows(H[doneB])

RInv(H) == Sound /\ Recorded(H) /\ Given(H) /\ Lasting(H) /\ Following(H)

-----------------------------------------------------------------------------
(* The two instances of the file system of each server are the same. *)

LEMMA SameA ==
  /\ A!Msg = AP!Msg /\ (A!Init <=> AP!Init)
  /\ \A f \in File : A!Exists(f) <=> AP!Exists(f)
  /\ \A m \in AP!Msg : A!ProcessMsg(m) <=> AP!ProcessMsg(m)
  /\ \A t \in timersA : A!TimerFires(t) <=> AP!TimerFires(t)
  /\ \A t \in firedA : A!timerFunc(t) <=> AP!timerFunc(t)
<1>1. A!Msg = AP!Msg /\ (A!Init <=> AP!Init)
  BY DEF A!Msg, AP!Msg, A!Init, AP!Init
<1>2. \A f \in File : A!Exists(f) <=> AP!Exists(f)
  BY DEF A!Exists, AP!Exists
<1>3. \A m \in AP!Msg : A!ProcessMsg(m) <=> AP!ProcessMsg(m)
  BY DEF A!ProcessMsg, A!processWrite, A!processCas, A!processDelete, A!internalWrite,
         A!delete, A!IsStale, A!Exists, A!Stopped, A!NewVersion, A!TimerVersion,
         AP!ProcessMsg, AP!processWrite, AP!processCas, AP!processDelete,
         AP!internalWrite, AP!delete, AP!IsStale, AP!Exists, AP!Stopped,
         AP!NewVersion, AP!TimerVersion
<1>4. \A t \in timersA : A!TimerFires(t) <=> AP!TimerFires(t)
  BY DEF A!TimerFires, AP!TimerFires
<1>5. \A t \in firedA : A!timerFunc(t) <=> AP!timerFunc(t)
  BY DEF A!timerFunc, A!delete, A!IsStale, A!Exists, A!Stopped,
         AP!timerFunc, AP!delete, AP!IsStale, AP!Exists, AP!Stopped
<1> QED
  BY <1>1, <1>2, <1>3, <1>4, <1>5

LEMMA SameB ==
  /\ B!Init <=> BP!Init
  /\ \A f \in File : B!Exists(f) <=> BP!Exists(f)
  /\ \A m \in AP!Msg : B!ProcessMsg(m) <=> BP!ProcessMsg(m)
  /\ \A t \in timersB : B!TimerFires(t) <=> BP!TimerFires(t)
  /\ \A t \in firedB : B!timerFunc(t) <=> BP!timerFunc(t)
<1>1. B!Init <=> BP!Init
  BY DEF B!Init, BP!Init
<1>2. \A f \in File : B!Exists(f) <=> BP!Exists(f)
  BY DEF B!Exists, BP!Exists
<1>3. \A m \in AP!Msg : B!ProcessMsg(m) <=> BP!ProcessMsg(m)
  BY DEF B!ProcessMsg, B!processWrite, B!processCas, B!processDelete, B!internalWrite,
         B!delete, B!IsStale, B!Exists, B!Stopped, B!NewVersion, B!TimerVersion,
         BP!ProcessMsg, BP!processWrite, BP!processCas, BP!processDelete,
         BP!internalWrite, BP!delete, BP!IsStale, BP!Exists, BP!Stopped,
         BP!NewVersion, BP!TimerVersion
<1>4. \A t \in timersB : B!TimerFires(t) <=> BP!TimerFires(t)
  BY DEF B!TimerFires, BP!TimerFires
<1>5. \A t \in firedB : B!timerFunc(t) <=> BP!timerFunc(t)
  BY DEF B!timerFunc, B!delete, B!IsStale, B!Exists, B!Stopped,
         BP!timerFunc, BP!delete, BP!IsStale, BP!Exists, BP!Stopped
<1> QED
  BY <1>1, <1>2, <1>3, <1>4, <1>5

\* What FileSystemProofs takes for granted of its constants.
LEMMA Assumed ==
  /\ ExpTime \subseteq Nat /\ Version \subseteq Nat
  /\ NoFile \notin AP!FileInfo \cup [version : Nat, until : Nat]
  /\ NoFile \notin BP!FileInfo \cup [version : Nat, until : Nat]
<1>1. A!FileInfo = AP!FileInfo /\ A!FileInfo = BP!FileInfo
  BY DEF A!FileInfo, AP!FileInfo, BP!FileInfo
<1> QED
  BY <1>1, RequestAssumption, NoFileAssumption

\* What commands make of the files is the same wherever it is computed.
LEMMA SameHistory ==
  /\ BP!Msg = AP!Msg /\ BP!Hist = AP!Hist /\ BP!Nothing = AP!Nothing
  /\ \A h \in AP!Hist, m \in AP!Msg : BP!Processed(h, m) = AP!Processed(h, m)
  /\ \A h \in AP!Hist : BP!NothingExpires(h) <=> AP!NothingExpires(h)
<1>1. BP!Msg = AP!Msg
  BY DEF BP!Msg, AP!Msg
<1>2. BP!Hist = AP!Hist /\ BP!Nothing = AP!Nothing
  BY DEF BP!Hist, AP!Hist, BP!Past, AP!Past, BP!Nothing, AP!Nothing
<1>3. \A h \in AP!Hist, m \in AP!Msg : BP!Processed(h, m) = AP!Processed(h, m)
  BY DEF BP!Processed, AP!Processed, BP!Left, AP!Left, BP!Rewrites, AP!Rewrites
<1>4. \A h \in AP!Hist : BP!NothingExpires(h) <=> AP!NothingExpires(h)
  BY DEF BP!NothingExpires, AP!NothingExpires
<1> QED
  BY <1>1, <1>2, <1>3, <1>4
-----------------------------------------------------------------------------
(* Steps of the servers *)

\* A timer or the clock makes each server go one step of its file system, or
\* none, and process no command.
LEMMA QuietSteps ==
  ASSUME TimerA \/ TimerB \/ Tick \/ UNCHANGED vars
  PROVE  /\ UNCHANGED <<cmds, doneA, doneB>>
         /\ [AP!Next]_(AP!vars) /\ [BP!Next]_(BP!vars)
<1>1. CASE TimerA
  <2>1. UNCHANGED <<cmds, varsB, now, doneA>>
    BY <1>1 DEF TimerA, A!TimerFires, A!timerFunc
  <2>2. AP!Next
    BY <1>1, SameA DEF TimerA, AP!Next
  <2> QED
    BY <2>1, <2>2 DEF varsB, BP!vars
<1>2. CASE TimerB
  <2>1. UNCHANGED <<cmds, varsA, now, doneB>>
    BY <1>2 DEF TimerB, B!TimerFires, B!timerFunc
  <2>2. BP!Next
    BY <1>2, SameB DEF TimerB, BP!Next
  <2> QED
    BY <2>1, <2>2 DEF varsA, AP!vars
<1>3. CASE Tick
  <2>1. AP!Tick /\ BP!Tick /\ UNCHANGED <<cmds, doneA, doneB>>
    BY <1>3 DEF Tick, varsA, varsB, AP!Tick, BP!Tick
  <2> QED
    BY <2>1 DEF AP!Next, BP!Next
<1>4. CASE UNCHANGED vars
  BY <1>4 DEF vars, varsA, varsB, AP!vars, BP!vars
<1> QED
  BY <1>1, <1>2, <1>3, <1>4

\* A listener processes the command that is next in the log; the other server
\* stands still.
LEMMA ListenASteps ==
  ASSUME Sound, ListenA
  PROVE  /\ doneA \in Nat /\ doneA + 1 \in 1..Len(cmds) /\ doneA' = doneA + 1
         /\ cmds[doneA + 1] \in AP!Msg /\ AP!ProcessMsg(cmds[doneA + 1])
         /\ AP!Next /\ UNCHANGED <<cmds, now>> /\ UNCHANGED varsB /\ UNCHANGED BP!vars
<1>1. doneA \in Nat /\ doneA + 1 \in 1..Len(cmds) /\ cmds[doneA + 1] \in AP!Msg
  BY DEF Sound, ListenA
<1>2. A!ProcessMsg(cmds[doneA + 1]) /\ UNCHANGED <<cmds, varsB>>
  BY DEF ListenA
<1>3. doneA' = doneA + 1 /\ UNCHANGED now
  BY <1>2 DEF A!ProcessMsg
<1>4. AP!ProcessMsg(cmds[doneA + 1])
  BY <1>1, <1>2, SameA
<1> QED
  BY <1>1, <1>2, <1>3, <1>4 DEF AP!Next, varsB, BP!vars

LEMMA ListenBSteps ==
  ASSUME Sound, ListenB
  PROVE  /\ doneB \in Nat /\ doneB + 1 \in 1..Len(cmds) /\ doneB' = doneB + 1
         /\ cmds[doneB + 1] \in AP!Msg /\ BP!ProcessMsg(cmds[doneB + 1])
         /\ BP!Next /\ UNCHANGED <<cmds, now>> /\ UNCHANGED varsA /\ UNCHANGED AP!vars
<1>1. doneB \in Nat /\ doneB + 1 \in 1..Len(cmds) /\ cmds[doneB + 1] \in AP!Msg
  BY DEF Sound, ListenB
<1>2. B!ProcessMsg(cmds[doneB + 1]) /\ UNCHANGED <<cmds, varsA>>
  BY DEF ListenB
<1>3. doneB' = doneB + 1 /\ UNCHANGED now
  BY <1>2 DEF B!ProcessMsg
<1>4. BP!ProcessMsg(cmds[doneB + 1])
  BY <1>1, <1>2, SameB
<1> QED
  BY <1>1, <1>2, <1>3, <1>4, SameHistory DEF BP!Next, varsA, AP!vars

\* A command more in the log leaves those before it where they are.
LEMMA CommitSteps ==
  ASSUME Sound, NEW m \in AP!Msg, Commit(m)
  PROVE  /\ Len(cmds) \in Nat /\ Len(cmds') = Len(cmds) + 1 /\ cmds' \in Seq(AP!Msg)
         /\ cmds'[Len(cmds) + 1] = m
         /\ \A n \in 1..Len(cmds) : cmds'[n] = cmds[n]
         /\ UNCHANGED varsA /\ UNCHANGED varsB /\ UNCHANGED now
         /\ UNCHANGED AP!vars /\ UNCHANGED BP!vars
<1>1. cmds' = Append(cmds, m) /\ cmds \in Seq(AP!Msg)
  BY DEF Commit, Sound
<1>2. /\ Len(cmds) \in Nat /\ Len(cmds') = Len(cmds) + 1 /\ cmds' \in Seq(AP!Msg)
      /\ cmds'[Len(cmds) + 1] = m
      /\ \A n \in 1..Len(cmds) : cmds'[n] = cmds[n]
  BY <1>1, AppendProperties
<1> QED
  BY <1>2 DEF Commit, varsA, varsB, AP!vars, BP!vars

\* Every step keeps the parts of Sound.
LEMMA SoundStep ==
  ASSUME Sound, [Next]_vars
  PROVE  Sound'
<1>0. /\ cmds \in Seq(AP!Msg) /\ Len(cmds) \in Nat
      /\ doneA \in 0..Len(cmds) /\ doneB \in 0..Len(cmds)
      /\ AP!IInv /\ BP!IInv
  BY DEF Sound
<1>1. ASSUME NEW m \in AP!Msg, Commit(m)
      PROVE  Sound'
  <2>1. AP!IInv' /\ BP!IInv'
    BY <1>0, <1>1, CommitSteps, Assumed, AP!Inductive, BP!Inductive
  <2>2. doneA' \in 0..Len(cmds') /\ doneB' \in 0..Len(cmds')
    BY <1>0, <1>1, CommitSteps DEF varsA, varsB
  <2> QED
    BY <1>1, <2>1, <2>2, CommitSteps DEF Sound
<1>2. CASE ListenA
  <2>1. AP!IInv' /\ BP!IInv'
    BY <1>0, <1>2, ListenASteps, Assumed, AP!Inductive, BP!Inductive
  <2>2. UNCHANGED <<cmds, doneB>> /\ doneA' \in 0..Len(cmds)
    BY <1>0, <1>2, ListenASteps DEF varsB
  <2> QED
    BY <1>0, <2>1, <2>2 DEF Sound
<1>3. CASE ListenB
  <2>1. AP!IInv' /\ BP!IInv'
    BY <1>0, <1>3, ListenBSteps, Assumed, AP!Inductive, BP!Inductive
  <2>2. UNCHANGED <<cmds, doneA>> /\ doneB' \in 0..Len(cmds)
    BY <1>0, <1>3, ListenBSteps DEF varsA
  <2> QED
    BY <1>0, <2>1, <2>2 DEF Sound
<1>4. CASE RestartA
  <2>1. UNCHANGED BP!vars /\ UNCHANGED <<cmds, doneB, now>> /\ doneA' = 0
    BY <1>4 DEF RestartA, varsB, BP!vars
  <2>2. now \in Nat
    BY <1>0 DEF AP!IInv, AP!TypeOK
  <2>3. AP!IInv'
    BY <1>4, <2>1, <2>2, Assumed, AP!EmptyKeeps DEF RestartA
  <2>4. BP!IInv'
    BY <1>0, <2>1, Assumed, BP!Inductive
  <2> QED
    BY <1>0, <2>1, <2>3, <2>4 DEF Sound
<1>5. CASE TimerA \/ TimerB \/ Tick \/ UNCHANGED vars
  <2>1. AP!IInv' /\ BP!IInv' /\ UNCHANGED <<cmds, doneA, doneB>>
    BY <1>0, <1>5, QuietSteps, Assumed, AP!Inductive, BP!Inductive
  <2> QED
    BY <1>0, <2>1 DEF Sound
<1> QED
  BY <1>1, <1>2, <1>3, <1>4, <1>5, SameA DEF Next
-----------------------------------------------------------------------------
(* The history *)

\* The history goes on with each command that is committed.
LEMMA CommitHistory ==
  ASSUME Sound, NEW H, Recorded(H), NEW m \in AP!Msg, Commit(m)
  PROVE  \E K \in [Nat -> AP!Hist] :
           /\ Recorded(K)' /\ \A n \in 0..Len(cmds) : K[n] = H[n]
           /\ K[Len(cmds) + 1] = AP!Processed(H[Len(cmds)], m)
<1>1. PICK L \in Nat : L = Len(cmds)
  BY CommitSteps
<1>2. H \in [Nat -> AP!Hist] /\ H[L] \in AP!Hist
  BY <1>1 DEF Recorded
<1>3. PICK h \in AP!Hist : h = AP!Processed(H[L], m)
  BY <1>2, Assumed, AP!HistType
<1>4. PICK K \in [Nat -> AP!Hist] : K = [H EXCEPT ![L + 1] = h]
  BY <1>1, <1>2, <1>3
<1>5. K[L + 1] = h /\ \A n \in 0..L : K[n] = H[n]
  BY <1>1, <1>2, <1>4
<1>6. K[0] = AP!Nothing
  BY <1>1, <1>5 DEF Recorded
<1>7. ASSUME NEW n \in 1..(L + 1)
      PROVE  K[n] = AP!Processed(K[n - 1], cmds'[n])
  <2>1. CASE n = L + 1
    <3>1. cmds'[n] = m /\ n - 1 = L /\ K[n - 1] = H[L]
      BY <1>1, <1>5, <2>1, CommitSteps
    <3> QED
      BY <1>3, <1>5, <2>1, <3>1
  <2>2. CASE n # L + 1
    <3>1. n \in 1..L /\ n - 1 \in 0..L /\ n \in 0..L
      BY <2>2
    <3>2. cmds'[n] = cmds[n] /\ K[n] = H[n] /\ K[n - 1] = H[n - 1]
      BY <1>1, <1>5, <3>1, CommitSteps
    <3> QED
      BY <1>1, <3>1, <3>2 DEF Recorded
  <2> QED
    BY <2>1, <2>2
<1>8. Recorded(K)'
  BY <1>1, <1>6, <1>7, CommitSteps DEF Recorded
<1> QED
  BY <1>1, <1>3, <1>5, <1>8

\* What command m may make of h.
Follower(h, m, k) ==
  /\ h.gv \in Nat /\ k.gv \in Nat /\ h.gv <= k.gv
  /\ \A f \in File : k.dir[f].there =>
       \/ /\ m.kind # "d" /\ (k.dir[f].expires => m.exptime > 0)
          /\ k.gv = h.gv + 1 /\ k.dir[f].version = h.gv + 1
       \/ /\ h.dir[f].there /\ k.dir[f].version = h.dir[f].version
          /\ k.dir[f].contents = h.dir[f].contents
          /\ k.dir[f].expires <=> h.dir[f].expires

LEMMA NewEntry ==
  ASSUME NEW h \in AP!Hist, NEW m \in AP!Msg, NEW k, k = AP!Processed(h, m)
  PROVE  Follower(h, m, k)
  BY Assumed, AP!ProcessedFacts DEF Follower

\* An entry that is there has a version that is a number.
LEMMA Entries ==
  ASSUME NEW h \in AP!Hist, NEW f \in File
  PROVE  h.gv \in Nat /\ h.dir[f].version \in Nat /\ h.dir[f].expires \in BOOLEAN
  BY DEF AP!Hist, AP!Past

\* The new entry keeps versions in order.
LEMMA CommitGiven ==
  ASSUME Sound, NEW H, Recorded(H), Given(H), NEW m \in AP!Msg, Commit(m),
         NEW K \in [Nat -> AP!Hist], \A n \in 0..Len(cmds) : K[n] = H[n],
         K[Len(cmds) + 1] = AP!Processed(H[Len(cmds)], m)
  PROVE  Given(K)'
<1>1. PICK L \in Nat : L = Len(cmds)
  BY CommitSteps
<1>2. PICK h \in AP!Hist, k \in AP!Hist : h = H[L] /\ k = AP!Processed(h, m) /\ k = K[L + 1]
  BY <1>1 DEF Recorded
<1>3. /\ h.gv \in Nat /\ k.gv \in Nat /\ h.gv <= k.gv
      /\ \A f \in File : k.dir[f].there =>
           \/ k.gv = h.gv + 1 /\ k.dir[f].version = h.gv + 1
           \/ /\ h.dir[f].there /\ k.dir[f].version = h.dir[f].version
              /\ k.dir[f].contents = h.dir[f].contents
  <2>1. Follower(h, m, k)
    BY <1>2, NewEntry
  <2> QED
    BY <2>1 DEF Follower
<1>4. \A n \in 0..L : K[n] = H[n]
  BY <1>1
<1>5. ASSUME NEW n \in 0..L, NEW f \in File, K[n].dir[f].there
      PROVE  /\ K[n].dir[f].version \in Nat /\ K[n].dir[f].version <= h.gv
             /\ \A i \in 0..L : K[i].dir[f].there /\ K[i].dir[f].version = K[n].dir[f].version =>
                  K[i].dir[f].contents = K[n].dir[f].contents
  <2>1. K[n].dir[f].version \in Nat
    BY Entries
  <2> QED
    BY <1>1, <1>2, <1>4, <1>5, <2>1 DEF Given
<1>6. h = K[L]
  BY <1>2, <1>4
<1>7. ASSUME NEW f \in File, k.dir[f].there
      PROVE  /\ k.dir[f].version <= k.gv
             /\ \A i \in 0..L : K[i].dir[f].there /\ K[i].dir[f].version = k.dir[f].version =>
                  K[i].dir[f].contents = k.dir[f].contents
  <2>1. CASE k.gv = h.gv + 1 /\ k.dir[f].version = h.gv + 1
    <3>1. k.dir[f].version <= k.gv
      BY <1>3, <2>1
    <3>2. \A i \in 0..L : K[i].dir[f].there => K[i].dir[f].version # h.gv + 1
      BY <1>3, <1>5
    <3> QED
      BY <2>1, <3>1, <3>2
  <2>2. CASE /\ h.dir[f].there /\ k.dir[f].version = h.dir[f].version
             /\ k.dir[f].contents = h.dir[f].contents
    <3>1. L \in 0..L
      OBVIOUS
    <3>2. /\ h.dir[f].version \in Nat /\ h.dir[f].version <= h.gv
          /\ \A i \in 0..L : K[i].dir[f].there /\ K[i].dir[f].version = h.dir[f].version =>
                  K[i].dir[f].contents = h.dir[f].contents
      BY <1>5, <1>6, <2>2, <3>1
    <3>3. k.dir[f].version <= k.gv
      BY <1>3, <2>2, <3>2
    <3> QED
      BY <2>2, <3>2, <3>3
  <2> QED
    BY <1>3, <1>7, <2>1, <2>2
<1>8. ASSUME NEW n \in 0..(L + 1), NEW f \in File, K[n].dir[f].there
      PROVE  /\ K[n].dir[f].version <= k.gv
             /\ \A i \in 0..(L + 1) :
                  K[i].dir[f].there /\ K[i].dir[f].version = K[n].dir[f].version =>
                    K[i].dir[f].contents = K[n].dir[f].contents
  <2>1. CASE n = L + 1
    <3>1. K[n] = k
      BY <1>2, <2>1
    <3>2. \A i \in 0..(L + 1) : i \in 0..L \/ K[i] = k
      BY <1>2
    <3> QED
      BY <1>7, <1>8, <3>1, <3>2
  <2>2. CASE n # L + 1
    <3>1. n \in 0..L
      BY <2>2
    <3>2. K[n].dir[f].version <= k.gv
      BY <1>3, <1>5, <1>8, <3>1
    <3>3. \A i \in 0..(L + 1) : i \in 0..L \/ K[i] = k
      BY <1>2
    <3> QED
      BY <1>5, <1>7, <1>8, <3>1, <3>2, <3>3
  <2> QED
    BY <2>1, <2>2
<1>9. Len(cmds') = L + 1 /\ K[L + 1] = k
  BY <1>1, <1>2, CommitSteps
<1> QED
  BY <1>8, <1>9 DEF Given

\* If no command asks for expiry, not the new one either, nothing expires.
LEMMA CommitLasting ==
  ASSUME Sound, NEW H, Recorded(H), Lasting(H), NEW m \in AP!Msg, Commit(m),
         NEW K \in [Nat -> AP!Hist], \A n \in 0..Len(cmds) : K[n] = H[n],
         K[Len(cmds) + 1] = AP!Processed(H[Len(cmds)], m)
  PROVE  Lasting(K)'
<1>1. PICK L \in Nat : L = Len(cmds)
  BY CommitSteps
<1>2. PICK h \in AP!Hist, k \in AP!Hist : h = H[L] /\ k = AP!Processed(h, m) /\ k = K[L + 1]
  BY <1>1 DEF Recorded
<1> SUFFICES ASSUME NoExpiry'
             PROVE  \A n \in 0..(L + 1) : AP!NothingExpires(K[n])
  BY <1>1, CommitSteps DEF Lasting
<1>3. NoExpiry /\ (m.kind # "d" => m.exptime = 0)
  <2>1. \A n \in 1..L : cmds'[n] = cmds[n] /\ n \in 1..(L + 1)
    BY <1>1, CommitSteps
  <2>2. cmds'[L + 1] = m /\ L + 1 \in 1..(L + 1) /\ Len(cmds') = L + 1
    BY <1>1, CommitSteps
  <2> QED
    BY <1>1, <2>1, <2>2 DEF NoExpiry
<1>4. \A n \in 0..L : AP!NothingExpires(K[n])
  BY <1>1, <1>3 DEF Lasting
<1>5. AP!NothingExpires(h)
  BY <1>1, <1>2, <1>3 DEF Lasting
<1>6. AP!NothingExpires(k)
  <2> SUFFICES ASSUME NEW f \in File, k.dir[f].there
               PROVE  ~k.dir[f].expires
    BY DEF AP!NothingExpires
  <2>1. \/ m.kind # "d" /\ (k.dir[f].expires => m.exptime > 0)
        \/ h.dir[f].there /\ (k.dir[f].expires <=> h.dir[f].expires)
    <3>1. Follower(h, m, k)
      BY <1>2, NewEntry
    <3> QED
      BY <3>1 DEF Follower
  <2>2. ~(m.kind # "d" /\ m.exptime > 0)
    BY <1>3
  <2> QED
    BY <1>5, <2>1, <2>2 DEF AP!NothingExpires
<1> QED
  BY <1>2, <1>4, <1>6
\* The premise holds of fewer commands all the more.
LEMMA PremiseKept ==
  ASSUME Sound, [Next]_vars, (NoCas \/ NoExpiry)'
  PROVE  NoCas \/ NoExpiry
<1>1. CASE UNCHANGED cmds
  BY <1>1 DEF NoCas, NoExpiry
<1>2. ASSUME NEW m \in AP!Msg, Commit(m)
      PROVE  NoCas \/ NoExpiry
  <2>1. \A n \in 1..Len(cmds) : n \in 1..Len(cmds') /\ cmds'[n] = cmds[n]
    BY <1>2, CommitSteps
  <2> QED
    BY <2>1 DEF NoCas, NoExpiry
<1> QED
  BY <1>1, <1>2, SameA DEF Next, vars, ListenA, ListenB, TimerA, TimerB, RestartA, Tick

\* A server's step keeps what it follows, at the place of the log it comes to.
LEMMA StepFollowing ==
  ASSUME Sound, NEW H, Recorded(H), Lasting(H), Following(H), [Next]_vars
  PROVE  (NoCas \/ NoExpiry)' =>
           AP!Follows(H[doneA])' /\ BP!Follows(H[doneB])'
<1> SUFFICES ASSUME (NoCas \/ NoExpiry)'
             PROVE  AP!Follows(H[doneA])' /\ BP!Follows(H[doneB])'
  OBVIOUS
<1>0. /\ NoCas \/ NoExpiry
      /\ AP!IInv /\ BP!IInv /\ Len(cmds) \in Nat
      /\ doneA \in 0..Len(cmds) /\ doneB \in 0..Len(cmds)
  BY PremiseKept DEF Sound
<1>1. PICK a \in AP!Hist : a = H[doneA]
  BY <1>0 DEF Recorded
<1>2. PICK b \in AP!Hist : b = H[doneB]
  BY <1>0 DEF Recorded
<1>3. AP!Follows(a) /\ BP!Follows(b) /\ b \in BP!Hist
  BY <1>0, <1>1, <1>2, SameHistory DEF Following
<1>4. [AP!Next]_(AP!vars) /\ UNCHANGED doneA => AP!Follows(H[doneA])'
  <2> SUFFICES ASSUME [AP!Next]_(AP!vars), UNCHANGED doneA
               PROVE  AP!Follows(H[doneA])'
    OBVIOUS
  <2>1. AP!Follows(a)'
    BY <1>0, <1>3, Assumed, AP!RestFollows
  <2> QED
    BY <1>1, <2>1
<1>5. [BP!Next]_(BP!vars) /\ UNCHANGED doneB => BP!Follows(H[doneB])'
  <2> SUFFICES ASSUME [BP!Next]_(BP!vars), UNCHANGED doneB
               PROVE  BP!Follows(H[doneB])'
    OBVIOUS
  <2>1. BP!Follows(b)'
    BY <1>0, <1>3, Assumed, BP!RestFollows
  <2> QED
    BY <1>2, <2>1
<1>6. ASSUME NEW m \in AP!Msg, Commit(m)
      PROVE  AP!Follows(H[doneA])' /\ BP!Follows(H[doneB])'
  BY <1>4, <1>5, <1>6, CommitSteps DEF varsA, varsB
<1>7. CASE ListenA
  <2>1. PICK m \in AP!Msg : m = cmds[doneA + 1]
    BY <1>7, ListenASteps
  <2>2. AP!ProcessMsg(m) /\ doneA' = doneA + 1 /\ UNCHANGED BP!vars /\ UNCHANGED doneB
    BY <1>7, <2>1, ListenASteps DEF varsB
  <2>3. PICK k \in AP!Hist : k = AP!Processed(a, m)
    BY Assumed, AP!HistType
  <2>4. H[doneA + 1] = k
    <3>1. PICK n \in 1..Len(cmds) : n = doneA + 1 /\ n - 1 = doneA
      BY <1>7, ListenASteps
    <3>2. H[n] = AP!Processed(H[n - 1], cmds[n])
      BY DEF Recorded
    <3>3. H[n - 1] = a /\ cmds[n] = m
      BY <1>1, <2>1, <3>1
    <3> QED
      BY <2>3, <3>1, <3>2, <3>3
  <2>5. m.kind = "c" => AP!NothingExpires(a)
    <3>1. m.kind = "c" => ~NoCas
      BY <1>7, <2>1, ListenASteps DEF NoCas
    <3> QED
      BY <1>0, <1>1, <3>1 DEF Lasting
  <2>6. AP!Follows(k)'
    BY <1>0, <1>3, <2>2, <2>3, <2>5, Assumed, AP!ProcessFollows
  <2>7. AP!Follows(H[doneA])'
    BY <2>2, <2>4, <2>6
  <2> QED
    BY <1>5, <2>2, <2>7
<1>8. CASE ListenB
  <2>1. PICK m \in AP!Msg : m = cmds[doneB + 1]
    BY <1>8, ListenBSteps
  <2>2. BP!ProcessMsg(m) /\ doneB' = doneB + 1 /\ UNCHANGED AP!vars /\ UNCHANGED doneA
    BY <1>8, <2>1, ListenBSteps DEF varsA
  <2>3. PICK k \in AP!Hist : k = BP!Processed(b, m)
    BY Assumed, AP!HistType, SameHistory
  <2>4. H[doneB + 1] = k
    <3>1. PICK n \in 1..Len(cmds) : n = doneB + 1 /\ n - 1 = doneB
      BY <1>8, ListenBSteps
    <3>2. H[n] = AP!Processed(H[n - 1], cmds[n])
      BY DEF Recorded
    <3>3. H[n - 1] = b /\ cmds[n] = m
      BY <1>2, <2>1, <3>1
    <3> QED
      BY <2>3, <3>1, <3>2, <3>3, SameHistory
  <2>5. m.kind = "c" => BP!NothingExpires(b)
    <3>1. m.kind = "c" => ~NoCas
      BY <1>8, <2>1, ListenBSteps DEF NoCas
    <3> QED
      BY <1>0, <1>2, <3>1, SameHistory DEF Lasting
  <2>6. BP!Follows(k)'
    <3>1. m \in BP!Msg /\ b \in BP!Hist
      BY <1>3, SameHistory
    <3> QED
      BY <1>0, <1>3, <2>2, <2>3, <2>5, <3>1, Assumed, BP!ProcessFollows
  <2>7. BP!Follows(H[doneB])'
    BY <2>2, <2>4, <2>6
  <2> QED
    BY <1>4, <2>2, <2>7
<1>9. CASE RestartA
  <2>1. UNCHANGED BP!vars /\ UNCHANGED doneB
    BY <1>9 DEF RestartA, varsB, BP!vars
  <2>2. DirA' = [f \in File |-> NoFile] /\ gversionA' = 0 /\ H[doneA'] = AP!Nothing
    BY <1>9 DEF RestartA, Recorded
  <2>3. PICK k : k = AP!Nothing
    OBVIOUS
  <2>4. AP!Follows(k)'
    BY <2>2, <2>3 DEF AP!Follows, AP!Nothing, AP!Exists
  <2> QED
    BY <1>5, <2>1, <2>2, <2>3, <2>4
<1>10. CASE TimerA \/ TimerB \/ Tick \/ UNCHANGED vars
  BY <1>4, <1>5, <1>10, QuietSteps
<1> QED
  BY <1>6, <1>7, <1>8, <1>9, <1>10, SameA DEF Next
-----------------------------------------------------------------------------
(* The theorems *)

Inv == \E H \in [Nat -> AP!Hist] : RInv(H)

\* Before the first command every server has what no command makes.
LEMMA InitInv == Init => Inv
<1> SUFFICES ASSUME Init
             PROVE  Inv
  OBVIOUS
<1>1. cmds = <<>> /\ doneA = 0 /\ doneB = 0 /\ gversionA = 0 /\ gversionB = 0
      /\ DirA = [f \in File |-> NoFile] /\ DirB = [f \in File |-> NoFile]
      /\ Len(cmds) = 0
  BY DEF Init, A!Init, B!Init
<1>2. AP!IInv /\ BP!IInv
  BY Assumed, SameA, SameB, AP!Begins, BP!Begins DEF Init
<1>3. Sound
  BY <1>1, <1>2 DEF Sound
<1>4. PICK h \in AP!Hist : h = AP!Nothing
  BY DEF AP!Nothing, AP!Hist, AP!Past
<1>5. PICK H \in [Nat -> AP!Hist] : H = [n \in Nat |-> h]
  BY <1>4
<1>6. H[0] = h
  BY <1>5
<1>7. ASSUME NEW f \in File
      PROVE  ~h.dir[f].there /\ h.gv = 0
  BY <1>4 DEF AP!Nothing
<1>8. Recorded(H)
  BY <1>1, <1>4, <1>6 DEF Recorded
<1>9. Given(H) /\ Lasting(H)
  BY <1>1, <1>6, <1>7 DEF Given, Lasting, AP!NothingExpires
<1>10. AP!Follows(h) /\ BP!Follows(h)
  BY <1>1, <1>4 DEF AP!Follows, BP!Follows, AP!Exists, BP!Exists, AP!Nothing
<1>11. Following(H)
  BY <1>1, <1>6, <1>10 DEF Following
<1> QED
  BY <1>3, <1>8, <1>9, <1>11 DEF RInv, Inv

\* Every step keeps it, with the same history or one that goes on.
LEMMA StepInv == Inv /\ [Next]_vars => Inv'
<1> SUFFICES ASSUME NEW H \in [Nat -> AP!Hist], RInv(H), [Next]_vars
             PROVE  \E K \in [Nat -> AP!Hist] : RInv(K)'
  BY DEF Inv
<1>1. /\ Sound /\ Recorded(H) /\ Given(H) /\ Lasting(H) /\ Following(H)
      /\ Len(cmds) \in Nat /\ doneA \in 0..Len(cmds) /\ doneB \in 0..Len(cmds)
  BY DEF RInv, Sound
<1>2. Sound'
  BY <1>1, SoundStep
<1>3. (NoCas \/ NoExpiry)' => AP!Follows(H[doneA])' /\ BP!Follows(H[doneB])'
  BY <1>1, StepFollowing
<1>4. CASE UNCHANGED cmds
  <2>1. Recorded(H)' /\ Given(H)'
    BY <1>1, <1>4 DEF Recorded, Given
  <2>2. Lasting(H)'
    BY <1>1, <1>4 DEF Lasting, NoExpiry
  <2>3. Following(H)'
    BY <1>3 DEF Following
  <2> QED
    BY <1>2, <2>1, <2>2, <2>3 DEF RInv
<1>5. ASSUME NEW m \in AP!Msg, Commit(m)
      PROVE  \E K \in [Nat -> AP!Hist] : RInv(K)'
  <2>1. PICK K \in [Nat -> AP!Hist] :
          /\ Recorded(K)' /\ \A n \in 0..Len(cmds) : K[n] = H[n]
          /\ K[Len(cmds) + 1] = AP!Processed(H[Len(cmds)], m)
    BY <1>1, <1>5, CommitHistory
  <2>2. Given(K)'
    BY <1>1, <1>5, <2>1, CommitGiven
  <2>3. Lasting(K)'
    BY <1>1, <1>5, <2>1, CommitLasting
  <2>4. PICK a \in AP!Hist : a = H[doneA] /\ a = K[doneA]
    BY <1>1, <2>1
  <2>5. PICK b \in AP!Hist : b = H[doneB] /\ b = K[doneB]
    BY <1>1, <2>1
  <2>6. doneA' = doneA /\ doneB' = doneB
    BY <1>1, <1>5, CommitSteps DEF varsA, varsB
  <2>7. (NoCas \/ NoExpiry)' => AP!Follows(a)' /\ BP!Follows(b)'
    BY <1>3, <2>4, <2>5, <2>6
  <2>8. Following(K)'
    BY <2>4, <2>5, <2>6, <2>7 DEF Following
  <2> QED
    BY <1>2, <2>1, <2>2, <2>3, <2>8 DEF RInv
<1> QED
  BY <1>4, <1>5, SameA DEF Next, vars, ListenA, ListenB, TimerA, TimerB, RestartA, Tick

THEOREM Invariant == Spec => []Inv
  BY InitInv, StepInv, PTL DEF Spec

\* Two servers that have processed the same committed commands, and whose timers
\* have all done their work, have the same files with the same versions and
\* contents, whenever each processed them and however often one restarted,
\* unless there is a cas among commands that ask for expiry.
THEOREM ReplicasConverge == Spec => []Converged
<1>1. Inv => Converged
  <2> SUFFICES ASSUME NEW H, RInv(H), NoCas \/ NoExpiry, Settled, NEW f \in File
               PROVE  SameFile(f)
    BY DEF Inv, Converged
  <2>1. /\ AP!IInv /\ BP!IInv /\ doneA \in Nat /\ doneB = doneA
        /\ AP!Follows(H[doneA]) /\ BP!Follows(H[doneB])
        /\ timersA = {} /\ firedA = {} /\ timersB = {} /\ firedB = {}
    BY DEF RInv, Sound, Following, Settled
  <2>2. PICK h \in AP!Hist : h = H[doneA]
    BY <2>1 DEF RInv, Recorded
  <2>3. AP!Follows(h) /\ BP!Follows(h) /\ h \in BP!Hist
    BY <2>1, <2>2, SameHistory
  <2>4. AP!Exists(f) <=> h.dir[f].there /\ ~h.dir[f].expires
    BY <2>1, <2>3, Assumed, AP!SettledFollows
  <2>5. BP!Exists(f) <=> h.dir[f].there /\ ~h.dir[f].expires
    BY <2>1, <2>3, Assumed, BP!SettledFollows
  <2>6. AP!Exists(f) => DirA[f].version = h.dir[f].version /\ DirA[f].contents = h.dir[f].contents
    BY <2>3 DEF AP!Follows
  <2>7. BP!Exists(f) => DirB[f].version = h.dir[f].version /\ DirB[f].contents = h.dir[f].contents
    BY <2>3 DEF BP!Follows
  <2> QED
    BY <2>4, <2>5, <2>6, <2>7, SameA, SameB DEF SameFile
<1> QED
  BY <1>1, Invariant, PTL

\* At every moment, wherever in the log the two servers are, a version of a file
\* they both have names the same contents on both, unless there is a cas among
\* commands that ask for expiry: a client may read on one and cas on the other.
THEOREM VersionsMeanContents == Spec => []VersionMeansContents
<1>1. Inv => VersionMeansContents
  <2> SUFFICES ASSUME NEW H, RInv(H), NoCas \/ NoExpiry, NEW f \in File,
                      A!Exists(f), B!Exists(f), DirA[f].version = DirB[f].version
               PROVE  DirA[f].contents = DirB[f].contents
    BY DEF Inv, VersionMeansContents
  <2>1. /\ doneA \in 0..Len(cmds) /\ doneB \in 0..Len(cmds)
        /\ AP!Follows(H[doneA]) /\ BP!Follows(H[doneB])
    BY DEF RInv, Sound, Following
  <2>2. /\ H[doneA].dir[f].there /\ DirA[f].version = H[doneA].dir[f].version
        /\ DirA[f].contents = H[doneA].dir[f].contents
    BY <2>1, SameA DEF AP!Follows
  <2>3. /\ H[doneB].dir[f].there /\ DirB[f].version = H[doneB].dir[f].version
        /\ DirB[f].contents = H[doneB].dir[f].contents
    BY <2>1, SameB DEF BP!Follows
  <2> QED
    BY <2>1, <2>2, <2>3 DEF RInv, Given
<1> QED
  BY <1>1, Invariant, PTL
=============================================================================
