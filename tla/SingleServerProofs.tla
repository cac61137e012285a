------------------------- MODULE SingleServerProofs -------------------------
(***************************************************************************)
(* Proofs about SingleServer, for any connections, files and commands:     *)
(* every variable keeps its type, no update is lost, a cas replaces the    *)
(* version it names, and what the connections are told is so, once for     *)
(* each command.                                                           *)
(***************************************************************************)
EXTENDS SingleServer, SequenceTheorems, TLAPS

Place == {"new", "reading", "contents", "losing", "closing", "telling",
          "locking", "swapping", "copied", "ended"}

\* What a connection at place p may work on.
BusyWith(p, r) ==
  p \in {"contents", "losing", "closing", "telling", "locking", "swapping", "copied"} =>
    /\ r \in Request
    /\ r.op = "write" => r.expTime # Bad
    /\ r.op = "cas" /\ p \notin {"contents", "losing", "closing"} => r.expTime # Bad
    /\ p = "swapping" => r.op = "cas"
    /\ p = "telling" => r.op = "write"
    /\ p = "copied" => r.op = "read"
    /\ p = "closing" => r.op = "cas" /\ r.version = Bad

Busy == \A c \in Client : BusyWith(at[c], cmd[c])

\* Between its test and its swap a cas has the file as it is in the map.
SwapReady ==
  \A c \in Client : at[c] = "swapping" =>
    /\ file[c] = filemap[cmd[c].name] /\ file[c] # Absent
    /\ file[c].version = cmd[c].version

\* The writes of a file since it was last deleted are of versions up to its own.
VersionsGrow ==
  \A w \in writes :
    /\ w.name \in Filename /\ w.life \in Nat /\ w.version \in Nat
    /\ w.life <= deletes[w.name]
    /\ w.life = deletes[w.name] =>
         filemap[w.name] # Absent /\ w.version <= filemap[w.name].version

Writes == VersionsGrow /\ NoLostUpdate /\ SwapsNamed

-----------------------------------------------------------------------------
(* What a step does to one connection *)

\* The types of the connections' variables, and what they work on.
ConnTypes ==
  /\ file \in [Client -> FileType \cup {Absent}] /\ calls \in Nat
  /\ at \in [Client -> Place] /\ cmd \in [Client -> Request \cup {NoCmd}]
  /\ num \in [Client -> 0..calls] /\ open \in [Client -> BOOLEAN]
  /\ Busy

MapTypes ==
  /\ filemap \in [Filename -> FileType \cup {Absent}]
  /\ tick \in Nat /\ deletes \in [Filename -> Nat]

TimeoutType(n) == [client : Client, n : 1..n, op : {"write", "cas"}]

TimeoutTypes == timeouts \subseteq TimeoutType(calls)

Locking ==
  /\ \A c \in Client : at[c] = "swapping" <=> mapLock = c
  /\ mapLock \in Client \cup {Nobody}
  /\ SwapReady

\* The inductive invariant.
IInv == ConnTypes /\ MapTypes /\ TimeoutTypes /\ Locking /\ Writes

LEMMA Split ==
  IInv <=> ConnTypes /\ MapTypes /\ TimeoutTypes /\ Locking /\ Writes
  BY DEF IInv

\* What is typed besides.
RunTypes == expired \subseteq Client /\ running \in BOOLEAN

\* The variables of connection c become these.
Becomes(c, p, r, n, f) ==
  /\ at' = [at EXCEPT ![c] = p] /\ cmd' = [cmd EXCEPT ![c] = r]
  /\ num' = [num EXCEPT ![c] = n] /\ file' = [file EXCEPT ![c] = f]

\* Types are kept when one connection goes on to what it may work on.
LEMMA GoesOn ==
  ASSUME ConnTypes, NEW c \in Client, NEW p \in Place,
         NEW r \in Request \cup {NoCmd}, NEW n, NEW f \in FileType \cup {Absent},
         Becomes(c, p, r, n, f), BusyWith(p, r),
         calls' \in Nat, calls <= calls', n \in 0..calls',
         open' \in [Client -> BOOLEAN]
  PROVE  ConnTypes'
<1>1. /\ file' \in [Client -> FileType \cup {Absent}]
      /\ at' \in [Client -> Place] /\ cmd' \in [Client -> Request \cup {NoCmd}]
  BY DEF ConnTypes, Becomes
<1>2. num' \in [Client -> 0..calls']
  BY DEF ConnTypes, Becomes
<1>3. \A d \in Client : at'[d] = (IF d = c THEN p ELSE at[d])
                        /\ cmd'[d] = IF d = c THEN r ELSE cmd[d]
  BY DEF ConnTypes, Becomes
<1>4. Busy'
  <2> SUFFICES ASSUME NEW d \in Client PROVE BusyWith(at'[d], cmd'[d])
    BY DEF Busy, BusyWith
  <2> QED
    BY <1>3 DEF ConnTypes, Busy
<1> QED
  BY <1>1, <1>2, <1>4 DEF ConnTypes

\* A connection that stays as it is.
LEMMA Stays ==
  ASSUME ConnTypes, NEW c \in Client
  PROVE  /\ at = [at EXCEPT ![c] = at[c]] /\ cmd = [cmd EXCEPT ![c] = cmd[c]]
         /\ num = [num EXCEPT ![c] = num[c]] /\ file = [file EXCEPT ![c] = file[c]]
         /\ at[c] \in Place /\ cmd[c] \in Request \cup {NoCmd} /\ num[c] \in 0..calls
         /\ file[c] \in FileType \cup {Absent} /\ BusyWith(at[c], cmd[c])
         /\ open \in [Client -> BOOLEAN] /\ calls \in Nat
  BY DEF ConnTypes, Busy

\* Whose goroutine returns to reading lines keeps the types.
LEMMA FinishTypes ==
  ASSUME ConnTypes, NEW c \in Client, Finish(c), UNCHANGED calls,
         open' \in [Client -> BOOLEAN]
  PROVE  ConnTypes'
<1>1. Becomes(c, "reading", NoCmd, 0, Absent)
  BY DEF Finish, Becomes, Goto
<1>2. calls \in Nat /\ 0 \in 0..calls /\ calls <= calls
  BY DEF ConnTypes
<1> QED
  BY <1>1, <1>2, GoesOn DEF BusyWith, Place

\* Whose goroutine only goes to another place keeps the types.
LEMMA GotoTypes ==
  ASSUME ConnTypes, NEW c \in Client, NEW p \in Place, Goto(c, p),
         BusyWith(p, cmd[c]), UNCHANGED <<calls, cmd, num>>,
         NEW f \in FileType \cup {Absent}, file' = [file EXCEPT ![c] = f],
         open' \in [Client -> BOOLEAN]
  PROVE  ConnTypes'
<1>1. Becomes(c, p, cmd[c], num[c], f)
  BY Stays DEF Goto, Becomes
<1>2. calls \in Nat /\ num[c] \in 0..calls /\ calls <= calls
  BY DEF ConnTypes
<1> QED
  BY <1>1, <1>2, GoesOn, Stays

\* Who is not at the swap and does not get there leaves the lock as it is.
LEMMA LockKept ==
  ASSUME ConnTypes, Locking, NEW c \in Client, NEW p,
         at' = [at EXCEPT ![c] = p], p # "swapping", at[c] # "swapping",
         \A d \in Client : d # c => cmd'[d] = cmd[d] /\ file'[d] = file[d],
         UNCHANGED mapLock, UNCHANGED filemap \/ mapLock = Nobody
  PROVE  Locking'
<1>1. \A d \in Client : at'[d] = IF d = c THEN p ELSE at[d]
  BY DEF ConnTypes
<1>2. \A d \in Client : at'[d] = "swapping" <=> mapLock' = d
  BY <1>1 DEF Locking
<1>3. SwapReady'
  <2> SUFFICES ASSUME NEW d \in Client, at'[d] = "swapping"
               PROVE  /\ file'[d] = filemap'[cmd'[d].name] /\ file'[d] # Absent
                      /\ file'[d].version = cmd'[d].version
    BY DEF SwapReady
  <2>1. d # c /\ at[d] = "swapping" /\ mapLock = d
    BY <1>1 DEF Locking
  <2>2. UNCHANGED filemap
    BY <2>1, NamesApart
  <2> QED
    BY <2>1, <2>2 DEF Locking, SwapReady
<1> QED
  BY <1>2, <1>3 DEF Locking

\* The history is as it was.
LEMMA WritesKept ==
  ASSUME Writes, UNCHANGED <<filemap, deletes, writes>>
  PROVE  Writes'
  BY DEF Writes, VersionsGrow, NoLostUpdate, SwapsNamed

-----------------------------------------------------------------------------
(* What a step does to the files *)

\* The file Store puts in the map, and the record it adds to the history.
NewFile(c, v) ==
  [version |-> v, content |-> num[c],
   expTime |-> IF cmd[c].expTime = NIL THEN NIL ELSE cmd[c].expTime + tick]

Written(c, v) ==
  [name |-> cmd[c].name, life |-> deletes[cmd[c].name], version |-> v, by |-> num[c],
   cmd |-> cmd[c], over |-> filemap[cmd[c].name]]

\* What Store makes is no Absent.
LEMMA NewIsFile ==
  ASSUME ConnTypes, NEW c \in Client, cmd[c] \in Request, cmd[c].expTime # Bad,
         tick \in Nat, NEW v \in Nat \ {0}
  PROVE  NewFile(c, v) \in FileType /\ NewFile(c, v) # Absent
<1>1. cmd[c].expTime \in Int \cup {NIL} /\ num[c] \in Nat
  BY RequestAssumption DEF Line, ConnTypes
<1>2. (IF cmd[c].expTime = NIL THEN NIL ELSE cmd[c].expTime + tick) \in Int \cup {NIL}
  BY <1>1
<1>3. NewFile(c, v) \in [version : Nat, expTime : Int \cup {NIL}, content : Nat]
  BY <1>1, <1>2 DEF NewFile
<1> QED
  BY <1>1, <1>2, <1>3, NamesApart DEF FileType, NewFile

\* A new version, one more than the file's or the first, is above all that were
\* written since the last deletion.
LEMMA StoreWrites ==
  ASSUME MapTypes, ConnTypes, Writes, NEW c \in Client, cmd[c] \in Request,
         cmd[c].expTime # Bad, NEW v \in Nat \ {0}, Store(c, v), UNCHANGED deletes,
         \/ filemap[cmd[c].name] = Absent /\ v = 1
         \/ filemap[cmd[c].name] # Absent /\ v = filemap[cmd[c].name].version + 1,
         cmd[c].op = "cas" => /\ filemap[cmd[c].name] # Absent
                              /\ filemap[cmd[c].name].version = cmd[c].version
  PROVE  Writes'
<1> DEFINE f == cmd[c].name
<1> DEFINE new == Written(c, v)
<1>1. f \in Filename
  BY RequestAssumption DEF Line
<1>2. filemap[f] # Absent => filemap[f].version \in Nat \ {0}
  BY <1>1 DEF MapTypes, FileType
<1>3. /\ filemap' = [filemap EXCEPT ![f] = NewFile(c, v)]
      /\ writes' = writes \cup {new}
  BY DEF Store, Written, NewFile
<1>4. /\ filemap'[f] # Absent /\ filemap'[f].version = v
      /\ \A g \in Filename : g # f => filemap'[g] = filemap[g]
  <2>1. filemap'[f] = NewFile(c, v) /\ NewFile(c, v) # Absent
    BY <1>1, <1>3, NewIsFile DEF MapTypes
  <2>2. NewFile(c, v).version = v
    BY DEF NewFile
  <2> QED
    BY <2>1, <2>2, <1>1, <1>3 DEF MapTypes
<1>5. /\ new.name = f /\ new.life = deletes[f] /\ new.version = v
      /\ new.cmd = cmd[c] /\ new.over = filemap[f] /\ deletes[f] \in Nat
  BY <1>1 DEF Written, MapTypes
<1> HIDE DEF new, f
<1>6. VersionsGrow'
  <2> SUFFICES ASSUME NEW w \in writes'
               PROVE  /\ w.name \in Filename /\ w.life \in Nat /\ w.version \in Nat
                      /\ w.life <= deletes'[w.name]
                      /\ w.life = deletes'[w.name] =>
                           /\ filemap'[w.name] # Absent
                           /\ w.version <= filemap'[w.name].version
    BY DEF VersionsGrow
  <2>1. CASE w = new
    BY <2>1, <1>1, <1>4, <1>5
  <2>2. CASE w \in writes
    <3>1. /\ w.name \in Filename /\ w.life \in Nat /\ w.version \in Nat
          /\ w.life <= deletes[w.name]
          /\ w.life = deletes[w.name] =>
               filemap[w.name] # Absent /\ w.version <= filemap[w.name].version
      BY <2>2 DEF Writes, VersionsGrow
    <3>2. CASE w.name = f
      BY <3>1, <3>2, <1>2, <1>4 DEF f
    <3>3. CASE w.name # f
      BY <3>1, <3>3, <1>4
    <3> QED
      BY <3>2, <3>3
  <2> QED
    BY <2>1, <2>2, <1>3
<1>7. \A w \in writes : ~(w.name = f /\ w.life = deletes[f] /\ w.version = v)
  BY <1>2 DEF Writes, VersionsGrow, f
<1>8. NoLostUpdate'
  <2>1. \A w, x \in writes' :
          w.name = x.name /\ w.life = x.life /\ w.version = x.version => w = x
    BY <1>3, <1>5, <1>7 DEF Writes, NoLostUpdate
  <2>2. \A w \in writes' : \/ w.over = Absent /\ w.version = 1
                           \/ w.over # Absent /\ w.version = w.over.version + 1
    BY <1>3, <1>5 DEF Writes, NoLostUpdate, f
  <2> QED
    BY <2>1, <2>2 DEF NoLostUpdate
<1>9. SwapsNamed'
  BY <1>3, <1>5 DEF Writes, SwapsNamed, f
<1> QED
  BY <1>6, <1>8, <1>9 DEF Writes

\* The map keeps its type.
LEMMA StoreTypes ==
  ASSUME MapTypes, ConnTypes, NEW c \in Client, cmd[c] \in Request,
         cmd[c].expTime # Bad, NEW v \in Nat \ {0}, Store(c, v), UNCHANGED <<deletes, tick>>
  PROVE  MapTypes'
<1>1. NewFile(c, v) \in FileType /\ tick \in Nat
  BY NewIsFile DEF MapTypes
<1>2. filemap' = [filemap EXCEPT ![cmd[c].name] = NewFile(c, v)]
  BY DEF Store, NewFile
<1> QED
  BY <1>1, <1>2 DEF MapTypes

\* A deletion begins a new life, in which nothing was written.
LEMMA DeleteWrites ==
  ASSUME MapTypes, Writes, NEW f \in Filename,
         filemap' = [filemap EXCEPT ![f] = Absent],
         deletes' = [deletes EXCEPT ![f] = @ + 1], UNCHANGED writes
  PROVE  Writes'
<1>1. /\ deletes[f] \in Nat /\ deletes'[f] = deletes[f] + 1
      /\ \A g \in Filename : g # f => filemap'[g] = filemap[g] /\ deletes'[g] = deletes[g]
  BY DEF MapTypes
<1>2. VersionsGrow'
  <2> SUFFICES ASSUME NEW w \in writes
               PROVE  /\ w.name \in Filename /\ w.life \in Nat /\ w.version \in Nat
                      /\ w.life <= deletes'[w.name]
                      /\ w.life = deletes'[w.name] =>
                           /\ filemap'[w.name] # Absent
                           /\ w.version <= filemap'[w.name].version
    BY DEF VersionsGrow
  <2>1. /\ w.name \in Filename /\ w.life \in Nat /\ w.version \in Nat
        /\ w.life <= deletes[w.name]
        /\ w.life = deletes[w.name] =>
             filemap[w.name] # Absent /\ w.version <= filemap[w.name].version
    BY DEF Writes, VersionsGrow
  <2>2. CASE w.name = f
    BY <2>1, <2>2, <1>1
  <2>3. CASE w.name # f
    BY <2>1, <2>3, <1>1
  <2> QED
    BY <2>2, <2>3
<1> QED
  BY <1>2 DEF Writes, NoLostUpdate, SwapsNamed

-----------------------------------------------------------------------------
(* Steps *)

\* The invariant in the next state, from its parts.
LEMMA Joined ==
  ASSUME ConnTypes', MapTypes', TimeoutTypes', Locking', Writes'
  PROVE  IInv'
  BY DEF IInv

\* Timeouts that end, and commands that are read, keep the timeouts' type.
LEMMA TimeoutsKept ==
  ASSUME TimeoutTypes, ConnTypes, timeouts' \subseteq timeouts,
         calls' \in Nat, calls <= calls'
  PROVE  TimeoutTypes'
<1>1. \A n \in 1..calls : n \in 1..calls'
  BY DEF ConnTypes
<1>2. TimeoutType(calls) \subseteq TimeoutType(calls')
  BY <1>1 DEF TimeoutType
<1> QED
  BY <1>2 DEF TimeoutTypes

\* A step that leaves the files alone.
LEMMA QuietStep ==
  ASSUME IInv, ConnTypes', TimeoutTypes', Locking', tick' \in Nat,
         UNCHANGED <<filemap, deletes, writes>>
  PROVE  IInv'
<1>1. MapTypes'
  BY Split DEF MapTypes
<1>2. Writes'
  BY Split, WritesKept
<1> QED
  BY <1>1, <1>2, Joined

\* The connections stay open or are closed.
LEMMA OpenTypes ==
  ASSUME ConnTypes, NEW c \in Client, Close(c) \/ UNCHANGED open
  PROVE  open' \in [Client -> BOOLEAN]
  BY DEF ConnTypes, Close

\* A step of one connection, which has not the lock and does not get it, that
\* reads no line and leaves the files alone.
LEMMA GotoStep ==
  ASSUME IInv, NEW c \in Client, NEW p \in Place \ {"swapping"}, Goto(c, p),
         at[c] # "swapping", BusyWith(p, cmd[c]), UNCHANGED <<calls, cmd, num>>,
         NEW f \in FileType \cup {Absent}, file' = [file EXCEPT ![c] = f],
         open' \in [Client -> BOOLEAN], timeouts' \subseteq timeouts,
         UNCHANGED <<shared, tick>>
  PROVE  IInv'
<1>1. ConnTypes'
  BY Split, GotoTypes
<1>2. TimeoutTypes'
  BY Split, TimeoutsKept DEF ConnTypes
<1>3. Locking'
  BY Split, LockKept DEF Goto, ConnTypes, shared
<1> QED
  BY <1>1, <1>2, <1>3, QuietStep, Split DEF MapTypes, shared

\* A handler that returns and leaves the lock and the files alone.
LEMMA FinishStep ==
  ASSUME IInv, NEW c \in Client, Finish(c), at[c] # "swapping", UNCHANGED calls,
         open' \in [Client -> BOOLEAN], timeouts' \subseteq timeouts,
         UNCHANGED <<shared, tick>>
  PROVE  IInv'
<1>1. ConnTypes'
  BY Split, FinishTypes
<1>2. TimeoutTypes'
  BY Split, TimeoutsKept DEF ConnTypes
<1>3. Locking'
  BY Split, LockKept DEF Finish, Goto, ConnTypes, shared
<1> QED
  BY <1>1, <1>2, <1>3, QuietStep, Split DEF MapTypes, shared

\* A line is read that is refused at once.
LEMMA RefusedStep ==
  ASSUME IInv, NEW c \in Client, ReadLine(c), Close(c) \/ UNCHANGED open,
         UNCHANGED <<shared, tick, at, cmd, num, file, timeouts>>
  PROVE  IInv'
<1>1. /\ at[c] \in Place /\ cmd[c] \in Request \cup {NoCmd} /\ num[c] \in 0..calls'
      /\ file[c] \in FileType \cup {Absent} /\ BusyWith(at[c], cmd[c])
      /\ Becomes(c, at[c], cmd[c], num[c], file[c])
      /\ calls' \in Nat /\ calls <= calls' /\ open' \in [Client -> BOOLEAN]
  BY Split, Stays, OpenTypes DEF ReadLine, Becomes
<1>2. ConnTypes'
  BY <1>1, Split, GoesOn
<1>3. TimeoutTypes'
  BY <1>1, Split, TimeoutsKept
<1>4. Locking'
  BY Split DEF Locking, SwapReady, shared
<1> QED
  BY <1>2, <1>3, <1>4, QuietStep, Split DEF MapTypes, shared

\* A line is read and its command begun.
LEMMA BegunStep ==
  ASSUME IInv, NEW c \in Client, NEW r \in Request,
         NEW p \in {"contents", "locking"}, ReadLine(c), Begin(c, r, p),
         BusyWith(p, r), Close(c) \/ UNCHANGED open,
         timeouts' \subseteq timeouts
           \/ (r.op \in {"write", "cas"}
                 /\ timeouts' = timeouts \cup {Timeout(c, calls', r.op)}),
         UNCHANGED <<shared, tick, file>>
  PROVE  IInv'
<1>1. /\ calls \in Nat /\ calls' = calls + 1 /\ calls' \in 0..calls'
      /\ calls' \in 1..calls' /\ open' \in [Client -> BOOLEAN]
  BY Split, OpenTypes DEF ReadLine, ConnTypes
<1>2. Becomes(c, p, r, calls', file[c]) /\ file[c] \in FileType \cup {Absent}
  BY Split, Stays DEF Begin, Goto, Becomes
<1>3. ConnTypes'
  BY <1>1, <1>2, Split, GoesOn DEF Place
<1>4. TimeoutTypes'
  <2>1. TimeoutType(calls) \subseteq TimeoutType(calls')
    BY <1>1 DEF TimeoutType
  <2>2. r.op \in {"write", "cas"} => Timeout(c, calls', r.op) \in TimeoutType(calls')
    BY <1>1 DEF Timeout, TimeoutType
  <2> QED
    BY <2>1, <2>2, Split DEF TimeoutTypes
<1>5. Locking'
  BY Split, LockKept DEF ReadLine, Begin, Goto, ConnTypes, shared
<1> QED
  BY <1>3, <1>4, <1>5, QuietStep, Split DEF MapTypes, shared

-----------------------------------------------------------------------------
(* Actions *)

\* A connection comes, or goes.
LEMMA ConnectionSteps ==
  ASSUME IInv, NEW c \in Client, serverMain(c) \/ HangUp(c)
  PROVE  IInv'
<1>1. /\ at[c] \in Place /\ file[c] \in FileType \cup {Absent}
      /\ file = [file EXCEPT ![c] = file[c]] /\ open \in [Client -> BOOLEAN]
  BY Split, Stays
<1>2. CASE serverMain(c)
  <2>1. open' \in [Client -> BOOLEAN] /\ BusyWith("reading", cmd[c])
    BY <1>1, <1>2 DEF serverMain, BusyWith
  <2> QED
    BY <1>1, <1>2, <2>1, GotoStep DEF serverMain, Place
<1>3. CASE HangUp(c)
  <2>1. open' \in [Client -> BOOLEAN] /\ BusyWith("ended", cmd[c])
    BY <1>1, <1>3 DEF HangUp, Close, BusyWith
  <2> QED
    BY <1>1, <1>3, <2>1, GotoStep DEF HangUp, Place
<1> QED
  BY <1>2, <1>3

\* A line is read.
LEMMA LineSteps ==
  ASSUME IInv, NEW c \in Client, NEW r \in Request,
         \/ ErrorInvalidCmd(c, r) \/ StartContents(c, r) \/ StartPlain(c, r)
         \/ Panic(c, r)
  PROVE  IInv'
<1>1. CASE ErrorInvalidCmd(c, r) \/ Panic(c, r)
  BY <1>1, RefusedStep DEF ErrorInvalidCmd, Panic
<1>2. CASE StartContents(c, r)
  <2>1. /\ ReadLine(c) /\ (Close(c) \/ UNCHANGED open)
        /\ UNCHANGED <<shared, tick, file>> /\ r.op \in {"write", "cas"}
    BY <1>2 DEF StartContents
  <2>2. CASE UNCHANGED <<at, cmd, num, timeouts>>
    BY <2>1, <2>2, RefusedStep DEF shared
  <2>3. CASE /\ Begin(c, r, "contents") /\ (r.op = "write" => r.expTime # Bad)
             /\ timeouts' = timeouts \cup {Timeout(c, calls', r.op)}
    <3>1. BusyWith("contents", r)
      BY <2>3 DEF BusyWith
    <3> QED
      BY <2>1, <2>3, <3>1, BegunStep
  <2> QED
    BY <1>2, <2>2, <2>3 DEF StartContents
<1>3. CASE StartPlain(c, r)
  <2>1. BusyWith("locking", r)
    BY <1>3 DEF StartPlain, BusyWith
  <2> QED
    BY <1>3, <2>1, BegunStep DEF StartPlain
<1> QED
  BY <1>1, <1>2, <1>3

\* The time for some contents is over, or a connection is closed for it.
LEMMA TimeOutStep ==
  ASSUME IInv,
         \/ \E t \in timeouts : TimeOut(t)
         \/ \E c \in Client : TimeOutClose(c)
  PROVE  IInv'
<1>1. /\ UNCHANGED <<shared, tick, at, cmd, num, file, calls>>
      /\ timeouts' \subseteq timeouts /\ open' \in [Client -> BOOLEAN]
  BY Split DEF TimeOut, TimeOutClose, Close, ConnTypes
<1>2. ConnTypes'
  BY <1>1, Split DEF ConnTypes, Busy
<1>3. TimeoutTypes'
  BY <1>1, Split, TimeoutsKept DEF ConnTypes
<1>4. Locking'
  BY <1>1, Split DEF Locking, SwapReady, shared
<1> QED
  BY <1>1, <1>2, <1>3, <1>4, QuietStep, Split DEF MapTypes, shared

\* A handler whose contents are lost, or whose version is no number.
LEMMA RefusedSteps ==
  ASSUME IInv, NEW c \in Client,
         LoseContents(c) \/ LoseClose(c) \/ RefuseVersion(c) \/ VersionClose(c)
  PROVE  IInv'
<1>1. /\ BusyWith(at[c], cmd[c]) /\ file[c] \in FileType \cup {Absent}
      /\ file = [file EXCEPT ![c] = file[c]] /\ open \in [Client -> BOOLEAN]
  BY Split, Stays
<1>2. /\ at[c] # "swapping" /\ open' \in [Client -> BOOLEAN]
      /\ UNCHANGED <<shared, tick, timeouts, calls>>
  BY Split, OpenTypes DEF LoseContents, LoseClose, RefuseVersion, VersionClose
<1>3. CASE Finish(c)
  BY <1>2, <1>3, FinishStep
<1>4. ASSUME NEW p \in {"losing", "closing", "locking"}, Goto(c, p), BusyWith(p, cmd[c]),
             UNCHANGED <<cmd, num, file>>
      PROVE  IInv'
  BY <1>1, <1>2, <1>4, GotoStep DEF Place
<1>5. CASE LoseContents(c)
  <2>1. BusyWith("losing", cmd[c])
    BY <1>1, <1>5 DEF BusyWith, LoseContents
  <2> QED
    BY <1>4, <1>5, <2>1 DEF LoseContents
<1>6. CASE RefuseVersion(c)
  <2>1. BusyWith("closing", cmd[c])
    BY <1>1, <1>6 DEF BusyWith, RefuseVersion
  <2> QED
    BY <1>4, <1>6, <2>1 DEF RefuseVersion
<1>7. CASE VersionClose(c) /\ cmd[c].expTime # Bad
  <2>1. BusyWith("locking", cmd[c])
    BY <1>1, <1>7 DEF BusyWith, VersionClose
  <2> QED
    BY <1>4, <1>7, <2>1 DEF VersionClose
<1> QED
  BY <1>3, <1>5, <1>6, <1>7 DEF LoseClose, VersionClose

\* The contents come, or their timeout is told.
LEMMA ContentsSteps ==
  ASSUME IInv, NEW c \in Client, ReadContents(c) \/ HandOff(c)
  PROVE  IInv'
<1>1. /\ BusyWith(at[c], cmd[c]) /\ file[c] \in FileType \cup {Absent}
      /\ file = [file EXCEPT ![c] = file[c]] /\ open \in [Client -> BOOLEAN]
  BY Split, Stays
<1>2. CASE ReadContents(c)
  <2>1. /\ at[c] = "contents"
        /\ UNCHANGED <<shared, tick, open, timeouts, calls>>
    BY <1>2 DEF ReadContents
  <2>2. CASE Finish(c)
    BY <1>1, <2>1, <2>2, FinishStep
  <2>3. CASE cmd[c].op = "write" /\ Goto(c, "telling") /\ UNCHANGED <<cmd, num, file>>
    <3>1. BusyWith("telling", cmd[c])
      BY <1>1, <2>1, <2>3 DEF BusyWith
    <3> QED
      BY <1>1, <2>1, <2>3, <3>1, GotoStep DEF Place
  <2>4. CASE /\ cmd[c].op = "cas" /\ cmd[c].expTime # Bad /\ Goto(c, "locking")
             /\ UNCHANGED <<cmd, num, file>>
    <3>1. BusyWith("locking", cmd[c])
      BY <1>1, <2>1, <2>4 DEF BusyWith
    <3> QED
      BY <1>1, <2>1, <2>4, <3>1, GotoStep DEF Place
  <2> QED
    BY <1>2, <2>2, <2>3, <2>4 DEF ReadContents
<1>3. CASE HandOff(c)
  <2>1. /\ at[c] = "telling" /\ Goto(c, "locking") /\ timeouts' \subseteq timeouts
        /\ UNCHANGED <<shared, tick, cmd, num, file, open, calls>>
    BY <1>3 DEF HandOff, HandedOff
  <2>2. BusyWith("locking", cmd[c])
    BY <1>1, <2>1 DEF BusyWith
  <2> QED
    BY <1>1, <2>1, <2>2, GotoStep DEF Place
<1> QED
  BY <1>2, <1>3

\* A read copies the file, and answers.
LEMMA ReadSteps ==
  ASSUME IInv, NEW c \in Client, ReadCopy(c) \/ ReadAnswer(c)
  PROVE  IInv'
<1>1. BusyWith(at[c], cmd[c]) /\ open \in [Client -> BOOLEAN] /\ cmd[c] \in Request \cup {NoCmd}
  BY Split, Stays
<1>2. CASE ReadCopy(c)
  <2>1. /\ at[c] = "locking" /\ cmd[c].op = "read" /\ Goto(c, "copied")
        /\ file' = [file EXCEPT ![c] = filemap[cmd[c].name]]
        /\ UNCHANGED <<shared, tick, cmd, num, open, timeouts, calls>>
    BY <1>2 DEF ReadCopy, CanLock
  <2>2. cmd[c] \in Request /\ BusyWith("copied", cmd[c])
    BY <1>1, <2>1 DEF BusyWith
  <2>3. filemap[cmd[c].name] \in FileType \cup {Absent}
    BY <2>2, RequestAssumption, Split DEF Line, MapTypes
  <2> QED
    BY <1>1, <2>1, <2>2, <2>3, GotoStep DEF Place
<1>3. CASE ReadAnswer(c)
  BY <1>1, <1>3, FinishStep DEF ReadAnswer
<1> QED
  BY <1>2, <1>3

\* What is known of a connection that has the lock for itself.
LEMMA CanLockFacts ==
  ASSUME IInv, NEW c \in Client, CanLock(c)
  PROVE  /\ cmd[c] \in Request /\ cmd[c].name \in Filename
         /\ cmd[c].op \in {"write", "cas"} => cmd[c].expTime # Bad
         /\ at[c] = "locking" /\ mapLock = Nobody
         /\ \A d \in Client : at[d] # "swapping"
         /\ open \in [Client -> BOOLEAN] /\ calls \in Nat /\ tick \in Nat
         /\ filemap[cmd[c].name] \in FileType \cup {Absent}
<1>1. /\ at[c] = "locking" /\ mapLock = Nobody /\ BusyWith(at[c], cmd[c])
      /\ open \in [Client -> BOOLEAN] /\ calls \in Nat
  BY Split, Stays DEF CanLock
<1>2. cmd[c] \in Request /\ (cmd[c].op \in {"write", "cas"} => cmd[c].expTime # Bad)
  BY <1>1 DEF BusyWith
<1>3. cmd[c].name \in Filename
  BY <1>2, RequestAssumption DEF Line
<1>4. \A d \in Client : at[d] # "swapping"
  BY <1>1, Split, NamesApart DEF Locking
<1> QED
  BY <1>1, <1>2, <1>3, <1>4, Split DEF MapTypes

\* A handler that has had the lock for itself returns.
LEMMA LockedFinish ==
  ASSUME IInv, NEW c \in Client, CanLock(c), Finish(c),
         UNCHANGED <<mapLock, open, timeouts, calls>>
  PROVE  ConnTypes' /\ TimeoutTypes' /\ Locking'
<1>1. /\ at[c] # "swapping" /\ mapLock = Nobody /\ calls \in Nat /\ calls <= calls
      /\ open' \in [Client -> BOOLEAN]
  BY CanLockFacts
<1>2. ConnTypes'
  BY <1>1, Split, FinishTypes
<1>3. TimeoutTypes'
  BY <1>1, Split, TimeoutsKept
<1>4. Locking'
  BY <1>1, Split, LockKept DEF Finish, Goto, ConnTypes
<1> QED
  BY <1>2, <1>3, <1>4

LEMMA WriteStep ==
  ASSUME IInv, NEW c \in Client, WriteFile(c)
  PROVE  IInv'
<1> DEFINE old == filemap[cmd[c].name]
<1> DEFINE v == IF old = Absent THEN FirstVersion ELSE old.version + 1
<1>1. /\ CanLock(c) /\ cmd[c].op = "write" /\ Store(c, v) /\ Finish(c)
      /\ UNCHANGED <<mapLock, deletes, tick, open, timeouts, calls>>
  BY DEF WriteFile
<1>2. /\ v \in Nat \ {0}
      /\ \/ old = Absent /\ v = 1
         \/ old # Absent /\ v = old.version + 1
  BY <1>1, CanLockFacts DEF FirstVersion, FileType
<1> HIDE DEF v
<1>3. cmd[c] \in Request /\ cmd[c].expTime # Bad
  BY <1>1, CanLockFacts
<1>4. ConnTypes' /\ TimeoutTypes' /\ Locking'
  BY <1>1, LockedFinish
<1>5. MapTypes'
  BY <1>1, <1>2, <1>3, Split, StoreTypes
<1>6. Writes'
  BY <1>1, <1>2, <1>3, Split, StoreWrites
<1> QED
  BY <1>4, <1>5, <1>6, Joined

LEMMA DeleteStep ==
  ASSUME IInv, NEW c \in Client, deleteFile(c)
  PROVE  IInv'
<1> DEFINE f == cmd[c].name
<1>1. /\ CanLock(c) /\ Finish(c)
      /\ UNCHANGED <<mapLock, writes, tick, open, timeouts, calls>>
      /\ \/ UNCHANGED <<filemap, deletes>>
         \/ /\ filemap' = [filemap EXCEPT ![f] = Absent]
            /\ deletes' = [deletes EXCEPT ![f] = @ + 1]
  BY DEF deleteFile
<1>2. f \in Filename
  BY <1>1, CanLockFacts
<1> HIDE DEF f
<1>3. ConnTypes' /\ TimeoutTypes' /\ Locking'
  BY <1>1, LockedFinish
<1>4. MapTypes'
  BY <1>1, <1>2, Split DEF MapTypes
<1>5. Writes'
  BY <1>1, <1>2, Split, WritesKept, DeleteWrites
<1> QED
  BY <1>3, <1>4, <1>5, Joined

\* A cas that finds its version takes the lock; the others return.
LEMMA CasTestStep ==
  ASSUME IInv, NEW c \in Client, CasTest(c)
  PROVE  IInv'
<1> DEFINE old == filemap[cmd[c].name]
<1>1. /\ CanLock(c) /\ cmd[c].op = "cas"
      /\ UNCHANGED <<filemap, deletes, writes, tick, open, timeouts, calls>>
  BY DEF CasTest
<1>2. /\ cmd[c] \in Request /\ cmd[c].expTime # Bad /\ mapLock = Nobody
      /\ \A d \in Client : at[d] # "swapping"
      /\ open' \in [Client -> BOOLEAN] /\ calls \in Nat /\ tick' \in Nat
      /\ old \in FileType \cup {Absent}
  BY <1>1, CanLockFacts
<1>3. CASE mapLock' = Unlocked(c) /\ Finish(c)
  BY <1>1, <1>2, <1>3, LockedFinish, QuietStep DEF Unlocked
<1>4. CASE /\ Alive(old) /\ old.version = cmd[c].version
           /\ mapLock' = LockFor(c) /\ file' = [file EXCEPT ![c] = old]
           /\ Goto(c, "swapping") /\ UNCHANGED <<cmd, num>>
  <2>1. ConnTypes'
    BY <1>1, <1>2, <1>4, Split, GotoTypes DEF BusyWith, Place
  <2>2. TimeoutTypes'
    BY <1>1, <1>2, Split, TimeoutsKept
  <2>3. \A d \in Client : at'[d] = "swapping" <=> d = c
    BY <1>2, <1>4, Split DEF Goto, ConnTypes
  <2>4. /\ file'[c] = filemap'[cmd'[c].name] /\ file'[c] # Absent
        /\ file'[c].version = cmd'[c].version
    BY <1>1, <1>4, Split DEF Alive, ConnTypes
  <2>5. Locking'
    BY <1>4, <2>3, <2>4 DEF Locking, SwapReady, LockFor
  <2> QED
    BY <1>1, <1>2, <2>1, <2>2, <2>5, QuietStep
<1> QED
  BY <1>3, <1>4 DEF CasTest

LEMMA CasSwapStep ==
  ASSUME IInv, NEW c \in Client, CasSwap(c)
  PROVE  IInv'
<1> DEFINE v == file[c].version + 1
<1>1. /\ at[c] = "swapping" /\ Store(c, v) /\ mapLock' = Unlocked(c) /\ Finish(c)
      /\ UNCHANGED <<deletes, tick, open, timeouts, calls>>
  BY DEF CasSwap
<1>2. /\ cmd[c] \in Request /\ cmd[c].expTime # Bad /\ cmd[c].op = "cas"
      /\ open' \in [Client -> BOOLEAN] /\ calls \in Nat
  <2>1. BusyWith(at[c], cmd[c])
    BY Split, Stays
  <2> QED
    BY <1>1, <2>1, Split DEF BusyWith, ConnTypes
<1>3. /\ file[c] = filemap[cmd[c].name] /\ file[c] # Absent
      /\ file[c].version = cmd[c].version /\ mapLock = c
  BY <1>1, Split DEF Locking, SwapReady
<1>4. file[c].version \in Nat \ {0}
  BY <1>3, Split DEF ConnTypes, FileType
<1>5. v \in Nat \ {0}
  BY <1>4
<1>6. ConnTypes'
  BY <1>1, <1>2, Split, FinishTypes
<1>7. TimeoutTypes'
  BY <1>1, <1>2, Split, TimeoutsKept
<1>8. Locking'
  <2>1. \A d \in Client : at'[d] # "swapping"
    BY <1>1, <1>3, Split DEF Finish, Goto, ConnTypes, Locking
  <2> QED
    BY <1>1, <2>1, NamesApart DEF Locking, SwapReady, Unlocked
<1> HIDE DEF v
<1>9. MapTypes'
  BY <1>1, <1>2, <1>5, Split, StoreTypes
<1>10. Writes'
  BY <1>1, <1>2, <1>3, <1>5, Split, StoreWrites DEF v
<1> QED
  BY <1>6, <1>7, <1>8, <1>9, <1>10, Joined

-----------------------------------------------------------------------------

\* The invariant holds: whatever goroutines run between the test and the swap of
\* a cas, none changes the map.
THEOREM Invariant == Spec => []IInv
<1>1. Init => IInv
  <2> SUFFICES ASSUME Init PROVE IInv
    OBVIOUS
  <2>1. ConnTypes /\ MapTypes /\ TimeoutTypes /\ Writes
    BY DEF Init, ConnTypes, MapTypes, TimeoutTypes, Writes, Busy, BusyWith, Place,
           VersionsGrow, NoLostUpdate, SwapsNamed
  <2>2. Locking
    BY NamesApart DEF Init, Locking, SwapReady
  <2> QED
    BY <2>1, <2>2, Split
<1>2. IInv /\ [Next]_vars => IInv'
  <2> SUFFICES ASSUME IInv, [Next]_vars PROVE IInv'
    OBVIOUS
  <2>1. CASE Timer
    <3>1. ConnTypes' /\ TimeoutTypes' /\ Locking' /\ tick' \in Nat
      BY <2>1, Split DEF Timer, ConnTypes, Busy, MapTypes, TimeoutTypes, Locking,
                         SwapReady, shared, conns
    <3> QED
      BY <2>1, <3>1, QuietStep DEF Timer, shared
  <2>2. ASSUME NEW c \in Client,
               \/ serverMain(c) \/ HangUp(c)
               \/ \E r \in Request :
                    \/ ErrorInvalidCmd(c, r) \/ StartContents(c, r) \/ StartPlain(c, r)
                    \/ Panic(c, r)
               \/ LoseContents(c) \/ RefuseVersion(c) \/ ReadContents(c)
               \/ Handle(c)
        PROVE  IInv'
    BY <2>2, ConnectionSteps, LineSteps, RefusedSteps, ContentsSteps, ReadSteps,
       WriteStep, DeleteStep, CasTestStep, CasSwapStep DEF Handle
  <2>3. CASE (\E t \in timeouts : TimeOut(t)) \/ (\E c \in Client : TimeOutClose(c))
    BY <2>3, TimeOutStep
  <2>4. CASE UNCHANGED vars
    <3>1. /\ UNCHANGED <<filemap, mapLock, deletes, writes, tick, at, cmd, num>>
          /\ UNCHANGED <<file, open, timeouts, calls>>
      BY <2>4 DEF vars, shared, conns
    <3>2. ConnTypes' /\ TimeoutTypes' /\ Locking' /\ tick' \in Nat
      BY <3>1, Split DEF ConnTypes, Busy, MapTypes, TimeoutTypes, Locking, SwapReady
    <3> QED
      BY <3>1, <3>2, QuietStep
  <2> QED
    BY <2>1, <2>2, <2>3, <2>4 DEF Next
<1> QED
  BY <1>1, <1>2, PTL DEF Spec

\* Every variable keeps its type, and the lock is held by the cas between its
\* test and its swap and by nobody else.
THEOREM TypeCorrect == Spec => []TypeOK
<1>1. Init => RunTypes
  BY DEF Init, RunTypes
<1>2. IInv /\ RunTypes /\ [Next]_vars => RunTypes'
  <2> SUFFICES ASSUME IInv, RunTypes, [Next]_vars PROVE RunTypes'
    OBVIOUS
  <2>1. CASE UNCHANGED <<expired, running>>
    BY <2>1 DEF RunTypes
  <2>2. ASSUME NEW c \in Client, NEW r \in Request, Panic(c, r)
        PROVE  RunTypes'
    BY <2>2 DEF Panic, RunTypes
  <2>3. ASSUME NEW t \in timeouts, TimeOut(t)
        PROVE  RunTypes'
    <3>1. t.client \in Client
      BY Split DEF TimeoutTypes, TimeoutType
    <3> QED
      BY <2>3, <3>1 DEF TimeOut, RunTypes
  <2>4. ASSUME NEW c \in Client, TimeOutClose(c)
        PROVE  RunTypes'
    BY <2>4 DEF TimeOutClose, RunTypes
  <2>5. ASSUME NEW c \in Client,
               \/ serverMain(c) \/ HangUp(c)
               \/ \E r \in Request :
                    ErrorInvalidCmd(c, r) \/ StartContents(c, r) \/ StartPlain(c, r)
               \/ LoseContents(c) \/ RefuseVersion(c) \/ ReadContents(c)
        PROVE  RunTypes'
    BY <2>1, <2>5 DEF serverMain, HangUp, ErrorInvalidCmd, StartContents, StartPlain,
                      LoseContents, RefuseVersion, ReadContents
  <2>6. ASSUME NEW c \in Client, Handle(c)
        PROVE  RunTypes'
    BY <2>1, <2>6 DEF Handle, LoseClose, VersionClose, HandOff, WriteFile, CasTest,
                      CasSwap, deleteFile, ReadCopy, ReadAnswer
  <2>7. CASE Timer \/ UNCHANGED vars
    BY <2>1, <2>7 DEF Timer, vars, conns
  <2> QED
    BY <2>2, <2>3, <2>4, <2>5, <2>6, <2>7 DEF Next
<1>3. IInv /\ RunTypes => TypeOK
  BY Split DEF RunTypes, TypeOK, ConnTypes, MapTypes, TimeoutTypes, TimeoutType,
               Locking, Place
<1> QED
  BY <1>1, <1>2, <1>3, Invariant, PTL DEF Spec

\* No two writes or swaps between two deletions of a file give it one version.
THEOREM UpdatesKept == Spec => []NoLostUpdate
<1>1. IInv => NoLostUpdate
  BY Split DEF Writes
<1> QED
  BY <1>1, Invariant, PTL

\* compareAndSwap replaces the version its client named.
THEOREM SwapsRight == Spec => []SwapsNamed
<1>1. IInv => SwapsNamed
  BY Split DEF Writes
<1> QED
  BY <1>1, Invariant, PTL

-----------------------------------------------------------------------------
(* What clients are told *)

Reply ==
  {a \in [n : Nat \ {0}, version : Nat, content : Nat,
          op : {"write", "cas", "read", "delete", "short", "other"},
          what : {"OK", "CONTENTS", "ERR_CMD_ERR", "ERR_VERSION",
                  "ERR_FILE_NOT_FOUND", "ERR_INTERNAL"}] :
     a.what = "ERR_INTERNAL" => a.op \in {"write", "cas"}}

Replies == answers \in [Client -> Seq(Reply)]

\* What a connection was told so far.
Told(c) == {answers[c][k] : k \in 1..Len(answers[c])}

\* A goroutine that works on no command; one of a write that has not told its
\* timeout; and one that has answered and is about to close.
Resting == {"new", "reading", "ended"}
Receiving == {"contents", "telling", "losing"}
Refusing == {"losing", "closing"}

Refusal == {"ERR_CMD_ERR", "ERR_VERSION", "ERR_FILE_NOT_FOUND"}

\* The timeouts of command n of connection c.
Waiting(c, n) == {t \in timeouts : t.client = c /\ t.n = n}

\* The numbers of the commands of a connection, as far as they still matter.
Uses(c, n) == num[c] = n \/ Waiting(c, n) # {} \/ \E a \in Told(c) : a.n = n

Numbering == \A c \in Client : num[c] = 0 <=> at[c] \in Resting

\* Every number was given out, to one connection.
NumbersApart ==
  /\ \A c \in Client, n \in Nat \ {0} : Uses(c, n) => n <= calls
  /\ \A c, d \in Client, n \in Nat \ {0} : Uses(c, n) /\ Uses(d, n) => c = d

\* A command that has written is worked on no longer.
WritesDone == \A w \in writes : w.by \in 1..calls /\ \A c \in Client : num[c] # w.by

\* A new connection has been told nothing.
NewUntold == \A c \in Client : at[c] = "new" => answers[c] = <<>> /\ ~open[c]

\* A command has one timeout at most, of the command's own name. One that is left
\* is of a cas, or of a write whose contents are awaited, and it has said nothing;
\* if its write was answered, then with a refusal.
TimeoutLeft(t) ==
  /\ \A u \in timeouts : u.client = t.client /\ u.n = t.n => u = t
  /\ \A w \in writes : w.by = t.n => w.cmd.op = "cas"
  /\ num[t.client] = t.n =>
       /\ cmd[t.client].op = t.op
       /\ t.op = "write" => at[t.client] \in Receiving
  /\ \A a \in Told(t.client) : a.n = t.n =>
       /\ a.op = t.op /\ a.what # "ERR_INTERNAL"
       /\ t.op = "write" => a.what = "ERR_CMD_ERR"

TimeoutsLeft == \A t \in timeouts : TimeoutLeft(t)

\* A command that is worked on although it was answered will not answer again, as
\* its connection is closed or about to be, nor will it write, but for a write
\* whose numbytes is no number. One whose time was over is a cas, or a write that
\* will not write.
AnsweredOf(a, c) ==
  /\ a.op = cmd[c].op
  /\ a.what # "ERR_INTERNAL" => ~open[c] \/ at[c] \in Refusing
  /\ a.what \in Refusal =>
       \/ at[c] = "losing" \/ cmd[c].numBytes = Bad
       \/ cmd[c].op = "cas" /\ cmd[c].version = Bad
  /\ a.what = "ERR_INTERNAL" /\ a.op = "write" => at[c] \in Receiving

AnsweredStill ==
  \A c \in Client : \A a \in Told(c) : a.n = num[c] => AnsweredOf(a, c)

\* Every file in the map, and every copy of one, was written as it is.
WrittenAs(f) == \E w \in writes : w.by = f.content /\ w.version = f.version

FilesWritten ==
  /\ \A f \in Filename : filemap[f] # Absent => WrittenAs(filemap[f])
  /\ \A c \in Client : file[c] # Absent => WrittenAs(file[c])

AnswerInv ==
  /\ Replies /\ Numbering /\ NumbersApart /\ WritesDone /\ NewUntold
  /\ TimeoutsLeft /\ AnsweredStill /\ AnswersTrue /\ OneAnswer

-----------------------------------------------------------------------------
(* Kinds of steps, by what they do to the answers *)

\* Reply e goes to connection c, or is lost because it is closed.
Adds(c, e) ==
  \/ UNCHANGED answers
  \/ open[c] /\ answers' = [answers EXCEPT ![c] = Append(@, e)]

Others(c) ==
  \A d \in Client \ {c} :
    at'[d] = at[d] /\ cmd'[d] = cmd[d] /\ num'[d] = num[d] /\ open'[d] = open[d]

\* The goroutine of c goes on and tells nothing; a write that has received its
\* contents has told its timeout, and who is about to close closes.
SilentStep(c) ==
  /\ Others(c) /\ UNCHANGED <<calls, writes, answers, cmd, num>>
  /\ timeouts' \subseteq timeouts
  /\ open'[c] => open[c] \/ at[c] = "new"
  /\ at'[c] # "new" \/ (at[c] = "new" /\ ~open'[c])
  /\ at'[c] \in Resting <=> at[c] \in Resting
  /\ at[c] = "losing" => at'[c] = "losing"
  /\ at[c] = "closing" => at'[c] = "closing" \/ ~open'[c]
  /\ at[c] \in Receiving /\ cmd[c].op = "write" =>
       \/ at'[c] \in Receiving
       \/ /\ \E t \in timeouts : t.client = c /\ t.n = num[c]
          /\ \A t \in timeouts' : ~(t.client = c /\ t.n = num[c])

\* A line is read. It may be refused, and then worked on only if it is a write
\* whose numbytes is no number, with the connection closed.
LineStep(c) ==
  /\ Others(c) /\ UNCHANGED writes /\ calls' = calls + 1
  /\ at[c] = "reading" /\ at'[c] # "new" /\ (open'[c] => open[c])
  /\ \/ num'[c] = 0 /\ at'[c] = "reading" /\ UNCHANGED timeouts
     \/ /\ num'[c] = calls + 1 /\ at'[c] \notin Resting
        /\ \/ UNCHANGED timeouts
           \/ /\ timeouts' = timeouts \cup {Timeout(c, calls + 1, cmd'[c].op)}
              /\ at'[c] = "contents"
  /\ \E e \in Reply :
       /\ Adds(c, e) /\ e.n = calls + 1 /\ e.what = "ERR_CMD_ERR"
       /\ \/ UNCHANGED answers \/ num'[c] = 0
          \/ ~open'[c] /\ cmd'[c].numBytes = Bad /\ e.op = cmd'[c].op

\* A command is refused for its contents or its version, and goes to close.
RefusedStepOf(c) ==
  /\ Others(c) /\ UNCHANGED <<calls, writes, cmd, num, timeouts, open>>
  /\ at[c] = "contents"
  /\ \/ at'[c] = "losing"
     \/ at'[c] = "closing" /\ cmd[c].op = "cas" /\ cmd[c].version = Bad
  /\ \E e \in Reply :
       Adds(c, e) /\ e.n = num[c] /\ e.op = cmd[c].op /\ e.what = "ERR_CMD_ERR"

TimedOutStep(t) ==
  /\ UNCHANGED <<calls, writes, at, cmd, num, open>> /\ timeouts' = timeouts \ {t}
  /\ \E e \in Reply :
       Adds(t.client, e) /\ e.n = t.n /\ e.op = t.op /\ e.what = "ERR_INTERNAL"

\* The reply is so, when the command has written nothing.
PlainReply(e) ==
  /\ e.what # "ERR_INTERNAL" /\ (e.what = "OK" => e.version = 0)
  /\ e.what = "CONTENTS" => \E w \in writes : w.by = e.content /\ w.version = e.version

\* What a command that answers OK with a version has written.
WriteOf(c, w, e) ==
  /\ w.by = num[c] /\ w.cmd = cmd[c]
  /\ w.cmd.op = "write" \/ (w.cmd.op = "cas" /\ w.cmd.version # Bad)
  /\ e.what = "OK" /\ e.version = w.version

\* The handler of a command answers and returns.
FinishedStep(c) ==
  /\ Others(c) /\ UNCHANGED <<calls, timeouts>>
  /\ at[c] \notin Resting \cup Refusing /\ at'[c] = "reading" /\ num'[c] = 0
  /\ cmd[c].op = "write" => at[c] = "locking"
  /\ open'[c] => open[c]
  /\ \E e \in Reply :
       /\ Adds(c, e) /\ e.n = num[c] /\ e.op = cmd[c].op
       /\ \/ UNCHANGED writes /\ PlainReply(e)
          \/ \E w : writes' = writes \cup {w} /\ WriteOf(c, w, e)

\* The handler of a command that was refused returns.
QuitStep(c) ==
  /\ Others(c) /\ UNCHANGED <<calls, timeouts, writes, answers>>
  /\ at[c] \notin Resting /\ at'[c] = "reading" /\ num'[c] = 0
  /\ open'[c] => open[c]

\* The replies of a connection after one more.
LEMMA AddsOne ==
  ASSUME Replies, NEW c \in Client, NEW e \in Reply, Adds(c, e)
  PROVE  /\ Replies'
         /\ \A d \in Client : \A a \in Told(d)' :
              a \in Told(d) \/ (d = c /\ open[c] /\ a = e)
         /\ \A d \in Client :
              \/ answers'[d] = answers[d]
              \/ /\ d = c /\ open[c] /\ Len(answers[c]) \in Nat
                 /\ \A k \in 1..Len(answers'[c]) : k \in 1..Len(answers[c]) \/ k = Len(answers[c]) + 1
                 /\ \A k \in 1..Len(answers[c]) : answers'[c][k] = answers[c][k]
                 /\ answers'[c][Len(answers[c]) + 1] = e
<1>1. CASE UNCHANGED answers
  BY <1>1 DEF Replies, Told
<1>2. CASE open[c] /\ answers' = [answers EXCEPT ![c] = Append(@, e)]
  <2>1. answers[c] \in Seq(Reply) /\ Len(answers[c]) \in Nat
    BY LenProperties DEF Replies
  <2>2. answers'[c] = Append(answers[c], e) /\ \A d \in Client : d # c => answers'[d] = answers[d]
    BY <1>2 DEF Replies
  <2>3. /\ answers'[c] \in Seq(Reply) /\ Len(answers'[c]) = Len(answers[c]) + 1
        /\ \A k \in 1..Len(answers[c]) : answers'[c][k] = answers[c][k]
        /\ answers'[c][Len(answers[c]) + 1] = e
    BY <2>1, <2>2, AppendProperties
  <2>4. \A k \in 1..Len(answers'[c]) : k \in 1..Len(answers[c]) \/ k = Len(answers[c]) + 1
    BY <2>1, <2>3
  <2>5. Replies'
    BY <1>2, <2>1, AppendProperties DEF Replies
  <2>6. ASSUME NEW d \in Client, NEW a \in Told(d)'
        PROVE  a \in Told(d) \/ (d = c /\ open[c] /\ a = e)
    <3>1. PICK k \in 1..Len(answers'[d]) : a = answers'[d][k]
      BY <2>6 DEF Told
    <3>2. CASE d # c
      BY <2>2, <3>1, <3>2 DEF Told
    <3>3. CASE d = c
      BY <1>2, <2>3, <2>4, <3>1, <3>3 DEF Told
    <3> QED
      BY <3>2, <3>3
  <2> QED
    BY <1>2, <2>1, <2>2, <2>3, <2>4, <2>5, <2>6
<1> QED
  BY <1>1, <1>2 DEF Adds

\* AnswersTrue, of one reply.
TrueReply(a) ==
  /\ a.what = "OK" /\ a.version > 0 =>
       \E w \in writes : w.by = a.n /\ w.version = a.version
  /\ a.what = "CONTENTS" =>
       \E w \in writes : w.by = a.content /\ w.version = a.version
  /\ a.what \in Refusal => \A w \in writes : w.by = a.n => w.cmd.numBytes = Bad
  /\ a.what = "ERR_INTERNAL" => \A w \in writes : w.by = a.n => w.cmd.op = "cas"

LEMMA TrueReplies == AnswersTrue <=> \A c \in Client : \A a \in Told(c) : TrueReply(a)
  BY DEF AnswersTrue, Told, TrueReply, Refusal

LEMMA TrueRepliesAfter == AnswersTrue' <=> (\A c \in Client : \A a \in Told(c) : TrueReply(a))'
  BY TrueReplies, PTL

\* What is told is a reply, to a command.
LEMMA ToldType ==
  ASSUME Replies, NEW c \in Client, NEW a \in Told(c)
  PROVE  a \in Reply /\ a.n \in Nat \ {0}
<1>1. answers[c] \in Seq(Reply)
  BY DEF Replies
<1>2. PICK k \in 1..Len(answers[c]) : a = answers[c][k]
  BY DEF Told
<1>3. a \in Reply
  BY <1>1, <1>2, ElementOfSeq
<1> QED
  BY <1>3 DEF Reply

\* The types of what the kinds of steps speak of.
LEMMA ConnFacts ==
  ASSUME IInv
  PROVE  /\ calls \in Nat /\ \A c \in Client : num[c] \in 0..calls
         /\ \A t \in timeouts : t.client \in Client /\ t.n \in 1..calls
                                /\ t.op \in {"write", "cas"}
<1>1. calls \in Nat /\ num \in [Client -> 0..calls]
  BY Split DEF ConnTypes
<1>2. \A t \in timeouts : t.client \in Client /\ t.n \in 1..calls /\ t.op \in {"write", "cas"}
  BY Split DEF TimeoutTypes, TimeoutType
<1> QED
  BY <1>1, <1>2

\* Numbers stay apart when one connection gets at most the next one.
LEMMA NumbersGrow ==
  ASSUME NumbersApart, calls \in Nat, NEW c, calls' = calls \/ calls' = calls + 1,
         \A d \in Client, n \in Nat \ {0} :
           Uses(d, n)' => Uses(d, n) \/ (d = c /\ n = calls + 1 /\ calls' = calls + 1)
  PROVE  NumbersApart'
<1>1. ASSUME NEW d \in Client, NEW n \in Nat \ {0}, Uses(d, n)'
      PROVE  n <= calls'
  <2>1. Uses(d, n) => n <= calls
    BY DEF NumbersApart
  <2> QED
    BY <1>1, <2>1
<1>2. ASSUME NEW d \in Client, NEW e \in Client, NEW n \in Nat \ {0}, Uses(d, n)', Uses(e, n)'
      PROVE  d = e
  <2>1. /\ Uses(d, n) => n <= calls
        /\ Uses(e, n) => n <= calls
        /\ Uses(d, n) /\ Uses(e, n) => d = e
    BY DEF NumbersApart
  <2>2. n = calls + 1 => ~(n <= calls)
    OBVIOUS
  <2> QED
    BY <1>2, <2>1, <2>2
<1> QED
  BY <1>1, <1>2 DEF NumbersApart

\* A number that a connection was told of is one it uses, and has been given out.
LEMMA ToldUses ==
  ASSUME AnswerInv, NEW c \in Client, NEW a \in Told(c)
  PROVE  a \in Reply /\ a.n \in Nat \ {0} /\ Uses(c, a.n) /\ a.n <= calls
<1>1. a \in Reply /\ a.n \in Nat \ {0}
  BY ToldType DEF AnswerInv
<1>2. Uses(c, a.n)
  BY DEF Uses
<1> QED
  BY <1>1, <1>2 DEF AnswerInv, NumbersApart

\* Two answers to a command stay as they should be with one reply more, if it goes
\* with what its command was told before.
LEMMA PairsGrow ==
  ASSUME Replies, OneAnswer, NEW c \in Client, NEW e \in Reply, Adds(c, e),
         open[c] => \A a \in Told(c) : a.n = e.n => MayBeBoth(a, e)
  PROVE  OneAnswer'
<1> SUFFICES ASSUME NEW d \in Client, NEW j \in 1..Len(answers'[d]),
                    NEW k \in 1..Len(answers'[d]), j # k,
                    answers'[d][j].n = answers'[d][k].n
             PROVE  MayBeBoth(answers'[d][j], answers'[d][k])
  BY DEF OneAnswer
<1>1. \/ answers'[d] = answers[d]
      \/ /\ d = c /\ open[c] /\ Len(answers[c]) \in Nat
         /\ \A i \in 1..Len(answers'[c]) : i \in 1..Len(answers[c]) \/ i = Len(answers[c]) + 1
         /\ \A i \in 1..Len(answers[c]) : answers'[c][i] = answers[c][i]
         /\ answers'[c][Len(answers[c]) + 1] = e
  BY AddsOne
<1>2. \A a, b : MayBeBoth(a, b) => MayBeBoth(b, a)
  BY DEF MayBeBoth
<1>3. CASE answers'[d] = answers[d]
  BY <1>3 DEF OneAnswer
<1>4. CASE answers'[d] # answers[d]
  <2>1. /\ d = c /\ open[c]
        /\ j \in 1..Len(answers[c]) \/ answers'[c][j] = e
        /\ k \in 1..Len(answers[c]) \/ answers'[c][k] = e
        /\ j \in 1..Len(answers[c]) \/ k \in 1..Len(answers[c])
    BY <1>1, <1>4
  <2>2. \A i \in 1..Len(answers[c]) : answers'[c][i] = answers[c][i] /\ answers[c][i] \in Told(c)
    BY <1>1, <1>4 DEF Told
  <2>3. CASE j \in 1..Len(answers[c]) /\ k \in 1..Len(answers[c])
    <3>1. answers'[d][j] = answers[d][j] /\ answers'[d][k] = answers[d][k]
      BY <2>1, <2>2, <2>3
    <3> QED
      BY <2>1, <2>3, <3>1 DEF OneAnswer
  <2>4. CASE j \in 1..Len(answers[c]) /\ answers'[c][k] = e
    <3>1. answers'[d][j] \in Told(c) /\ answers'[d][j].n = e.n
      BY <2>1, <2>2, <2>4
    <3> QED
      BY <2>1, <2>4, <3>1
  <2>5. CASE k \in 1..Len(answers[c]) /\ answers'[c][j] = e
    <3>1. answers'[d][k] \in Told(c) /\ answers'[d][k].n = e.n
      BY <2>1, <2>2, <2>5
    <3>2. MayBeBoth(answers'[d][k], e)
      BY <2>1, <3>1
    <3> QED
      BY <2>1, <2>5, <3>2, <1>2
  <2> QED
    BY <2>1, <2>3, <2>4, <2>5
<1> QED
  BY <1>3, <1>4

\* A reply more is so when it is so of the writes there were, and nothing is written.
LEMMA TrueGrow ==
  ASSUME Replies, AnswersTrue, NEW c \in Client, NEW e \in Reply, Adds(c, e),
         UNCHANGED writes, TrueReply(e)
  PROVE  AnswersTrue'
<1>1. ASSUME NEW d \in Client, NEW a \in Told(d)'
      PROVE  TrueReply(a)
  <2>1. a \in Told(d) \/ a = e
    BY AddsOne
  <2> QED
    BY <2>1, TrueReplies
<1>2. \A d \in Client : \A a \in Told(d)' : TrueReply(a)'
  BY <1>1 DEF TrueReply
<1> QED
  BY <1>2, TrueRepliesAfter

\* Nothing is told, and a goroutine goes on.
LEMMA AnswerSilent ==
  ASSUME IInv, IInv', AnswerInv, NEW c \in Client, SilentStep(c)
  PROVE  AnswerInv'
<1>1. /\ UNCHANGED <<calls, writes, answers, cmd, num>> /\ timeouts' \subseteq timeouts
      /\ \A d \in Client : d # c => at'[d] = at[d] /\ open'[d] = open[d]
  BY DEF SilentStep, Others
<1>2. /\ calls \in Nat
      /\ \A t \in timeouts : t.client \in Client /\ t.n \in 1..calls
  BY ConnFacts
<1>3. Replies' /\ WritesDone' /\ OneAnswer' /\ AnswersTrue'
  <2>1. Replies' /\ WritesDone'
    BY <1>1 DEF AnswerInv, Replies, WritesDone
  <2>2. OneAnswer' /\ AnswersTrue'
    BY <1>1 DEF AnswerInv, OneAnswer, AnswersTrue
  <2> QED
    BY <2>1, <2>2
<1>4. Numbering'
  <2>1. at'[c] \in Resting <=> at[c] \in Resting
    BY DEF SilentStep
  <2> QED
    BY <1>1, <2>1 DEF AnswerInv, Numbering
<1>5. NumbersApart'
  <2>1. \A d \in Client, n \in Nat \ {0} : Uses(d, n)' => Uses(d, n)
    BY <1>1 DEF Uses, Told, Waiting
  <2> QED
    BY <2>1, <1>1, <1>2, NumbersGrow DEF AnswerInv
<1>6. \A d \in Client : Told(d)' = Told(d)
  BY <1>1 DEF Told
<1>7. NewUntold'
  <2>1. at'[c] # "new" \/ (at[c] = "new" /\ ~open'[c])
    BY DEF SilentStep
  <2> QED
    BY <1>1, <2>1 DEF AnswerInv, NewUntold
<1>8. at[c] \in Receiving /\ cmd[c].op = "write" =>
        \/ at'[c] \in Receiving
        \/ /\ \E t \in timeouts : t.client = c /\ t.n = num[c]
           /\ \A t \in timeouts' : ~(t.client = c /\ t.n = num[c])
  BY DEF SilentStep
<1>9. TimeoutsLeft'
  <2> SUFFICES ASSUME NEW t \in timeouts' PROVE TimeoutLeft(t)'
    BY DEF TimeoutsLeft
  <2>1. t \in timeouts /\ TimeoutLeft(t) /\ t.client \in Client
    BY <1>1, <1>2 DEF AnswerInv, TimeoutsLeft
  <2>2. num[t.client] = t.n /\ t.op = "write" => at'[t.client] \in Receiving
    <3>1. CASE t.client = c
      BY <2>1, <3>1, <1>8 DEF TimeoutLeft
    <3>2. CASE t.client # c
      BY <2>1, <3>2, <1>1 DEF TimeoutLeft
    <3> QED
      BY <3>1, <3>2
  <2> QED
    BY <2>1, <2>2, <1>1, <1>6 DEF TimeoutLeft
<1>10. AnsweredStill'
  <2> SUFFICES ASSUME NEW d \in Client, NEW a \in Told(d), a.n = num[d]
               PROVE  AnsweredOf(a, d)'
    BY <1>1, <1>6 DEF AnsweredStill
  <2>1. AnsweredOf(a, d)
    BY DEF AnswerInv, AnsweredStill
  <2>2. CASE d # c
    BY <2>1, <2>2, <1>1 DEF AnsweredOf
  <2>3. CASE d = c
    <3>1. /\ at[c] # "new" /\ (open'[c] => open[c] \/ at[c] = "new")
          /\ at[c] = "losing" => at'[c] = "losing"
          /\ at[c] = "closing" => at'[c] = "closing" \/ ~open'[c]
      <4>1. a.n \in Nat \ {0} /\ num[c] # 0
        BY <2>3, ToldType DEF AnswerInv
      <4>2. at[c] # "new"
        BY <4>1 DEF AnswerInv, Numbering, Resting
      <4> QED
        BY <4>2 DEF SilentStep
    <3>2. a.what = "ERR_INTERNAL" /\ a.op = "write" => at'[c] \in Receiving
      <4>1. SUFFICES ASSUME a.what = "ERR_INTERNAL", a.op = "write"
                     PROVE  at'[c] \in Receiving
        OBVIOUS
      <4>2. \A t \in timeouts : ~(t.client = c /\ t.n = num[c])
        BY <4>1, <2>3 DEF AnswerInv, TimeoutsLeft, TimeoutLeft
      <4> QED
        BY <4>1, <4>2, <2>1, <2>3, <1>8 DEF AnsweredOf
    <3>3. a.what # "ERR_INTERNAL" => ~open'[c] \/ at'[c] \in Refusing
      BY <2>1, <2>3, <3>1 DEF AnsweredOf, Refusing
    <3> QED
      BY <2>1, <2>3, <3>1, <3>2, <3>3, <1>1 DEF AnsweredOf
  <2> QED
    BY <2>2, <2>3
<1> QED
  BY <1>3, <1>4, <1>5, <1>7, <1>9, <1>10 DEF AnswerInv

\* No variable of the answers changes.
LEMMA AnswerStays ==
  ASSUME AnswerInv, UNCHANGED <<calls, writes, answers, at, cmd, num, open, timeouts>>
  PROVE  AnswerInv'
<1>1. \A d : Told(d)' = Told(d)
  BY DEF Told
<1>2. Replies' /\ Numbering' /\ WritesDone' /\ NewUntold'
  BY DEF AnswerInv, Replies, Numbering, WritesDone, NewUntold
<1>3. OneAnswer' /\ AnswersTrue'
  BY DEF AnswerInv, OneAnswer, AnswersTrue
<1>4. NumbersApart'
  BY <1>1 DEF AnswerInv, NumbersApart, Uses, Waiting
<1>5. TimeoutsLeft'
  BY <1>1 DEF AnswerInv, TimeoutsLeft, TimeoutLeft
<1>6. AnsweredStill'
  BY <1>1 DEF AnswerInv, AnsweredStill, AnsweredOf
<1> QED
  BY <1>2, <1>3, <1>4, <1>5, <1>6 DEF AnswerInv

\* A command that is new has no answers and has written nothing.
LEMMA AnswerLine ==
  ASSUME IInv, IInv', AnswerInv, NEW c \in Client, LineStep(c)
  PROVE  AnswerInv'
<1>1. PICK e \in Reply :
        /\ Adds(c, e) /\ e.n = calls + 1 /\ e.what = "ERR_CMD_ERR"
        /\ \/ UNCHANGED answers \/ num'[c] = 0
           \/ ~open'[c] /\ cmd'[c].numBytes = Bad /\ e.op = cmd'[c].op
  BY DEF LineStep
<1>2. /\ UNCHANGED writes /\ calls' = calls + 1 /\ calls \in Nat
      /\ \A d \in Client : d # c =>
           at'[d] = at[d] /\ cmd'[d] = cmd[d] /\ num'[d] = num[d] /\ open'[d] = open[d]
      /\ \A t \in timeouts : t.client \in Client /\ t.n \in 1..calls
  BY ConnFacts DEF LineStep, Others
<1>3. /\ at'[c] # "new" /\ (open'[c] => open[c])
      /\ num'[c] = 0 \/ num'[c] = calls + 1
      /\ num'[c] = 0 <=> at'[c] \in Resting
  BY <1>2 DEF LineStep, Resting
<1>4. \/ UNCHANGED timeouts
      \/ /\ timeouts' = timeouts \cup {Timeout(c, calls + 1, cmd'[c].op)}
         /\ at'[c] = "contents" /\ num'[c] = calls + 1
  BY DEF LineStep
<1>5. /\ Replies'
      /\ \A d \in Client : \A a \in Told(d)' : a \in Told(d) \/ (d = c /\ open[c] /\ a = e)
      /\ \A d \in Client : d # c => answers'[d] = answers[d]
  BY <1>1, AddsOne DEF AnswerInv
<1>6. \A d \in Client : \A a \in Told(d) : a.n \in Nat \ {0} /\ a.n <= calls
  BY ToldUses
<1>7. \A w \in writes : w.by \in 1..calls
  BY DEF AnswerInv, WritesDone
<1>8. Numbering' /\ WritesDone'
  <2>1. Numbering'
    BY <1>2, <1>3 DEF AnswerInv, Numbering
  <2>2. ASSUME NEW w \in writes, NEW d \in Client
        PROVE  num'[d] # w.by /\ w.by \in 1..calls'
    BY <1>2, <1>3, <1>7 DEF AnswerInv, WritesDone
  <2> QED
    BY <2>1, <2>2, <1>2, <1>7 DEF WritesDone
<1>9. NumbersApart'
  <2>1. ASSUME NEW d \in Client, NEW n \in Nat \ {0}, Uses(d, n)'
        PROVE  Uses(d, n) \/ (d = c /\ n = calls + 1)
    <3>1. CASE num'[d] = n
      BY <3>1, <1>2, <1>3 DEF Uses
    <3>2. CASE Waiting(d, n)' # {}
      BY <3>2, <1>4 DEF Uses, Waiting, Timeout
    <3>3. CASE \E a \in Told(d)' : a.n = n
      BY <3>3, <1>1, <1>5 DEF Uses
    <3> QED
      BY <2>1, <3>1, <3>2, <3>3 DEF Uses
  <2> QED
    BY <2>1, <1>2, NumbersGrow DEF AnswerInv
<1>10. NewUntold'
  BY <1>2, <1>3, <1>5 DEF AnswerInv, NewUntold
<1>11. TimeoutsLeft'
  <2> SUFFICES ASSUME NEW t \in timeouts' PROVE TimeoutLeft(t)'
    BY DEF TimeoutsLeft
  <2>1. CASE t \in timeouts
    <3>1. /\ t.client \in Client /\ t.n \in 1..calls /\ TimeoutLeft(t) /\ t.n # calls + 1
      BY <2>1, <1>2 DEF AnswerInv, TimeoutsLeft
    <3>2. \A u \in timeouts' : u.client = t.client /\ u.n = t.n => u = t
      BY <3>1, <1>4 DEF Timeout, TimeoutLeft
    <3>3. \A w \in writes' : w.by = t.n => w.cmd.op = "cas"
      BY <3>1, <1>2 DEF TimeoutLeft
    <3>4. num'[t.client] = t.n =>
            /\ cmd'[t.client].op = t.op
            /\ t.op = "write" => at'[t.client] \in Receiving
      <4>1. t.client = c => num'[t.client] # t.n
        BY <3>1, <1>2, <1>3
      <4> QED
        BY <4>1, <3>1, <1>2 DEF TimeoutLeft
    <3>5. \A a \in Told(t.client)' : a.n = t.n => a \in Told(t.client)
      BY <3>1, <1>1, <1>5
    <3> QED
      BY <3>1, <3>2, <3>3, <3>4, <3>5 DEF TimeoutLeft
  <2>2. CASE t \notin timeouts
    <3>1. /\ t = Timeout(c, calls + 1, cmd'[c].op) /\ t.client = c /\ t.n = calls + 1
          /\ t.op = cmd'[c].op /\ at'[c] \in Receiving /\ num'[c] = calls + 1
          /\ timeouts' = timeouts \cup {t}
      BY <2>2, <1>4 DEF Timeout, Receiving
    <3>2. \A u \in timeouts' : u.n = t.n => u = t
      BY <3>1, <1>2
    <3>3. \A w \in writes' : w.by # t.n
      BY <3>1, <1>2, <1>7
    <3>4. ASSUME NEW a \in Told(c)', a.n = t.n
          PROVE  a.op = t.op /\ a.what = "ERR_CMD_ERR"
      <4>1. a \notin Told(c)
        BY <3>1, <3>4, <1>2, <1>6
      <4>2. a = e /\ answers' # answers
        BY <3>4, <4>1, <1>5 DEF Told
      <4>3. num'[c] # 0
        BY <3>1, <1>2
      <4> QED
        BY <4>2, <4>3, <3>1, <1>1
    <3> QED
      BY <3>1, <3>2, <3>3, <3>4 DEF TimeoutLeft
  <2> QED
    BY <2>1, <2>2
<1>12. AnsweredStill'
  <2> SUFFICES ASSUME NEW d \in Client, NEW a \in Told(d)', a.n = num'[d]
               PROVE  AnsweredOf(a, d)'
    BY DEF AnsweredStill
  <2>1. CASE d # c
    <3>1. a \in Told(d) /\ a.n = num[d]
      BY <2>1, <1>2, <1>5
    <3> QED
      BY <2>1, <3>1, <1>2 DEF AnswerInv, AnsweredStill, AnsweredOf
  <2>2. CASE d = c
    <3>1. a \notin Told(c)
      BY <2>2, <1>2, <1>3, <1>6
    <3>2. a = e /\ answers' # answers
      BY <2>2, <3>1, <1>5 DEF Told
    <3>3. num'[c] # 0
      BY <2>2, <3>2, <1>1, <1>2
    <3>4. /\ ~open'[c] /\ cmd'[c].numBytes = Bad /\ a.op = cmd'[c].op
          /\ a.what = "ERR_CMD_ERR"
      BY <3>2, <3>3, <1>1
    <3> QED
      BY <2>2, <3>4 DEF AnsweredOf
  <2> QED
    BY <2>1, <2>2
<1>13. OneAnswer'
  <2>1. \A a \in Told(c) : a.n # e.n
    BY <1>1, <1>2, <1>6
  <2> QED
    BY <2>1, <1>1, PairsGrow DEF AnswerInv
<1>14. AnswersTrue'
  <2>1. TrueReply(e)
    BY <1>1, <1>2, <1>7 DEF TrueReply
  <2> QED
    BY <2>1, <1>1, <1>2, TrueGrow DEF AnswerInv
<1> QED
  BY <1>5, <1>8, <1>9, <1>10, <1>11, <1>12, <1>13, <1>14 DEF AnswerInv

\* A command that is refused has written nothing, and will answer no more.
LEMMA AnswerRefused ==
  ASSUME IInv, AnswerInv, NEW c \in Client, RefusedStepOf(c)
  PROVE  AnswerInv'
<1>1. PICK e \in Reply :
        Adds(c, e) /\ e.n = num[c] /\ e.op = cmd[c].op /\ e.what = "ERR_CMD_ERR"
  BY DEF RefusedStepOf
<1>2. /\ UNCHANGED <<calls, writes, cmd, num, timeouts, open>> /\ calls \in Nat
      /\ at[c] = "contents" /\ at'[c] \in Refusing
      /\ at'[c] = "losing" \/ (cmd[c].op = "cas" /\ cmd[c].version = Bad)
      /\ \A d \in Client : d # c => at'[d] = at[d]
      /\ \A t \in timeouts : t.client \in Client /\ t.n \in 1..calls
  BY ConnFacts DEF RefusedStepOf, Others, Refusing
<1>3. /\ Replies'
      /\ \A d \in Client : \A a \in Told(d)' : a \in Told(d) \/ (d = c /\ open[c] /\ a = e)
      /\ \A d \in Client : d # c => answers'[d] = answers[d]
  BY <1>1, AddsOne DEF AnswerInv
<1>4. \A w \in writes : w.by # num[c]
  BY DEF AnswerInv, WritesDone
<1>5. num[c] \in Nat \ {0} /\ Uses(c, num[c])
  BY <1>1 DEF Uses, Reply
<1>6. \A t \in timeouts : t.n = num[c] => t.client = c
  <2>1. \A t \in timeouts : Uses(t.client, t.n)
    BY DEF Uses, Waiting
  <2> QED
    BY <2>1, <1>2, <1>5 DEF AnswerInv, NumbersApart
<1>7. Numbering' /\ WritesDone' /\ NewUntold'
  <2>1. Numbering'
    BY <1>2 DEF AnswerInv, Numbering, Resting, Refusing
  <2>2. NewUntold'
    BY <1>2, <1>3 DEF AnswerInv, NewUntold, Refusing
  <2> QED
    BY <2>1, <2>2, <1>2 DEF AnswerInv, WritesDone
<1>8. NumbersApart'
  <2>1. ASSUME NEW d \in Client, NEW n \in Nat \ {0}, Uses(d, n)'
        PROVE  Uses(d, n)
    BY <2>1, <1>1, <1>2, <1>3 DEF Uses, Waiting
  <2> QED
    BY <2>1, <1>2, NumbersGrow DEF AnswerInv
<1>9. TimeoutsLeft'
  <2> SUFFICES ASSUME NEW t \in timeouts PROVE TimeoutLeft(t)'
    BY <1>2 DEF TimeoutsLeft
  <2>1. TimeoutLeft(t) /\ t.client \in Client
    BY <1>2 DEF AnswerInv, TimeoutsLeft
  <2>2. num[t.client] = t.n => cmd[t.client].op = t.op
    BY <2>1 DEF TimeoutLeft
  <2>3. num[t.client] = t.n /\ t.op = "write" => at'[t.client] \in Receiving
    BY <2>1, <2>2, <1>2 DEF TimeoutLeft, Receiving, Refusing
  <2>4. ASSUME NEW a \in Told(t.client)', a.n = t.n
        PROVE  /\ a.op = t.op /\ a.what # "ERR_INTERNAL"
               /\ t.op = "write" => a.what = "ERR_CMD_ERR"
    <3>1. CASE a \in Told(t.client)
      BY <2>1, <2>4, <3>1 DEF TimeoutLeft
    <3>2. CASE a = e /\ t.client = c
      BY <2>2, <2>4, <3>2, <1>1
    <3> QED
      BY <2>1, <3>1, <3>2, <1>3
  <2> QED
    BY <2>1, <2>2, <2>3, <2>4, <1>2 DEF TimeoutLeft
<1>10. AnsweredStill'
  <2> SUFFICES ASSUME NEW d \in Client, NEW a \in Told(d)', a.n = num[d]
               PROVE  AnsweredOf(a, d)'
    BY <1>2 DEF AnsweredStill
  <2>1. CASE a \in Told(d)
    <3>1. AnsweredOf(a, d)
      BY <2>1 DEF AnswerInv, AnsweredStill
    <3>2. CASE d = c
      BY <3>1, <3>2, <1>2 DEF AnsweredOf, Receiving, Refusing
    <3>3. CASE d # c
      BY <3>1, <3>3, <1>2 DEF AnsweredOf
    <3> QED
      BY <3>2, <3>3
  <2>2. CASE a = e /\ d = c
    BY <2>2, <1>1, <1>2 DEF AnsweredOf
  <2> QED
    BY <2>1, <2>2, <1>3
<1>11. OneAnswer'
  <2>1. ASSUME open[c], NEW a \in Told(c), a.n = e.n
        PROVE  MayBeBoth(a, e)
    <3>1. AnsweredOf(a, c) /\ a \in Reply
      BY <2>1, <1>1, ToldUses DEF AnswerInv, AnsweredStill
    <3>2. a.what = "ERR_INTERNAL" /\ a.op = e.op
      BY <2>1, <3>1, <1>1, <1>2 DEF AnsweredOf, Refusing
    <3>3. a.op \in {"write", "cas"}
      BY <3>1, <3>2 DEF Reply
    <3> QED
      BY <3>2, <3>3, <1>1 DEF MayBeBoth
  <2> QED
    BY <2>1, <1>1, PairsGrow DEF AnswerInv
<1>12. AnswersTrue'
  <2>1. TrueReply(e)
    BY <1>1, <1>4 DEF TrueReply
  <2> QED
    BY <2>1, <1>1, <1>2, TrueGrow DEF AnswerInv
<1> QED
  BY <1>3, <1>7, <1>8, <1>9, <1>10, <1>11, <1>12 DEF AnswerInv

\* When time is over the contents have not come, or the command is a cas.
LEMMA AnswerTimedOut ==
  ASSUME IInv, AnswerInv, NEW t \in timeouts, TimedOutStep(t)
  PROVE  AnswerInv'
<1>0. PICK c : c = t.client
  OBVIOUS
<1>1. PICK e \in Reply : Adds(c, e) /\ e.n = t.n /\ e.op = t.op /\ e.what = "ERR_INTERNAL"
  BY <1>0 DEF TimedOutStep
<1>2. /\ UNCHANGED <<calls, writes, at, cmd, num, open>> /\ calls \in Nat
      /\ timeouts' = timeouts \ {t} /\ c \in Client /\ t.n \in Nat \ {0}
      /\ t.op \in {"write", "cas"}
      /\ \A u \in timeouts : u.client \in Client /\ u.n \in 1..calls
  BY <1>0, ConnFacts DEF TimedOutStep
<1>3. /\ Replies'
      /\ \A d \in Client : \A a \in Told(d)' : a \in Told(d) \/ (d = c /\ open[c] /\ a = e)
      /\ \A d \in Client : d # c => answers'[d] = answers[d]
  BY <1>1, <1>2, AddsOne DEF AnswerInv
<1>4. TimeoutLeft(t)
  BY DEF AnswerInv, TimeoutsLeft
<1>5. Uses(c, t.n)
  BY <1>0 DEF Uses, Waiting
<1>6. Numbering' /\ WritesDone' /\ NewUntold'
  <2>1. NewUntold'
    <3>1. at[c] = "new" => answers' = answers
      BY <1>1, <1>2 DEF AnswerInv, NewUntold, Adds
    <3> QED
      BY <3>1, <1>2, <1>3 DEF AnswerInv, NewUntold
  <2> QED
    BY <2>1, <1>2 DEF AnswerInv, Numbering, WritesDone
<1>7. NumbersApart'
  <2>1. ASSUME NEW d \in Client, NEW n \in Nat \ {0}, Uses(d, n)'
        PROVE  Uses(d, n)
    BY <2>1, <1>1, <1>2, <1>3, <1>5 DEF Uses, Waiting
  <2> QED
    BY <2>1, <1>2, NumbersGrow DEF AnswerInv
<1>8. TimeoutsLeft'
  <2> SUFFICES ASSUME NEW u \in timeouts, u # t PROVE TimeoutLeft(u)'
    BY <1>2 DEF TimeoutsLeft
  <2>1. TimeoutLeft(u) /\ u.client \in Client
    BY <1>2 DEF AnswerInv, TimeoutsLeft
  <2>2. \A a \in Told(u.client)' : a.n = u.n => a \in Told(u.client)
    <3>1. ~(u.client = c /\ u.n = t.n)
      BY <1>0, <1>4 DEF TimeoutLeft
    <3> QED
      BY <2>1, <3>1, <1>1, <1>3
  <2> QED
    BY <2>1, <2>2, <1>2 DEF TimeoutLeft
<1>9. AnsweredStill'
  <2> SUFFICES ASSUME NEW d \in Client, NEW a \in Told(d)', a.n = num[d]
               PROVE  AnsweredOf(a, d)'
    BY <1>2 DEF AnsweredStill
  <2>1. CASE a \in Told(d)
    BY <2>1, <1>2 DEF AnswerInv, AnsweredStill, AnsweredOf
  <2>2. CASE a = e /\ d = c
    BY <2>2, <1>0, <1>1, <1>2, <1>4 DEF AnsweredOf, TimeoutLeft, Refusal
  <2> QED
    BY <2>1, <2>2, <1>3
<1>10. OneAnswer'
  <2>1. ASSUME NEW a \in Told(c), a.n = e.n
        PROVE  MayBeBoth(a, e)
    BY <2>1, <1>0, <1>1, <1>2, <1>4 DEF TimeoutLeft, MayBeBoth
  <2> QED
    BY <2>1, <1>1, <1>2, PairsGrow DEF AnswerInv
<1>11. AnswersTrue'
  <2>1. TrueReply(e)
    BY <1>1, <1>4 DEF TrueReply, Refusal, TimeoutLeft
  <2> QED
    BY <2>1, <1>1, <1>2, TrueGrow DEF AnswerInv
<1> QED
  BY <1>3, <1>6, <1>7, <1>8, <1>9, <1>10, <1>11 DEF AnswerInv

\* What a handler that returns leaves as it was.
LEMMA OverFacts ==
  ASSUME IInv, AnswerInv, NEW c \in Client, Others(c), UNCHANGED <<calls, timeouts>>,
         at[c] \notin Resting, at'[c] = "reading", num'[c] = 0
  PROVE  /\ calls \in Nat /\ num[c] \in 1..calls /\ Uses(c, num[c])
         /\ \A d \in Client : d # c => num[d] # num[c]
         /\ \A d \in Client : \A a \in Told(d) : a.n = num[c] => d = c
         /\ \A t \in timeouts : /\ t.client \in Client /\ t.n \in 1..calls
                                /\ t.n = num[c] => t.client = c
         /\ Numbering'
<1>1. /\ num[c] \in 0..calls /\ calls \in Nat
      /\ \A t \in timeouts : t.client \in Client /\ t.n \in 1..calls
  BY ConnFacts
<1>2. num[c] \in 1..calls /\ num[c] \in Nat \ {0} /\ Uses(c, num[c])
  <2>1. num[c] # 0
    BY DEF AnswerInv, Numbering
  <2> QED
    BY <1>1, <2>1 DEF Uses
<1>3. \A d \in Client : Uses(d, num[c]) => d = c
  BY <1>2 DEF AnswerInv, NumbersApart
<1>4. \A d \in Client : d # c => num[d] # num[c]
  BY <1>3 DEF Uses
<1>5. \A d \in Client : \A a \in Told(d) : a.n = num[c] => d = c
  BY <1>3 DEF Uses
<1>6. \A t \in timeouts : t.n = num[c] => t.client = c
  <2>1. \A t \in timeouts : Uses(t.client, t.n)
    BY DEF Uses, Waiting
  <2> QED
    BY <2>1, <1>1, <1>3
<1>7. Numbering'
  BY DEF AnswerInv, Numbering, Others, Resting
<1> QED
  BY <1>1, <1>2, <1>4, <1>5, <1>6, <1>7

\* The timeout of a command whose handler returned has its type, if its answer is
\* one that may go with it.
LEMMA OverTimeouts ==
  ASSUME IInv, AnswerInv, NEW c \in Client, Others(c), UNCHANGED timeouts, num'[c] = 0,
         \A w \in writes' : w \in writes \/ (w.by = num[c] /\ w.cmd = cmd[c]),
         \A t \in timeouts : t.n = num[c] => t.client = c,
         cmd[c].op = "write" => at[c] = "locking" \/ UNCHANGED writes,
         \A w \in writes' \ writes : w.cmd.op \in {"write", "cas"},
         \A d \in Client : \A a \in Told(d)' :
           \/ a \in Told(d)
           \/ /\ d = c /\ a.n = num[c] /\ a.op = cmd[c].op /\ a.what # "ERR_INTERNAL"
              /\ cmd[c].op = "write" => at[c] = "locking"
  PROVE  TimeoutsLeft'
<1> SUFFICES ASSUME NEW t \in timeouts PROVE TimeoutLeft(t)'
  BY DEF TimeoutsLeft
<1>1. /\ TimeoutLeft(t) /\ t.client \in Client /\ t.n \in Nat \ {0}
      /\ t.op \in {"write", "cas"}
  BY ConnFacts DEF AnswerInv, TimeoutsLeft
<1>2. t.client = c /\ t.n = num[c] => t.op = cmd[c].op /\ ~(t.op = "write" /\ at[c] = "locking")
  BY <1>1 DEF TimeoutLeft, Receiving
<1>3. \A w \in writes' : w.by = t.n => w.cmd.op = "cas"
  BY <1>1, <1>2 DEF TimeoutLeft
<1>4. num'[t.client] = t.n =>
        /\ cmd'[t.client].op = t.op
        /\ t.op = "write" => at'[t.client] \in Receiving
  BY <1>1 DEF Others, TimeoutLeft
<1>5. ASSUME NEW a \in Told(t.client)', a.n = t.n
      PROVE  /\ a.op = t.op /\ a.what # "ERR_INTERNAL"
             /\ t.op = "write" => a.what = "ERR_CMD_ERR"
  <2>1. CASE a \in Told(t.client)
    BY <1>1, <1>5, <2>1 DEF TimeoutLeft
  <2>2. CASE a \notin Told(t.client)
    BY <1>1, <1>2, <1>5, <2>2
  <2> QED
    BY <2>1, <2>2
<1> QED
  BY <1>1, <1>3, <1>4, <1>5 DEF TimeoutLeft

\* What is still told of the commands that are worked on, when c returned.
LEMMA OverAnswered ==
  ASSUME IInv, AnswerInv, NEW c \in Client, Others(c), num'[c] = 0,
         \A d \in Client : \A a \in Told(d)' :
           a.n \in Nat \ {0} /\ (a \in Told(d) \/ d = c)
  PROVE  AnsweredStill'
<1> SUFFICES ASSUME NEW d \in Client, NEW a \in Told(d)', a.n = num'[d]
             PROVE  AnsweredOf(a, d)'
  BY DEF AnsweredStill
<1>1. d # c /\ a \in Told(d) /\ a.n = num[d]
  BY DEF Others
<1>2. AnsweredOf(a, d)
  BY <1>1 DEF AnswerInv, AnsweredStill
<1> QED
  BY <1>1, <1>2 DEF Others, AnsweredOf

\* A handler that was refused returns.
LEMMA AnswerQuit ==
  ASSUME IInv, AnswerInv, NEW c \in Client, QuitStep(c)
  PROVE  AnswerInv'
<1>1. /\ UNCHANGED <<calls, timeouts, writes, answers>> /\ Others(c) /\ num'[c] = 0
      /\ at'[c] = "reading"
      /\ \A d \in Client : Told(d)' = Told(d)
  BY DEF QuitStep, Told
<1>2. /\ calls \in Nat /\ num[c] \in 1..calls /\ Numbering'
      /\ \A t \in timeouts : t.n = num[c] => t.client = c
  BY OverFacts DEF QuitStep
<1>3. Replies' /\ OneAnswer' /\ AnswersTrue'
  <2>1. Replies'
    BY <1>1 DEF AnswerInv, Replies
  <2>2. OneAnswer' /\ AnswersTrue'
    BY <1>1 DEF AnswerInv, OneAnswer, AnswersTrue
  <2> QED
    BY <2>1, <2>2
<1>4. WritesDone'
  <2>1. ASSUME NEW w \in writes, NEW d \in Client
        PROVE  num'[d] # w.by /\ w.by \in 1..calls
    BY <1>1, <1>2 DEF Others, AnswerInv, WritesDone
  <2> QED
    BY <2>1, <1>1 DEF AnswerInv, WritesDone
<1>5. NewUntold'
  BY <1>1 DEF Others, AnswerInv, NewUntold
<1>6. NumbersApart'
  <2>1. ASSUME NEW d \in Client, NEW n \in Nat \ {0}, Uses(d, n)'
        PROVE  Uses(d, n)
    BY <2>1, <1>1 DEF Uses, Waiting, Others
  <2> QED
    BY <2>1, <1>1, <1>2, NumbersGrow DEF AnswerInv
<1>7. TimeoutsLeft'
  BY <1>1, <1>2, OverTimeouts
<1>8. AnsweredStill'
  <2>1. \A d \in Client : \A a \in Told(d) : a.n \in Nat \ {0}
    BY ToldUses
  <2> QED
    BY <2>1, <1>1, OverAnswered
<1> QED
  BY <1>2, <1>3, <1>4, <1>5, <1>6, <1>7, <1>8 DEF AnswerInv

\* A command that has written, answered or found nothing to do is over.
LEMMA AnswerFinished ==
  ASSUME IInv, AnswerInv, NEW c \in Client, FinishedStep(c)
  PROVE  AnswerInv'
<1>1. PICK e \in Reply :
        /\ Adds(c, e) /\ e.n = num[c] /\ e.op = cmd[c].op
        /\ \/ UNCHANGED writes /\ PlainReply(e)
           \/ \E w : writes' = writes \cup {w} /\ WriteOf(c, w, e)
  BY DEF FinishedStep
<1>2. /\ UNCHANGED <<calls, timeouts>> /\ Others(c) /\ num'[c] = 0 /\ at'[c] = "reading"
      /\ at[c] \notin Refusing /\ (cmd[c].op = "write" => at[c] = "locking")
      /\ e.what # "ERR_INTERNAL"
  BY <1>1 DEF FinishedStep, PlainReply, WriteOf
<1>3. /\ Replies'
      /\ \A d \in Client : \A a \in Told(d)' : a \in Told(d) \/ (d = c /\ open[c] /\ a = e)
      /\ \A d \in Client : d # c => answers'[d] = answers[d]
  BY <1>1, AddsOne DEF AnswerInv
<1>4. /\ calls \in Nat /\ num[c] \in 1..calls /\ Uses(c, num[c]) /\ Numbering'
      /\ \A d \in Client : d # c => num[d] # num[c]
      /\ \A d \in Client : \A a \in Told(d) : a.n = num[c] => d = c
      /\ \A t \in timeouts : t.n = num[c] => t.client = c
  BY OverFacts DEF FinishedStep
<1>5. \A w \in writes : w.by \in 1..calls /\ w.by # num[c] /\ \A d \in Client : num[d] # w.by
  BY DEF AnswerInv, WritesDone
<1>6. /\ \A w \in writes' : w \in writes \/ WriteOf(c, w, e)
      /\ \A w \in writes : w \in writes'
  BY <1>1
<1>7. WritesDone'
  <2>1. ASSUME NEW w \in writes', NEW d \in Client
        PROVE  num'[d] # w.by /\ w.by \in 1..calls
    <3>1. w.by \in 1..calls /\ (w \in writes \/ w.by = num[c])
      BY <1>4, <1>5, <1>6 DEF WriteOf
    <3>2. CASE d = c
      BY <3>1, <3>2, <1>2, <1>4
    <3>3. CASE d # c
      BY <3>1, <3>3, <1>2, <1>4, <1>5 DEF Others
    <3> QED
      BY <3>1, <3>2, <3>3
  <2>2. \A w \in writes' : w.by \in 1..calls
    BY <1>4, <1>5, <1>6 DEF WriteOf
  <2> QED
    BY <2>1, <2>2, <1>2 DEF WritesDone
<1>8. NewUntold'
  BY <1>2, <1>3 DEF Others, AnswerInv, NewUntold
<1>9. NumbersApart'
  <2>1. ASSUME NEW d \in Client, NEW n \in Nat \ {0}, Uses(d, n)'
        PROVE  Uses(d, n)
    BY <2>1, <1>1, <1>2, <1>3, <1>4 DEF Uses, Waiting, Others
  <2> QED
    BY <2>1, <1>2, <1>4, NumbersGrow DEF AnswerInv
<1>10. TimeoutsLeft'
  <2>1. /\ \A w \in writes' : w \in writes \/ (w.by = num[c] /\ w.cmd = cmd[c])
        /\ \A w \in writes' \ writes : w.cmd.op \in {"write", "cas"}
    BY <1>6 DEF WriteOf
  <2> QED
    BY <2>1, <1>1, <1>2, <1>3, <1>4, OverTimeouts
<1>11. AnsweredStill'
  <2>1. \A d \in Client : \A a \in Told(d) : a.n \in Nat \ {0}
    BY ToldUses
  <2>2. e.n \in Nat \ {0}
    BY DEF Reply
  <2> QED
    BY <2>1, <2>2, <1>2, <1>3, OverAnswered
<1>12. ASSUME NEW a \in Told(c), a.n = num[c]
       PROVE  AnsweredOf(a, c) /\ a \in Reply
  BY <1>12, ToldUses DEF AnswerInv, AnsweredStill
<1>13. OneAnswer'
  <2>1. ASSUME open[c], NEW a \in Told(c), a.n = e.n
        PROVE  MayBeBoth(a, e)
    <3>1. a.what = "ERR_INTERNAL" /\ a.op = e.op
      BY <2>1, <1>1, <1>2, <1>12 DEF AnsweredOf
    <3>2. a.op # "write"
      BY <2>1, <3>1, <1>1, <1>2, <1>12 DEF AnsweredOf, Receiving
    <3>3. a.op \in {"write", "cas"}
      BY <2>1, <3>1, <1>1, <1>12 DEF Reply
    <3> QED
      BY <3>1, <3>2, <3>3, <1>2 DEF MayBeBoth
  <2> QED
    BY <2>1, <1>1, PairsGrow DEF AnswerInv
<1>14. AnswersTrue'
  <2>1. ASSUME NEW d \in Client, NEW a \in Told(d)
        PROVE  TrueReply(a)'
    <3>1. TrueReply(a)
      BY TrueReplies DEF AnswerInv
    <3>2. ASSUME NEW w \in writes', w.by = a.n, w \notin writes
          PROVE  /\ a.what \in Refusal => w.cmd.numBytes = Bad
                 /\ a.what = "ERR_INTERNAL" => w.cmd.op = "cas"
      <4>1. /\ w.by = num[c] /\ w.cmd = cmd[c]
            /\ w.cmd.op = "write" \/ (w.cmd.op = "cas" /\ w.cmd.version # Bad)
        BY <3>2, <1>6 DEF WriteOf
      <4>2. d = c /\ AnsweredOf(a, c) /\ a.n = num[c]
        BY <3>2, <4>1, <1>4, <1>12
      <4>3. a.what = "ERR_INTERNAL" /\ cmd[c].op = "write" => FALSE
        BY <4>2, <1>2 DEF AnsweredOf, Receiving
      <4>4. a.what \in Refusal => cmd[c].numBytes = Bad
        BY <4>1, <4>2, <1>2 DEF AnsweredOf, Refusing
      <4> QED
        BY <4>1, <4>3, <4>4
    <3> QED
      BY <3>1, <3>2, <1>6 DEF TrueReply
  <2>2. TrueReply(e)'
    <3>1. CASE UNCHANGED writes /\ PlainReply(e)
      <4>1. /\ e.what # "ERR_INTERNAL" /\ (e.what = "OK" => e.version = 0)
            /\ e.what = "CONTENTS" =>
                 \E w \in writes : w.by = e.content /\ w.version = e.version
        BY <3>1 DEF PlainReply
      <4>2. \A w \in writes : w.by # e.n
        BY <1>1, <1>5
      <4>3. e.what = "OK" => ~(e.version > 0)
        BY <4>1
      <4> QED
        BY <3>1, <4>1, <4>2, <4>3 DEF TrueReply
    <3>2. CASE \E w : writes' = writes \cup {w} /\ WriteOf(c, w, e)
      <4>1. PICK w : writes' = writes \cup {w} /\ WriteOf(c, w, e)
        BY <3>2
      <4>2. w \in writes' /\ w.by = e.n /\ w.version = e.version /\ e.what = "OK"
        BY <4>1, <1>1 DEF WriteOf
      <4> QED
        BY <4>2 DEF TrueReply, Refusal
    <3> QED
      BY <3>1, <3>2, <1>1
  <2>3. \A d \in Client : \A a \in Told(d)' : TrueReply(a)'
    BY <2>1, <2>2, <1>3
  <2> QED
    BY <2>3, TrueRepliesAfter
<1> QED
  BY <1>3, <1>4, <1>7, <1>8, <1>9, <1>10, <1>11, <1>13, <1>14 DEF AnswerInv

-----------------------------------------------------------------------------
(* Of which kind each step is *)

\* What Goto, Close and Finish leave alone.
LEMMA OneGoes ==
  ASSUME IInv, NEW c \in Client, NEW p, Goto(c, p)
  PROVE  at'[c] = p /\ \A d \in Client : d # c => at'[d] = at[d]
<1>1. at \in [Client -> Place]
  BY Split DEF ConnTypes
<1> QED
  BY <1>1 DEF Goto

LEMMA OneCloses ==
  ASSUME IInv, NEW c \in Client, Close(c) \/ UNCHANGED open
  PROVE  /\ open'[c] => open[c]
         /\ Close(c) => ~open'[c]
         /\ \A d \in Client : d # c => open'[d] = open[d]
<1>1. open \in [Client -> BOOLEAN]
  BY Split DEF ConnTypes
<1>2. CASE Close(c)
  <2>1. open'[c] = FALSE /\ \A d \in Client : d # c => open'[d] = open[d]
    BY <1>1, <1>2 DEF Close
  <2> QED
    BY <2>1
<1>3. CASE ~Close(c)
  BY <1>3
<1> QED
  BY <1>2, <1>3

LEMMA OneFinishes ==
  ASSUME IInv, NEW c \in Client, Finish(c), Close(c) \/ UNCHANGED open
  PROVE  /\ Others(c) /\ at'[c] = "reading" /\ num'[c] = 0
         /\ open'[c] => open[c]
<1>1. cmd \in [Client -> Request \cup {NoCmd}] /\ num \in [Client -> 0..calls]
  BY Split DEF ConnTypes
<1>2. at'[c] = "reading" /\ \A d \in Client : d # c => at'[d] = at[d]
  BY OneGoes DEF Finish
<1>3. /\ num'[c] = 0
      /\ \A d \in Client : d # c => num'[d] = num[d] /\ cmd'[d] = cmd[d]
  BY <1>1 DEF Finish
<1>4. (open'[c] => open[c]) /\ \A d \in Client : d # c => open'[d] = open[d]
  BY OneCloses
<1> QED
  BY <1>2, <1>3, <1>4 DEF Others

LEMMA OneGoesOn ==
  ASSUME IInv, NEW c \in Client, NEW p, Goto(c, p), UNCHANGED <<cmd, num>>,
         \A d \in Client : d # c => open'[d] = open[d]
  PROVE  Others(c) /\ at'[c] = p
  BY OneGoes DEF Others

\* A command that is worked on has one of the names of commands.
LEMMA OpKnown ==
  ASSUME IInv, NEW c \in Client, at[c] \notin Resting
  PROVE  cmd[c].op \in {"write", "cas", "read", "delete", "short", "other"}
<1>1. at[c] \in Place /\ BusyWith(at[c], cmd[c])
  BY Split DEF ConnTypes, Busy
<1>2. cmd[c] \in Request
  BY <1>1 DEF Place, Resting, BusyWith
<1> QED
  BY <1>2, RequestAssumption DEF Line

\* An answer to the command of c is a reply.
LEMMA ReplyMade ==
  ASSUME IInv, Numbering, NEW c \in Client, at[c] \notin Resting,
         NEW what \in Refusal \cup {"OK", "CONTENTS"},
         NEW version \in Nat, NEW content \in Nat,
         AnswerTo(c, num[c], cmd[c].op, what, version, content)
  PROVE  \E e \in Reply :
           /\ Adds(c, e) /\ e.n = num[c] /\ e.op = cmd[c].op /\ e.what = what
           /\ e.version = version /\ e.content = content
<1>1. num[c] \in Nat \ {0}
  <2>1. num[c] \in 0..calls /\ calls \in Nat /\ num[c] # 0
    BY ConnFacts DEF Numbering
  <2> QED
    BY <2>1
<1> DEFINE e == [n |-> num[c], op |-> cmd[c].op, what |-> what, version |-> version,
                 content |-> content]
<1>2. e \in Reply
  BY <1>1, OpKnown DEF Reply, Refusal
<1>3. Adds(c, e)
  BY DEF AnswerTo, Adds
<1> QED
  BY <1>2, <1>3

LEMMA RefusalMade ==
  ASSUME IInv, Numbering, NEW c \in Client, at[c] \notin Resting,
         NEW what \in Refusal, Refuse(c, what)
  PROVE  \E e \in Reply :
           Adds(c, e) /\ e.n = num[c] /\ e.op = cmd[c].op /\ e.what = what
  BY ReplyMade DEF Refuse, Answer

LEMMA RefusedFinish ==
  ASSUME IInv, Numbering, NEW c \in Client, at[c] \notin Resting \cup Refusing,
         cmd[c].op = "write" => at[c] = "locking",
         NEW what \in Refusal, Refuse(c, what), Finish(c),
         UNCHANGED <<open, calls, timeouts, writes>>
  PROVE  FinishedStep(c)
<1>1. PICK e \in Reply : Adds(c, e) /\ e.n = num[c] /\ e.op = cmd[c].op /\ e.what = what
  BY RefusalMade
<1>2. PlainReply(e)
  BY <1>1 DEF PlainReply, Refusal
<1> QED
  BY <1>1, <1>2, OneFinishes DEF FinishedStep

LEMMA ConnectionAnswers ==
  ASSUME IInv, NEW c \in Client, serverMain(c) \/ HangUp(c) \/ TimeOutClose(c)
  PROVE  SilentStep(c)
<1>1. open \in [Client -> BOOLEAN]
  BY Split DEF ConnTypes
<1>2. CASE serverMain(c)
  <2>1. \A d \in Client : d # c => open'[d] = open[d]
    BY <1>1, <1>2 DEF serverMain
  <2>2. Others(c) /\ at'[c] = "reading"
    BY <1>2, <2>1, OneGoesOn DEF serverMain
  <2> QED
    BY <1>2, <2>2 DEF SilentStep, serverMain, shared, Resting, Receiving
<1>3. CASE HangUp(c)
  <2>1. ~open'[c] /\ \A d \in Client : d # c => open'[d] = open[d]
    BY <1>3, OneCloses DEF HangUp
  <2>2. Others(c) /\ at'[c] = "ended"
    BY <1>3, <2>1, OneGoesOn DEF HangUp
  <2> QED
    BY <1>3, <2>1, <2>2 DEF SilentStep, HangUp, shared, Resting, Receiving
<1>4. CASE TimeOutClose(c)
  <2>1. ~open'[c] /\ \A d \in Client : d # c => open'[d] = open[d]
    BY <1>4, OneCloses DEF TimeOutClose
  <2> QED
    BY <1>4, <2>1 DEF SilentStep, TimeOutClose, shared, Others
<1> QED
  BY <1>2, <1>3, <1>4

\* Whose line is refused, whose ends the process, and whose command is begun.
LEMMA LineAnswers ==
  ASSUME IInv, Numbering, NEW c \in Client, NEW r \in Request,
         ErrorInvalidCmd(c, r) \/ StartContents(c, r) \/ StartPlain(c, r) \/ Panic(c, r)
  PROVE  LineStep(c)
<1> DEFINE e == [n |-> calls + 1, op |-> r.op, what |-> "ERR_CMD_ERR", version |-> 0,
                 content |-> 0]
<1>1. /\ calls \in Nat /\ at \in [Client -> Place] /\ num \in [Client -> 0..calls]
      /\ cmd \in [Client -> Request \cup {NoCmd}]
  BY Split DEF ConnTypes
<1>2. /\ at[c] = "reading" /\ calls' = calls + 1 /\ num[c] = 0
      /\ UNCHANGED writes /\ (Close(c) \/ UNCHANGED open)
  BY DEF ErrorInvalidCmd, StartContents, StartPlain, Panic, ReadLine, shared, Numbering,
         Resting
<1>3. /\ open'[c] => open[c]
      /\ \A d \in Client : d # c => open'[d] = open[d]
  BY <1>2, OneCloses
<1>4. e \in Reply /\ e.n = calls + 1 /\ e.what = "ERR_CMD_ERR" /\ e.op = r.op
  BY <1>1, RequestAssumption DEF Reply, Line
<1>5. RefuseLine(c, r) \/ UNCHANGED answers
  BY DEF ErrorInvalidCmd, StartContents, StartPlain, Panic
<1>6. Adds(c, e)
  BY <1>2, <1>5 DEF RefuseLine, AnswerTo, Adds
<1> HIDE DEF e
<1>7. CASE UNCHANGED <<at, cmd, num, timeouts>>
  BY <1>2, <1>3, <1>4, <1>6, <1>7 DEF LineStep, Others
<1>8. ASSUME NEW p \in {"contents", "locking"}, Begin(c, r, p),
             \/ UNCHANGED timeouts
             \/ timeouts' = timeouts \cup {Timeout(c, calls', r.op)} /\ p = "contents",
             UNCHANGED answers \/ (Close(c) /\ r.numBytes = Bad)
      PROVE  LineStep(c)
  <2>1. /\ at'[c] = p /\ num'[c] = calls + 1 /\ cmd'[c] = r
        /\ \A d \in Client : d # c =>
             at'[d] = at[d] /\ num'[d] = num[d] /\ cmd'[d] = cmd[d]
    BY <1>1, <1>2, <1>8 DEF Begin, Goto
  <2>2. Others(c)
    BY <1>3, <2>1 DEF Others
  <2>3. \/ UNCHANGED timeouts
        \/ /\ timeouts' = timeouts \cup {Timeout(c, calls + 1, cmd'[c].op)}
           /\ at'[c] = "contents"
    BY <1>2, <1>8, <2>1
  <2>4. \/ UNCHANGED answers \/ num'[c] = 0
        \/ ~open'[c] /\ cmd'[c].numBytes = Bad /\ e.op = cmd'[c].op
    BY <1>4, <1>8, <2>1, OneCloses
  <2>5. at'[c] \notin Resting /\ at'[c] # "new"
    BY <1>8, <2>1 DEF Resting
  <2> QED
    BY <1>2, <1>3, <1>4, <1>6, <2>1, <2>2, <2>3, <2>4, <2>5 DEF LineStep
<1>9. CASE ErrorInvalidCmd(c, r) \/ Panic(c, r)
  BY <1>7, <1>9 DEF ErrorInvalidCmd, Panic
<1>10. CASE StartPlain(c, r)
  BY <1>8, <1>10 DEF StartPlain
<1>11. CASE StartContents(c, r)
  <2>1. CASE UNCHANGED <<at, cmd, num, timeouts>>
    BY <1>7, <2>1
  <2>2. CASE /\ Begin(c, r, "contents")
             /\ timeouts' = timeouts \cup {Timeout(c, calls', r.op)}
             /\ ~(r.numBytes = Bad \/ (r.op = "write" /\ r.expTime = Bad))
    <3>1. UNCHANGED answers
      BY <1>11, <2>2 DEF StartContents
    <3> QED
      BY <1>8, <2>2, <3>1
  <2>3. CASE /\ Begin(c, r, "contents")
             /\ timeouts' = timeouts \cup {Timeout(c, calls', r.op)}
             /\ r.op = "write" /\ r.expTime # Bad
    <3>1. UNCHANGED answers \/ (Close(c) /\ r.numBytes = Bad)
      BY <1>11, <2>3 DEF StartContents
    <3> QED
      BY <1>8, <2>3, <3>1
  <2> QED
    BY <1>11, <2>1, <2>2, <2>3 DEF StartContents
<1> QED
  BY <1>9, <1>10, <1>11

\* The contents of a command are lost, or come, or its version is no number.
LEMMA ContentsAnswers ==
  ASSUME IInv, Numbering, NEW c \in Client,
         \/ LoseContents(c) \/ LoseClose(c) \/ RefuseVersion(c) \/ VersionClose(c)
         \/ ReadContents(c)
  PROVE  SilentStep(c) \/ RefusedStepOf(c) \/ FinishedStep(c) \/ QuitStep(c)
<1>1. CASE LoseContents(c) \/ RefuseVersion(c)
  <2>1. /\ at[c] = "contents" /\ Refuse(c, "ERR_CMD_ERR")
        /\ UNCHANGED <<calls, writes, cmd, num, timeouts, open>>
        /\ \/ Goto(c, "losing")
           \/ Goto(c, "closing") /\ cmd[c].op = "cas" /\ cmd[c].version = Bad
    BY <1>1 DEF LoseContents, RefuseVersion, shared
  <2>2. at[c] \notin Resting /\ "ERR_CMD_ERR" \in Refusal
    BY <2>1 DEF Resting, Refusal
  <2>3. \E e \in Reply :
          Adds(c, e) /\ e.n = num[c] /\ e.op = cmd[c].op /\ e.what = "ERR_CMD_ERR"
    BY <2>1, <2>2, RefusalMade
  <2>4. /\ Others(c)
        /\ \/ at'[c] = "losing"
           \/ at'[c] = "closing" /\ cmd[c].op = "cas" /\ cmd[c].version = Bad
    BY <2>1, OneGoesOn
  <2> QED
    BY <2>1, <2>3, <2>4 DEF RefusedStepOf
<1>2. CASE LoseClose(c)
  <2>1. /\ at[c] = "losing" /\ Close(c) /\ Finish(c)
        /\ UNCHANGED <<calls, timeouts, writes, answers>>
    BY <1>2 DEF LoseClose, shared
  <2> QED
    BY <2>1, OneFinishes DEF QuitStep, Resting
<1>3. CASE VersionClose(c)
  <2>1. /\ at[c] = "closing" /\ Close(c)
        /\ UNCHANGED <<calls, timeouts, writes, answers>>
    BY <1>3 DEF VersionClose, shared
  <2>2. CASE Finish(c)
    BY <2>1, <2>2, OneFinishes DEF QuitStep, Resting
  <2>3. CASE Goto(c, "locking") /\ UNCHANGED <<cmd, num>>
    <3>1. ~open'[c] /\ \A d \in Client : d # c => open'[d] = open[d]
      BY <2>1, OneCloses
    <3>2. Others(c) /\ at'[c] = "locking"
      BY <2>3, <3>1, OneGoesOn
    <3> QED
      BY <2>1, <2>3, <3>1, <3>2 DEF SilentStep, Resting, Receiving
  <2> QED
    BY <1>3, <2>2, <2>3 DEF VersionClose
<1>4. CASE ReadContents(c)
  <2>1. /\ at[c] = "contents" /\ UNCHANGED <<calls, timeouts, writes, open>>
        /\ at[c] \notin Resting \cup Refusing /\ "ERR_CMD_ERR" \in Refusal
    BY <1>4 DEF ReadContents, shared, Resting, Refusing, Refusal
  <2>2. CASE Refuse(c, "ERR_CMD_ERR") /\ Finish(c) /\ cmd[c].op = "cas"
    BY <2>1, <2>2, RefusedFinish
  <2>3. ASSUME NEW p \in {"telling", "locking"}, Goto(c, p), UNCHANGED <<answers, cmd, num>>,
               cmd[c].op = "write" => p = "telling"
        PROVE  SilentStep(c)
    <3>1. Others(c) /\ at'[c] = p
      BY <2>1, <2>3, OneGoesOn
    <3> QED
      BY <2>1, <2>3, <3>1 DEF SilentStep, Resting, Receiving
  <2> QED
    BY <1>4, <2>2, <2>3 DEF ReadContents
<1> QED
  BY <1>1, <1>2, <1>3, <1>4

\* A write tells its timeout, the only one that its command has.
LEMMA HandOffAnswers ==
  ASSUME IInv, TimeoutsLeft, NEW c \in Client, HandOff(c)
  PROVE  SilentStep(c)
<1>1. /\ at[c] = "telling" /\ Own(c) \in timeouts /\ timeouts' = timeouts \ {Own(c)}
      /\ Goto(c, "locking") /\ UNCHANGED <<writes, cmd, num, open, answers, calls>>
  BY DEF HandOff, HandedOff, shared
<1>2. Others(c) /\ at'[c] = "locking"
  BY <1>1, OneGoesOn
<1>3. Own(c).client = c /\ Own(c).n = num[c]
  BY DEF Own, Timeout
<1>4. \A t \in timeouts' : ~(t.client = c /\ t.n = num[c])
  BY <1>1, <1>3 DEF TimeoutsLeft, TimeoutLeft
<1>5. \E t \in timeouts : t.client = c /\ t.n = num[c]
  BY <1>1, <1>3
<1> HIDE DEF Own
<1> QED
  BY <1>1, <1>2, <1>4, <1>5 DEF SilentStep, Resting

\* The time for some contents is over.
LEMMA TimeOutAnswers ==
  ASSUME IInv, NEW t \in timeouts, TimeOut(t)
  PROVE  TimedOutStep(t)
<1> DEFINE e == [n |-> t.n, op |-> t.op, what |-> "ERR_INTERNAL", version |-> 0,
                 content |-> 0]
<1>1. t.client \in Client /\ t.n \in Nat \ {0} /\ t.op \in {"write", "cas"}
  BY ConnFacts
<1>2. /\ UNCHANGED <<calls, writes, at, cmd, num, open>> /\ timeouts' = timeouts \ {t}
      /\ AnswerTo(t.client, t.n, t.op, "ERR_INTERNAL", 0, 0)
  BY DEF TimeOut, shared
<1>3. e \in Reply /\ e.n = t.n /\ e.op = t.op /\ e.what = "ERR_INTERNAL"
  BY <1>1 DEF Reply
<1>4. Adds(t.client, e)
  BY <1>2 DEF AnswerTo, Adds
<1> HIDE DEF e
<1> QED
  BY <1>2, <1>3, <1>4 DEF TimedOutStep

\* A command that is done: what it answers and what it has written.
LEMMA StoreAnswers ==
  ASSUME IInv, Numbering, NEW c \in Client, NEW v \in Nat, Store(c, v),
         Answer(c, "OK", v), Finish(c), UNCHANGED <<open, calls, timeouts>>,
         \/ cmd[c].op = "write" /\ at[c] = "locking"
         \/ cmd[c].op = "cas" /\ cmd[c].version # Bad /\ at[c] = "swapping"
  PROVE  FinishedStep(c)
<1>1. at[c] \notin Resting \cup Refusing
  BY DEF Resting, Refusing
<1>2. PICK e \in Reply :
        /\ Adds(c, e) /\ e.n = num[c] /\ e.op = cmd[c].op /\ e.what = "OK"
        /\ e.version = v
  BY <1>1, ReplyMade DEF Answer
<1>3. /\ writes' = writes \cup {Written(c, v)}
      /\ Written(c, v).by = num[c] /\ Written(c, v).cmd = cmd[c]
      /\ Written(c, v).version = v
  BY DEF Store, Written
<1>4. WriteOf(c, Written(c, v), e)
  BY <1>2, <1>3 DEF WriteOf
<1> QED
  BY <1>1, <1>2, <1>3, <1>4, OneFinishes DEF FinishedStep

LEMMA LockedAnswers ==
  ASSUME IInv, Numbering, NEW c \in Client,
         WriteFile(c) \/ CasTest(c) \/ CasSwap(c) \/ deleteFile(c)
  PROVE  SilentStep(c) \/ FinishedStep(c)
<1> DEFINE old == filemap[cmd[c].name]
<1>1. CASE WriteFile(c)
  <2> DEFINE v == IF old = Absent THEN FirstVersion ELSE old.version + 1
  <2>1. /\ CanLock(c) /\ cmd[c].op = "write" /\ Store(c, v) /\ Answer(c, "OK", v)
        /\ Finish(c) /\ UNCHANGED <<open, timeouts, calls>>
    BY <1>1 DEF WriteFile
  <2>2. v \in Nat /\ at[c] = "locking"
    BY <2>1, CanLockFacts DEF FirstVersion, FileType
  <2> HIDE DEF v
  <2> QED
    BY <2>1, <2>2, StoreAnswers
<1>2. CASE CasSwap(c)
  <2> DEFINE v == file[c].version + 1
  <2>1. /\ at[c] = "swapping" /\ Store(c, v) /\ Answer(c, "OK", v) /\ Finish(c)
        /\ UNCHANGED <<open, timeouts, calls>>
    BY <1>2 DEF CasSwap
  <2>2. file[c] # Absent /\ file[c].version = cmd[c].version
    BY <2>1, Split DEF Locking, SwapReady
  <2>3. file[c].version \in Nat /\ cmd[c].op = "cas"
    <3>1. BusyWith(at[c], cmd[c]) /\ file[c] \in FileType \cup {Absent}
      BY Split, Stays
    <3> QED
      BY <2>1, <2>2, <3>1 DEF BusyWith, FileType
  <2>4. cmd[c].version # Bad /\ v \in Nat
    BY <2>2, <2>3, NamesApart
  <2> HIDE DEF v
  <2> QED
    BY <2>1, <2>3, <2>4, StoreAnswers
<1>3. CASE CasTest(c)
  <2>1. /\ CanLock(c) /\ at[c] = "locking" /\ at[c] \notin Resting \cup Refusing
        /\ UNCHANGED <<open, timeouts, calls, writes>>
    BY <1>3 DEF CasTest, CanLock, Resting, Refusing
  <2>2. CASE Goto(c, "swapping") /\ UNCHANGED <<cmd, num, answers>>
    <3>1. Others(c) /\ at'[c] = "swapping"
      BY <2>1, <2>2, OneGoesOn
    <3> QED
      BY <2>1, <2>2, <3>1 DEF SilentStep, Resting, Receiving
  <2>3. CASE Refuse(c, "ERR_FILE_NOT_FOUND") /\ Finish(c)
    BY <2>1, <2>3, RefusedFinish DEF Refusal
  <2>4. CASE Alive(old) /\ Answer(c, "ERR_VERSION", old.version) /\ Finish(c)
    <3>1. old.version \in Nat
      BY <2>1, <2>4, CanLockFacts DEF Alive, FileType
    <3>2. PICK e \in Reply :
            Adds(c, e) /\ e.n = num[c] /\ e.op = cmd[c].op /\ e.what = "ERR_VERSION"
      BY <2>1, <2>4, <3>1, ReplyMade DEF Answer, Refusal
    <3>3. PlainReply(e)
      BY <3>2 DEF PlainReply
    <3> QED
      BY <2>1, <2>4, <3>2, <3>3, OneFinishes DEF FinishedStep
  <2> QED
    BY <1>3, <2>2, <2>3, <2>4 DEF CasTest
<1>4. CASE deleteFile(c)
  <2>1. /\ CanLock(c) /\ at[c] = "locking" /\ at[c] \notin Resting \cup Refusing /\ Finish(c)
        /\ UNCHANGED <<open, timeouts, calls, writes>>
    BY <1>4 DEF deleteFile, CanLock, Resting, Refusing
  <2>2. CASE Refuse(c, "ERR_FILE_NOT_FOUND")
    BY <2>1, <2>2, RefusedFinish DEF Refusal
  <2>3. CASE Answer(c, "OK", 0)
    <3>1. PICK e \in Reply :
            /\ Adds(c, e) /\ e.n = num[c] /\ e.op = cmd[c].op /\ e.what = "OK"
            /\ e.version = 0
      BY <2>1, <2>3, ReplyMade DEF Answer
    <3>2. PlainReply(e)
      BY <3>1 DEF PlainReply
    <3> QED
      BY <2>1, <3>1, <3>2, OneFinishes DEF FinishedStep
  <2> QED
    BY <1>4, <2>2, <2>3 DEF deleteFile
<1> QED
  BY <1>1, <1>2, <1>3, <1>4

\* What a read shows was written.
LEMMA ReadAnswers ==
  ASSUME IInv, Numbering, FilesWritten, NEW c \in Client, ReadCopy(c) \/ ReadAnswer(c)
  PROVE  SilentStep(c) \/ FinishedStep(c)
<1>1. CASE ReadCopy(c)
  <2>1. /\ at[c] = "locking" /\ Goto(c, "copied")
        /\ UNCHANGED <<writes, cmd, num, open, timeouts, answers, calls>>
    BY <1>1 DEF ReadCopy, CanLock, shared
  <2>2. Others(c) /\ at'[c] = "copied"
    BY <2>1, OneGoesOn
  <2> QED
    BY <2>1, <2>2 DEF SilentStep, Resting, Receiving
<1>2. CASE ReadAnswer(c)
  <2>0. BusyWith(at[c], cmd[c]) /\ at[c] = "copied"
    BY <1>2, Split, Stays DEF ReadAnswer
  <2>1. /\ at[c] \notin Resting \cup Refusing /\ Finish(c)
        /\ cmd[c].op # "write"
        /\ UNCHANGED <<writes, open, timeouts, calls>>
    BY <1>2, <2>0 DEF ReadAnswer, shared, Resting, Refusing, BusyWith
  <2>2. CASE Refuse(c, "ERR_FILE_NOT_FOUND")
    BY <2>1, <2>2, RefusedFinish DEF Refusal
  <2>3. CASE Alive(file[c]) /\ AnswerTo(c, num[c], cmd[c].op, "CONTENTS",
                                          file[c].version, file[c].content)
    <3>1. /\ file[c] \in FileType /\ WrittenAs(file[c])
          /\ file[c].version \in Nat /\ file[c].content \in Nat
      <4>1. file[c] \in FileType /\ WrittenAs(file[c])
        BY <2>3, Split DEF Alive, ConnTypes, FilesWritten
      <4> QED
        BY <4>1 DEF FileType
    <3>2. PICK e \in Reply :
            /\ Adds(c, e) /\ e.n = num[c] /\ e.op = cmd[c].op /\ e.what = "CONTENTS"
            /\ e.version = file[c].version /\ e.content = file[c].content
      BY <2>1, <2>3, <3>1, ReplyMade
    <3>3. PlainReply(e)
      BY <3>1, <3>2 DEF PlainReply, WrittenAs
    <3> QED
      BY <2>1, <3>2, <3>3, OneFinishes DEF FinishedStep
  <2> QED
    BY <1>2, <2>2, <2>3 DEF ReadAnswer, Copied
<1> QED
  BY <1>1, <1>2

-----------------------------------------------------------------------------
(* The files were written as they are *)

LEMMA FilesStay ==
  ASSUME FilesWritten, \A w \in writes : w \in writes',
         \A f \in Filename :
           \/ filemap'[f] = filemap[f] \/ filemap'[f] = Absent
           \/ \E w \in writes' : w.by = filemap'[f].content /\ w.version = filemap'[f].version,
         \A c \in Client :
           \/ file'[c] = file[c] \/ file'[c] = Absent
           \/ \E f \in Filename : file'[c] = filemap[f]
  PROVE  FilesWritten'
<1>1. ASSUME NEW f \in Filename, filemap'[f] # Absent
      PROVE  \E w \in writes' : w.by = filemap'[f].content /\ w.version = filemap'[f].version
  BY <1>1 DEF FilesWritten, WrittenAs
<1>2. ASSUME NEW c \in Client, file'[c] # Absent
      PROVE  \E w \in writes' : w.by = file'[c].content /\ w.version = file'[c].version
  BY <1>2 DEF FilesWritten, WrittenAs
<1> QED
  BY <1>1, <1>2 DEF FilesWritten, WrittenAs

\* A file that is written, or swapped, has what its command wrote.
LEMMA FilesStore ==
  ASSUME IInv, FilesWritten, NEW c \in Client, NEW v, Store(c, v), Finish(c)
  PROVE  FilesWritten'
<1>1. /\ filemap \in [Filename -> FileType \cup {Absent}]
      /\ file \in [Client -> FileType \cup {Absent}]
  BY Split DEF MapTypes, ConnTypes
<1>2. /\ filemap' = [filemap EXCEPT ![cmd[c].name] = NewFile(c, v)]
      /\ writes' = writes \cup {Written(c, v)}
  BY DEF Store, NewFile, Written
<1>3. /\ Written(c, v).by = NewFile(c, v).content
      /\ Written(c, v).version = NewFile(c, v).version
  BY DEF Written, NewFile
<1>4. \A f \in Filename : filemap'[f] = filemap[f] \/ filemap'[f] = NewFile(c, v)
  BY <1>1, <1>2
<1>5. \A f \in Filename :
        \/ filemap'[f] = filemap[f]
        \/ \E w \in writes' : w.by = filemap'[f].content /\ w.version = filemap'[f].version
  BY <1>2, <1>3, <1>4
<1>6. \A d \in Client : file'[d] = file[d] \/ file'[d] = Absent
  BY <1>1 DEF Finish
<1>7. \A w \in writes : w \in writes'
  BY <1>2
<1> QED
  BY <1>5, <1>6, <1>7, FilesStay

\* The other steps write nothing: a file may go, or be copied.
LEMMA FilesKept ==
  ASSUME IInv, FilesWritten, NEW c \in Client, UNCHANGED writes,
         \/ UNCHANGED filemap
         \/ \E f \in Filename : filemap' = [filemap EXCEPT ![f] = Absent],
         \/ UNCHANGED file
         \/ file' = [file EXCEPT ![c] = Absent]
         \/ \E f \in Filename : file' = [file EXCEPT ![c] = filemap[f]]
  PROVE  FilesWritten'
<1>1. /\ filemap \in [Filename -> FileType \cup {Absent}]
      /\ file \in [Client -> FileType \cup {Absent}]
  BY Split DEF MapTypes, ConnTypes
<1>2. \A f \in Filename : filemap'[f] = filemap[f] \/ filemap'[f] = Absent
  BY <1>1
<1>3. \A d \in Client : \/ file'[d] = file[d] \/ file'[d] = Absent
                        \/ \E f \in Filename : file'[d] = filemap[f]
  BY <1>1
<1> QED
  BY <1>2, <1>3, FilesStay

LEMMA FilesNext ==
  ASSUME IInv, FilesWritten, [Next]_vars
  PROVE  FilesWritten'
<1>1. CASE UNCHANGED <<filemap, file, writes>>
  BY <1>1, FilesStay
<1>2. CASE Timer \/ (\E t \in timeouts : TimeOut(t)) \/ UNCHANGED vars
  BY <1>1, <1>2 DEF Timer, TimeOut, vars, conns, shared
<1>3. ASSUME NEW c \in Client,
             \/ serverMain(c) \/ HangUp(c) \/ TimeOutClose(c)
             \/ \E r \in Request :
                  \/ ErrorInvalidCmd(c, r) \/ StartContents(c, r) \/ StartPlain(c, r)
                  \/ Panic(c, r)
             \/ LoseContents(c) \/ RefuseVersion(c) \/ HandOff(c)
      PROVE  FilesWritten'
  BY <1>1, <1>3 DEF serverMain, HangUp, TimeOutClose, ErrorInvalidCmd, StartContents,
                    StartPlain, Panic, LoseContents, RefuseVersion, HandOff, shared
<1>4. ASSUME NEW c \in Client,
             LoseClose(c) \/ VersionClose(c) \/ ReadContents(c) \/ ReadAnswer(c)
      PROVE  FilesWritten'
  <2>1. /\ UNCHANGED <<filemap, writes>>
        /\ UNCHANGED file \/ file' = [file EXCEPT ![c] = Absent]
    BY <1>4 DEF LoseClose, VersionClose, ReadContents, ReadAnswer, shared, Finish
  <2> QED
    BY <2>1, FilesKept
<1>5. ASSUME NEW c \in Client, WriteFile(c) \/ CasSwap(c)
      PROVE  FilesWritten'
  BY <1>5, FilesStore DEF WriteFile, CasSwap
<1>6. ASSUME NEW c \in Client, CasTest(c) \/ deleteFile(c) \/ ReadCopy(c)
      PROVE  FilesWritten'
  <2>1. CanLock(c) /\ UNCHANGED writes
    BY <1>6 DEF CasTest, deleteFile, ReadCopy, shared
  <2>2. cmd[c].name \in Filename
    BY <2>1, CanLockFacts
  <2>3. /\ UNCHANGED filemap \/ filemap' = [filemap EXCEPT ![cmd[c].name] = Absent]
        /\ \/ file' = [file EXCEPT ![c] = Absent]
           \/ file' = [file EXCEPT ![c] = filemap[cmd[c].name]]
    BY <1>6 DEF CasTest, deleteFile, ReadCopy, shared, Finish
  <2> QED
    BY <2>1, <2>2, <2>3, FilesKept
<1> QED
  BY <1>2, <1>3, <1>4, <1>5, <1>6 DEF Next, Handle

-----------------------------------------------------------------------------

LEMMA AnswerNext ==
  ASSUME IInv, IInv', AnswerInv, FilesWritten, [Next]_vars
  PROVE  AnswerInv'
<1>0. Numbering
  BY DEF AnswerInv
<1>1. CASE UNCHANGED <<calls, writes, answers, at, cmd, num, open, timeouts>>
  BY <1>1, AnswerStays
<1>2. CASE Timer \/ UNCHANGED vars
  BY <1>1, <1>2 DEF Timer, vars, conns, shared
<1>3. ASSUME NEW c \in Client,
             \/ SilentStep(c) \/ LineStep(c) \/ RefusedStepOf(c) \/ FinishedStep(c)
             \/ QuitStep(c)
      PROVE  AnswerInv'
  BY <1>3, AnswerSilent, AnswerLine, AnswerRefused, AnswerFinished, AnswerQuit
<1>4. ASSUME NEW c \in Client, serverMain(c) \/ HangUp(c) \/ TimeOutClose(c)
      PROVE  AnswerInv'
  BY <1>3, <1>4, ConnectionAnswers
<1>5. ASSUME NEW c \in Client, NEW r \in Request,
             ErrorInvalidCmd(c, r) \/ StartContents(c, r) \/ StartPlain(c, r) \/ Panic(c, r)
      PROVE  AnswerInv'
  BY <1>0, <1>3, <1>5, LineAnswers
<1>6. ASSUME NEW c \in Client,
             \/ LoseContents(c) \/ LoseClose(c) \/ RefuseVersion(c) \/ VersionClose(c)
             \/ ReadContents(c)
      PROVE  AnswerInv'
  BY <1>0, <1>3, <1>6, ContentsAnswers
<1>7. ASSUME NEW c \in Client, HandOff(c)
      PROVE  AnswerInv'
  BY <1>3, <1>7, HandOffAnswers DEF AnswerInv
<1>8. ASSUME NEW c \in Client,
             \/ WriteFile(c) \/ CasTest(c) \/ CasSwap(c) \/ deleteFile(c)
             \/ ReadCopy(c) \/ ReadAnswer(c)
      PROVE  AnswerInv'
  BY <1>0, <1>3, <1>8, LockedAnswers, ReadAnswers
<1>9. ASSUME NEW t \in timeouts, TimeOut(t)
      PROVE  AnswerInv'
  BY <1>9, TimeOutAnswers, AnswerTimedOut
<1> QED
  BY <1>2, <1>4, <1>5, <1>6, <1>7, <1>8, <1>9 DEF Next, Handle

LEMMA AnswerInit == Init => AnswerInv /\ FilesWritten
<1> SUFFICES ASSUME Init PROVE AnswerInv /\ FilesWritten
  OBVIOUS
<1>1. /\ answers = [c \in Client |-> <<>>] /\ writes = {} /\ timeouts = {} /\ calls = 0
      /\ num = [c \in Client |-> 0] /\ at = [c \in Client |-> "new"]
      /\ open = [c \in Client |-> FALSE]
  BY DEF Init
<1>2. \A c \in Client : answers[c] = <<>> /\ 1..Len(answers[c]) = {} /\ Told(c) = {}
  <2>1. ASSUME NEW c \in Client PROVE answers[c] = <<>>
    BY <1>1
  <2>2. 1..Len(<<>>) = {}
    BY EmptySeq
  <2> QED
    BY <2>1, <2>2 DEF Told
<1>3. <<>> \in Seq(Reply)
  BY EmptySeq
<1>4. Replies
  BY <1>1, <1>3 DEF Replies
<1>5. Numbering /\ WritesDone /\ TimeoutsLeft
  BY <1>1 DEF Numbering, WritesDone, TimeoutsLeft, Resting
<1>6. NumbersApart
  BY <1>1, <1>2 DEF NumbersApart, Uses, Waiting
<1>7. NewUntold /\ AnsweredStill
  BY <1>1, <1>2 DEF NewUntold, AnsweredStill
<1>8. OneAnswer
  BY <1>2 DEF OneAnswer
<1>9. AnswersTrue
  BY <1>2, TrueReplies
<1>10. FilesWritten
  BY DEF Init, FilesWritten
<1> QED
  BY <1>4, <1>5, <1>6, <1>7, <1>8, <1>9, <1>10 DEF AnswerInv

\* What was told is true of the writes, whatever closed, refused and late
\* commands the connections still work on.
THEOREM AnswersHold == Spec => [](AnswerInv /\ FilesWritten)
<1>1. Init => AnswerInv /\ FilesWritten
  BY AnswerInit
<1>2. IInv /\ IInv' /\ AnswerInv /\ FilesWritten /\ [Next]_vars => (AnswerInv /\ FilesWritten)'
  BY AnswerNext, FilesNext
<1> QED
  BY <1>1, <1>2, Invariant, PTL DEF Spec

\* OK names a version its own command made, CONTENTS shows what was written as
\* that version, and a command that was refused has written nothing.
THEOREM RepliesTrue == Spec => []AnswersTrue
<1>1. AnswerInv => AnswersTrue
  BY DEF AnswerInv
<1> QED
  BY <1>1, AnswersHold, PTL

\* A command is answered once. Two exceptions, with one ERR_INTERNAL besides the
\* handler's own answer, in either order: a cas, whose timeout nobody tells that
\* the contents have come, and a write whose contents were refused. The timeout
\* answers before it closes the connection, so that it stops no other answer.
THEOREM AnswersOnce == Spec => []OneAnswer
<1>1. AnswerInv => OneAnswer
  BY DEF AnswerInv
<1> QED
  BY <1>1, AnswersHold, PTL
=============================================================================
