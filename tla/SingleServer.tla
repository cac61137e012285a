---------------------------- MODULE SingleServer ----------------------------
(***************************************************************************)
(* The stand-alone file server (src/assign1/server.go): one goroutine for  *)
(* each connection, a map of files under a lock, a goroutine that counts   *)
(* seconds, and for each write and cas one that gives up on its contents.  *)
(*                                                                         *)
(* A file never goes by itself: its time is looked at when it is read or   *)
(* swapped. Lines and contents are abstract: a command carries which of    *)
(* its fields are not numbers (Bad), contents are told by the command that *)
(* wrote them. A connection that was closed may still give the commands    *)
(* that its reader had buffered; answers on it are lost. Answering and     *)
(* closing are two steps of who does both, where the other goroutine of    *)
(* the command can come in between.                                        *)
(***************************************************************************)
EXTENDS Integers, Sequences

CONSTANTS Client,    \* connections
          Filename,
          Request,   \* the lines clients send
          NIL,       \* no expiry time
          Bad,       \* not a number
          Absent,    \* no entry in filemap
          Nobody,    \* the lock is free
          NoCmd      \* no command is worked on

\* What a line says: "short" has too few or too many fields for its command,
\* "other" is no command.
Line == [op : {"write", "cas", "read", "delete", "short", "other"},
         name : Filename, version : Int \cup {Bad}, numBytes : Int \cup {Bad},
         expTime : Int \cup {NIL, Bad}]

ASSUME RequestAssumption == Request \subseteq Line

ASSUME NamesApart ==
  /\ NIL \notin Int /\ Bad \notin Int \cup {NIL}
  /\ Nobody \notin Client /\ NoCmd \notin Line
  /\ Absent \notin [version : Nat, expTime : Int \cup {NIL}, content : Nat]

VARIABLES
  running,  \* whether the process has not ended
  filemap, tick, mapLock,
  at,       \* where the goroutine of each connection is
  cmd, num,  \* the command it works on, and its number among all commands
  file,     \* the file it copied out of the map
  open,     \* whether the connection is open
  timeouts, \* the goroutines that wait for contents to come or time to pass
  expired,  \* the connections that one of them is about to close
  answers,  \* what was written to each connection
  calls,    \* history: how many commands were read
  deletes,  \* history: how often each file was deleted
  writes    \* history: every write of a file

shared == <<filemap, mapLock, deletes, writes>>
conns == <<at, cmd, num, file, open, timeouts, expired, answers, calls>>
vars == <<shared, tick, conns, running>>

-----------------------------------------------------------------------------
(* Slips: what single definitions below could say by mistake. Each is put in *)
(* the place of its definition to see that the properties notice.            *)

SlipFirstVersion == 0

SlipHandedOff(c) == timeouts

SlipLockFor(c) == mapLock

SlipUnlocked(c) == c

SlipCopied(c) ==
  IF filemap[cmd[c].name] = Absent THEN file[c]
  ELSE [file[c] EXCEPT !.version = filemap[cmd[c].name].version]

-----------------------------------------------------------------------------

FileType == [version : Nat \ {0}, expTime : Int \cup {NIL}, content : Nat]

Init ==
  /\ running = TRUE
  /\ filemap = [f \in Filename |-> Absent]
  /\ tick = 0
  /\ mapLock = Nobody
  /\ at = [c \in Client |-> "new"]
  /\ cmd = [c \in Client |-> NoCmd]
  /\ num = [c \in Client |-> 0]
  /\ file = [c \in Client |-> Absent]
  /\ open = [c \in Client |-> FALSE]
  /\ timeouts = {}
  /\ expired = {}
  /\ answers = [c \in Client |-> <<>>]
  /\ calls = 0
  /\ deletes = [f \in Filename |-> 0]
  /\ writes = {}

\* Connect.Write on the connection of c, for its command or the given one.
AnswerTo(c, n, op, what, version, content) ==
  answers' = IF open[c]
    THEN [answers EXCEPT ![c] = Append(@,
            [n |-> n, op |-> op, what |-> what, version |-> version,
             content |-> content])]
    ELSE answers

Answer(c, what, version) == AnswerTo(c, num[c], cmd[c].op, what, version, 0)

Refuse(c, what) == Answer(c, what, 0)

Close(c) == open' = [open EXCEPT ![c] = FALSE]

Goto(c, place) == at' = [at EXCEPT ![c] = place]

\* The goroutine that limits the time for the contents of a command.
Timeout(c, n, op) == [client |-> c, n |-> n, op |-> op]

-----------------------------------------------------------------------------
(* Connections *)

Timer ==
  /\ tick' = tick + 1
  /\ UNCHANGED <<shared, conns, running>>

serverMain(c) ==
  /\ at[c] = "new"
  /\ Goto(c, "reading")
  /\ open' = [open EXCEPT ![c] = TRUE]
  /\ UNCHANGED <<shared, tick, cmd, num, file, timeouts, expired, answers, calls, running>>

\* The client goes, or the connection was closed and nothing is left to read.
HangUp(c) ==
  /\ at[c] = "reading"
  /\ Goto(c, "ended")
  /\ Close(c)
  /\ UNCHANGED <<shared, tick, cmd, num, file, timeouts, expired, answers, calls, running>>

\* handleThisClient reads a line: one more command.
ReadLine(c) == at[c] = "reading" /\ calls' = calls + 1

RefuseLine(c, r) == AnswerTo(c, calls', r.op, "ERR_CMD_ERR", 0, 0)

\* Its command r is worked on.
Begin(c, r, place) ==
  /\ Goto(c, place)
  /\ cmd' = [cmd EXCEPT ![c] = r]
  /\ num' = [num EXCEPT ![c] = calls']

\* The handler of its command returns.
Finish(c) ==
  /\ Goto(c, "reading")
  /\ cmd' = [cmd EXCEPT ![c] = NoCmd]
  /\ num' = [num EXCEPT ![c] = 0]
  /\ file' = [file EXCEPT ![c] = Absent]

\* IsValidCmd, for what is no command or has a field too few or too many.
ErrorInvalidCmd(c, r) ==
  /\ ReadLine(c) /\ r.op \in {"short", "other"}
  /\ RefuseLine(c, r)
  /\ IF r.op = "other" THEN Close(c) ELSE UNCHANGED open
  /\ UNCHANGED <<shared, tick, at, cmd, num, file, timeouts, expired, running>>

\* A command that makes a buffer of less than no bytes. (The expiry time of a
\* write is looked at before, and that of a cas after.)
NegativeBuffer(r) ==
  /\ r.numBytes # Bad /\ r.numBytes < 0
  /\ r.op = "cas" \/ (r.op = "write" /\ r.expTime # Bad)

\* make panics, nobody recovers: the process ends, with every goroutine.
Panic(c, r) ==
  /\ ReadLine(c) /\ NegativeBuffer(r)
  /\ running' = FALSE
  /\ UNCHANGED <<shared, tick, at, cmd, num, file, open, timeouts, expired, answers>>

\* A write or cas starts to read its contents, with a goroutine to limit the
\* time. A write whose numbytes is no number is refused and goes on with none.
\* (It answers and closes in one step: no timeout of its own runs yet.)
StartContents(c, r) ==
  LET refused == r.numBytes = Bad \/ (r.op = "write" /\ r.expTime = Bad)
      goesOn == r.op = "write" /\ r.expTime # Bad
  IN /\ ReadLine(c) /\ r.op \in {"write", "cas"} /\ ~NegativeBuffer(r)
     /\ IF refused THEN RefuseLine(c, r) ELSE UNCHANGED answers
     /\ IF r.numBytes = Bad THEN Close(c) ELSE UNCHANGED open
     /\ \/ /\ ~refused \/ goesOn
           /\ Begin(c, r, "contents")
           /\ timeouts' = timeouts \cup {Timeout(c, calls', r.op)}
        \/ /\ refused /\ ~goesOn
           /\ UNCHANGED <<at, cmd, num, timeouts>>
     /\ UNCHANGED <<shared, tick, file, expired, running>>

\* Read and delete need no more than the line.
StartPlain(c, r) ==
  /\ ReadLine(c) /\ r.op \in {"read", "delete"}
  /\ Begin(c, r, "locking")
  /\ UNCHANGED <<shared, tick, file, open, timeouts, expired, answers, running>>

\* The time for the contents of a command is over: its timeout says so ...
TimeOut(t) ==
  /\ timeouts' = timeouts \ {t}
  /\ AnswerTo(t.client, t.n, t.op, "ERR_INTERNAL", 0, 0)
  /\ expired' = expired \cup {t.client}
  /\ UNCHANGED <<shared, tick, at, cmd, num, file, open, calls, running>>

\* ... and closes the connection. The handler may have answered in between.
TimeOutClose(c) ==
  /\ c \in expired
  /\ expired' = expired \ {c}
  /\ Close(c)
  /\ UNCHANGED <<shared, tick, at, cmd, num, file, timeouts, answers, calls, running>>

\* The contents do not come, or do not end where they should: the handler says
\* so ...
LoseContents(c) ==
  /\ at[c] = "contents"
  /\ Refuse(c, "ERR_CMD_ERR")
  /\ Goto(c, "losing")
  /\ UNCHANGED <<shared, tick, cmd, num, file, open, timeouts, expired, calls, running>>

\* ... closes the connection, and returns.
LoseClose(c) ==
  /\ at[c] = "losing"
  /\ Close(c)
  /\ Finish(c)
  /\ UNCHANGED <<shared, tick, timeouts, expired, answers, calls, running>>

\* A cas whose contents have come looks at its version ...
RefuseVersion(c) ==
  /\ at[c] = "contents" /\ cmd[c].op = "cas" /\ cmd[c].version = Bad
  /\ Refuse(c, "ERR_CMD_ERR")
  /\ Goto(c, "closing")
  /\ UNCHANGED <<shared, tick, cmd, num, file, open, timeouts, expired, calls, running>>

\* ... closes the connection if it is no number, and goes on all the same, to
\* its expiry time (of which nobody is told on a closed connection).
VersionClose(c) ==
  /\ at[c] = "closing"
  /\ Close(c)
  /\ IF cmd[c].expTime = Bad THEN Finish(c)
       ELSE Goto(c, "locking") /\ UNCHANGED <<cmd, num, file>>
  /\ UNCHANGED <<shared, tick, timeouts, expired, answers, calls, running>>

\* The contents have come. A write goes to tell its timeout; cas does not, and
\* looks at its expiry time.
ReadContents(c) ==
  /\ at[c] = "contents"
  /\ LET r == cmd[c] IN
       \/ /\ r.op = "write" /\ Goto(c, "telling")
          /\ UNCHANGED <<answers, cmd, num, file>>
       \/ /\ r.op = "cas" /\ r.version # Bad /\ r.expTime # Bad /\ Goto(c, "locking")
          /\ UNCHANGED <<answers, cmd, num, file>>
       \/ /\ r.op = "cas" /\ r.version # Bad /\ r.expTime = Bad
          /\ Refuse(c, "ERR_CMD_ERR") /\ Finish(c)
  /\ UNCHANGED <<shared, tick, open, timeouts, expired, calls, running>>

\* The timeout of the command of c.
Own(c) == Timeout(c, num[c], cmd[c].op)

\* The goroutines left when c has told the one of its command.
HandedOff(c) == timeouts \ {Own(c)}

\* c <- true: the write waits until its timeout takes it, for ever if the
\* timeout has ended.
HandOff(c) ==
  /\ at[c] = "telling" /\ Own(c) \in timeouts
  /\ timeouts' = HandedOff(c)
  /\ Goto(c, "locking")
  /\ UNCHANGED <<shared, tick, cmd, num, file, open, expired, answers, calls, running>>

-----------------------------------------------------------------------------
(* The map of files *)

\* A file that can be read or swapped.
Alive(f) == f # Absent /\ ~(f.expTime # NIL /\ f.expTime < tick)

\* c has the lock for itself, or wants it and it is free.
CanLock(c) == at[c] = "locking" /\ mapLock = Nobody

\* The file of the command of c becomes one of version v.
Store(c, v) ==
  LET r == cmd[c] IN
    /\ filemap' = [filemap EXCEPT ![r.name] =
         [version |-> v, content |-> num[c],
          expTime |-> IF r.expTime = NIL THEN NIL ELSE r.expTime + tick]]
    /\ writes' = writes \cup
         {[name |-> r.name, life |-> deletes[r.name], version |-> v, by |-> num[c],
           cmd |-> r, over |-> filemap[r.name]]}

FirstVersion == 1

WriteFile(c) ==
  /\ CanLock(c) /\ cmd[c].op = "write"
  /\ LET old == filemap[cmd[c].name]
         v == IF old = Absent THEN FirstVersion ELSE old.version + 1
     IN Store(c, v) /\ Answer(c, "OK", v)
  /\ Finish(c)
  /\ UNCHANGED <<mapLock, deletes, tick, open, timeouts, expired, calls, running>>

\* What c holds of the map once it has taken, or given back, the lock.
LockFor(c) == c

Unlocked(c) == Nobody

\* compareAndSwap takes the lock and looks at the file.
CasTest(c) ==
  /\ CanLock(c) /\ cmd[c].op = "cas"
  /\ LET old == filemap[cmd[c].name] IN
       \/ /\ Alive(old) /\ old.version = cmd[c].version
          /\ mapLock' = LockFor(c)
          /\ file' = [file EXCEPT ![c] = old]
          /\ Goto(c, "swapping")
          /\ UNCHANGED <<cmd, num, answers>>
       \/ /\ ~Alive(old)
          /\ mapLock' = Unlocked(c)
          /\ Refuse(c, "ERR_FILE_NOT_FOUND")
          /\ Finish(c)
       \/ /\ Alive(old) /\ old.version # cmd[c].version
          /\ mapLock' = Unlocked(c)
          /\ Answer(c, "ERR_VERSION", old.version)
          /\ Finish(c)
  /\ UNCHANGED <<filemap, deletes, writes, tick, open, timeouts, expired, calls, running>>

\* It replaces the file, at a tick of its own, and gives the lock back.
CasSwap(c) ==
  /\ at[c] = "swapping"
  /\ Store(c, file[c].version + 1)
  /\ Answer(c, "OK", file[c].version + 1)
  /\ mapLock' = Unlocked(c)
  /\ Finish(c)
  /\ UNCHANGED <<deletes, tick, open, timeouts, expired, calls, running>>

deleteFile(c) ==
  /\ CanLock(c) /\ cmd[c].op = "delete"
  /\ LET f == cmd[c].name IN
       \/ /\ filemap[f] = Absent
          /\ Refuse(c, "ERR_FILE_NOT_FOUND")
          /\ UNCHANGED <<filemap, deletes>>
       \/ /\ filemap[f] # Absent
          /\ filemap' = [filemap EXCEPT ![f] = Absent]
          /\ deletes' = [deletes EXCEPT ![f] = @ + 1]
          /\ Answer(c, "OK", 0)
  /\ Finish(c)
  /\ UNCHANGED <<mapLock, writes, tick, open, timeouts, expired, calls, running>>

\* readFile copies the file under the lock ...
ReadCopy(c) ==
  /\ CanLock(c) /\ cmd[c].op = "read"
  /\ file' = [file EXCEPT ![c] = filemap[cmd[c].name]]
  /\ Goto(c, "copied")
  /\ UNCHANGED <<shared, tick, cmd, num, open, timeouts, expired, answers, calls, running>>

\* The file a read answers with.
Copied(c) == file[c]

\* ... and looks at the copy's time, and answers, without it.
ReadAnswer(c) ==
  /\ at[c] = "copied"
  /\ IF Alive(file[c])
       THEN AnswerTo(c, num[c], cmd[c].op, "CONTENTS", Copied(c).version, Copied(c).content)
       ELSE Refuse(c, "ERR_FILE_NOT_FOUND")
  /\ Finish(c)
  /\ UNCHANGED <<shared, tick, open, timeouts, expired, calls, running>>

-----------------------------------------------------------------------------

\* What the goroutine of c does by itself, without the client.
Handle(c) ==
  /\ running
  /\ \/ LoseClose(c) \/ VersionClose(c) \/ HandOff(c)
     \/ WriteFile(c) \/ CasTest(c) \/ CasSwap(c)
     \/ deleteFile(c) \/ ReadCopy(c) \/ ReadAnswer(c)

Next ==
  /\ running
  /\ \/ Timer
     \/ \E c \in Client :
          \/ serverMain(c) \/ HangUp(c)
          \/ \E r \in Request :
               \/ ErrorInvalidCmd(c, r) \/ StartContents(c, r) \/ StartPlain(c, r)
               \/ Panic(c, r)
          \/ LoseContents(c) \/ RefuseVersion(c) \/ ReadContents(c)
          \/ TimeOutClose(c)
          \/ Handle(c)
     \/ \E t \in timeouts : TimeOut(t)

\* Goroutines run, and who waits for the lock gets it some day.
Fairness == \A c \in Client : SF_vars(Handle(c))

Spec == Init /\ [][Next]_vars /\ Fairness

-----------------------------------------------------------------------------
(* What must hold *)

\* Every variable has its type; files have versions from 1 on, and the lock is
\* held by the cas that is between its test and its swap, and by nobody else.
TypeOK ==
  /\ filemap \in [Filename -> FileType \cup {Absent}]
  /\ file \in [Client -> FileType \cup {Absent}]
  /\ tick \in Nat /\ calls \in Nat
  /\ at \in [Client -> {"new", "reading", "contents", "losing", "closing", "telling",
                        "locking", "swapping", "copied", "ended"}]
  /\ cmd \in [Client -> Request \cup {NoCmd}] /\ num \in [Client -> 0..calls]
  /\ open \in [Client -> BOOLEAN]
  /\ timeouts \subseteq [client : Client, n : 1..calls, op : {"write", "cas"}]
  /\ expired \subseteq Client /\ running \in BOOLEAN
  /\ \A c \in Client : at[c] = "swapping" <=> mapLock = c
  /\ mapLock \in Client \cup {Nobody}

\* No update is lost (README.md of assign1: concurrent operations are taken
\* into consideration): between two deletions of a file no two writes or
\* swaps give it the same version, and each version but the first follows one.
NoLostUpdate ==
  \A w \in writes :
    /\ \A x \in writes :
         w.name = x.name /\ w.life = x.life /\ w.version = x.version => w = x
    /\ \/ w.over = Absent /\ w.version = 1
       \/ w.over # Absent /\ w.version = w.over.version + 1

\* A cas replaces the version it names and no other.
SwapsNamed ==
  \A w \in writes :
    w.cmd.op = "cas" => w.over # Absent /\ w.over.version = w.cmd.version

\* Everything told a client is so: OK names the version its own command made,
\* CONTENTS shows what was written as that version, and a command that was
\* refused has written nothing. (A write with a bad numbytes is refused and
\* still creates an empty file when an empty line follows it; a cas is refused
\* as late after it was done.)
AnswersTrue ==
  \A c \in Client : \A k \in 1..Len(answers[c]) :
    LET a == answers[c][k] IN
      /\ a.what = "OK" /\ a.version > 0 =>
           \E w \in writes : w.by = a.n /\ w.version = a.version
      /\ a.what = "CONTENTS" =>
           \E w \in writes : w.by = a.content /\ w.version = a.version
      /\ a.what \in {"ERR_CMD_ERR", "ERR_VERSION", "ERR_FILE_NOT_FOUND"} =>
           \A w \in writes : w.by = a.n => w.cmd.numBytes = Bad
      /\ a.what = "ERR_INTERNAL" =>
           \A w \in writes : w.by = a.n => w.cmd.op = "cas"

\* Two answers to one command: one of its handler, and ERR_INTERNAL of its
\* timeout, as the command is a cas, or a write whose contents were refused.
MayBeBoth(a, b) ==
  /\ a.what = "ERR_INTERNAL" <=> b.what # "ERR_INTERNAL"
  /\ a.op = b.op
  /\ a.op = "cas" \/ (a.op = "write" /\ "ERR_CMD_ERR" \in {a.what, b.what})

\* A command gets one answer. Nobody tells the timeout of a cas that its contents
\* have come, so a cas may get ERR_INTERNAL as well: after its own answer, or
\* before it, while the timeout is about to close the connection. A write that
\* was done, a read and a delete get one answer.
OneAnswer ==
  \A c \in Client : \A j, k \in 1..Len(answers[c]) :
    answers[c][j].n = answers[c][k].n /\ j # k => MayBeBoth(answers[c][j], answers[c][k])

\* A command that wants the lock, or has it, comes to its end, if the process
\* does not end before: every way out of compareAndSwap gives the lock back.
Done(c) ==
  at[c] \in {"locking", "swapping", "copied"} ~> at[c] = "reading" \/ ~running
=============================================================================
