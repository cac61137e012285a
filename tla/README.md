# A verification of the file servers (src/assign4 and src/assign1)

The repository holds four stages of one course project. `assign4` is the last:
a file server replicated with Raft. `assign1` is a single-server file server,
`assign2` a Raft state machine, `assign3` that state machine in a node; the code
of these two lives on, changed, in `assign4`. This project is about `assign4`,
and about `assign1`, which is a program of its own.

## The system

A client connects to any server and sends `read`, `write`, `cas` or `delete`.

| Part | State | Operations | Talks to |
|---|---|---|---|
| Front end, `server_main.go` | `ClientChanMap`, `clientid`, one goroutine per client (`serve`), one listener | accept, serve a command, `ListenCommitChannel` | `RaftNode.Append`, `CommitChannel`, `Get`; `fs.ProcessMsg`; clients' channels, sent to under a lock |
| File system, `fs/fs.go` | `FS.Dir`, `gversion`, one timer per file that expires | read, write, cas, delete, expiry | timers of the Go runtime, each a goroutine that wants the lock |
| Parser, `fs/msg.go` | none | `GetMsg` | the connection |
| RaftNode, `RaftNode.go`, `ActionHandler.go` | `EventCh`, `CommitCh`, one timer, state file, log on disk | event loop, `doActions`, start, restart, shutdown | the state machine, called and its actions carried out; the cluster library |
| State machine, `state.go` and the six event files | `StateMachine` | `ProcessEvent`: timeout, append, vote request and response, append request and response | returns actions |
| State file, `IOState.go` | a text file | `WriteState`, `ReadState` | RaftNode |
| Log library, cluster library | entries on disk; connections | append, truncate, get; send, receive | third party, known from their use |
| `assign1/server.go` | `filemap` under `mapLock`, `tick`, one goroutine per client, one per write and cas in progress | write, read, cas, delete, the clock, the time limit for contents | nothing else: a program of its own |
| Configuration, `ServerConfigurations.go` | none | reads `Config.json` once | |

What is hard here:

- **campaigns that collide, messages that are late or lost** — votes are counted
  by number, answers are accepted by term only;
- **conflicting logs** — entries are cut and replaced, commits follow what a
  leader believes of its peers;
- **actions that are returned and not carried out** — a handler nests the
  actions of another in one element and `doActions` skips it;
- **a disk that falls behind** — what was not stored is missing where the listener
  reads it, and what is stored next takes its place;
- **restarts** — what is read back is not what was written last;
- **locks held over a channel send**, clients that are gone, commit values that
  are skipped (`server_main.go`);
- **bounded channels and one loop** — the loop that empties `EventCh` also fills it,
  and may stop in the middle of an event because `CommitCh` is full;
- **a stream without recovery** — contents are told from commands only by counting
  the bytes announced, also in commands that are refused, and whatever lines they
  are of;
- **a lock given back by hand**, timeouts for contents that come late (`assign1`);
- **timers against commands** — a timer that has gone off waits for the lock
  while its file is rewritten, and every replica expires files by its own clock.

`PROJECT.json` lists them line by line under "hazards", each with the properties
that watch it.

## What makes each part correct

- *State machine*: one leader per term, elected by a majority; logs that agree
  where they have the same entry; a leader that knows all that is committed; the
  same commands out of every `CommitCh`, in order.
- *RaftNode*: what is carried out is what the state machine decided; disk and
  memory agree; a restart does not undo a vote.
- *Event loop*: it is never asleep without a timer to wake it, and what goes into
  `Append` comes out of `CommitCh` or gets into the log.
- *Parser and `serve`*: as long as as many bytes follow as are announced, the place in
  the stream is kept or the connection ends; the k-th reply is to the k-th command; no
  right command ends the process; what is written is read back.
- *`assign1`*: no update is lost, what a client is told is so, a command is
  answered once (a cas, or a write that is refused, twice at most), the lock is given back.
- *File system*: a version stands for one write; a file goes by itself after its
  time and never before, whatever timers are late; replicas end up the same.
- *Front end*: every committed command reaches the file system once and in
  order; a client gets the answer to its command; the listener never waits for
  a client that does not receive.

## Modules

| Module | Models | |
|---|---|---|
| `Raft` | state machine and the actions RaftNode carries out, one TLA+ action per handler | core |
| `EventLoop`, `MCEventLoop` | one node's event loop, timer and channels | over what `Raft`'s handlers return |
| `EventLoopProofs` | theorems about `EventLoop` | extends `EventLoop` |
| `Election` | what voting promises: votes in later terms, leaders of quorums | abstract |
| `RaftProofs` | theorems about `Raft`: types, elections, logs | extends `Raft` |
| `RaftCommitProofs` | theorems about `Raft`: what is committed | extends `RaftProofs` |
| `MCRaft` | bounds, symmetry | |
| `RaftStaleAck` | one long behaviour of `Raft`, step by step | |
| `RaftRestart`, `MCRaftRestart` | `Raft` with stops and restarts | extends `Raft` |
| `FileStore` | what the file system promises | abstract |
| `FileSystem`, `MCFileSystem` | `fs.go` | implements `FileStore` |
| `FileSystemProofs` | theorems about `FileSystem`, and that it implements `FileStore` | extends `FileSystem` |
| `Replicas`, `MCReplicas` | two servers' file systems fed by one log | two instances of `FileSystem` |
| `ReplicasProofs` | theorems about `Replicas` | extends `Replicas`, two instances of `FileSystemProofs` |
| `Server`, `MCServer` | `server_main.go` over an adverse RaftNode | |
| `ServerProofs` | theorems about `Server` | extends `Server` |
| `Parser` | `msg.go` as functions of a stream, and what `reply` writes | |
| `Session`, `MCSession` | `serve` on one connection | extends `Parser` |
| `SessionProofs` | theorems about `Parser` and `Session` | extends `Session` |
| `SingleServer`, `MCSingleServer` | `assign1/server.go` | |
| `SingleServerProofs` | theorems about `SingleServer` | extends `SingleServer` |

### Raft

Every variable is a function of the server and has the name it has in the code
(`state`, `currentTerm`, `votedFor`, `log`, `logCommitIndex`, `nextIndex`, ...).
An index is the code's index plus one, so that -1 becomes 0 and `Len(log[i])`
is `logCurrentIndex`; `Nobody` is `votedFor` 0. `logFile` is the log on disk,
`stateFile` the line last written, `commitCh[i]` everything put in `CommitCh` so
far. `ballots` and `elected` are history.

One action is one call of `ProcessEvent` with the `doActions` that follows, on
the event loop's goroutine. In particular

- `VoteRequestLeaderOrCandidate`, `AppendEntriesRequestLeaderOrCandidate`: a
  leader or candidate that meets a later term becomes a follower and handles the
  request as one. For append requests the follower's actions end up nested in
  one element of the list, which `doActions` skips, so memory changes and nothing
  is stored, sent or committed to the channel;
- the store of a vote given within the current term never happens (the code
  compares terms after setting them), nor that of a term learnt by a follower
  or candidate from an append response (the dispatcher drops the action);
- `LogStores`: `LogStoreHandler` only truncates when the index is taken, and
  appends wherever the end is otherwise;
- an append response makes the leader index its log at whatever the peer
  claims: beyond the end the process panics, modelled as leaving `up`.

`net[i][j]` is one FIFO channel from i to j: i's outbox, the connection, j's inbox
and j's `EventCh`. A server on one TCP-like connection sends in order; when it
breaks, messages are lost (`Lose`); nothing duplicates them. Timeouts may come
at any time, which covers randomised timers and a tick that was already in
`timer.C` when a handler reset the timer. Clients' commands may come at any
time at any server.

### RaftRestart

`main` writes `FOLLOWER 0 0` as the first line of the state file before the first
start, and `WriteState` only ever adds lines behind what was read.
`ReadState` reads the first line, so every restart is in term 0 with no vote.
`BringNodeUp` (told "false") rewrites that line and leaves the log directory, so
a server that should start clean has its old log too.

### FileSystem

`ProcessMsg` and the timers' function hold the lock of `FS` from their first look
at the directory to their return: each is one action. A timer is in `timers`
while it runs (`cancelTimer` can stop it) and in `fired` from going off until its
goroutine has had the lock (nothing can stop it). `calls` counts commands; it is
what lets `FileStore` say that a file went without anybody's doing.

### Replicas

`cmds` is the committed log. Each server processes it in order at its own pace
(`ListenA`, `ListenB`), one may restart and begin again; the clock is shared
but each server's timers start when that server processes the command.

### Server

`conn[c]` is where client c's `serve` is: reading, blocked on its channel, ended.
`sending` is the listener blocked in `ch <- ...` with the lock held; `Accept`
needs the lock. `processing` is the commit value the listener works on. The commands
before it (`ProcessMissing`) come from the log on disk, as `getMsg` reads them, its own
(`ProcessLast`) from the value; if the disk does not have an index, the process ends
(`GetFails`). The RaftNode is an environment that does what `Raft` shows it to do: it
takes or gives back a command, loses uncommitted ones, lets them come back from other
servers, commits in order, and passes some commits over (a candidate or leader that
accepts an append request does). In the same step it stores nothing, so `disk` may fall
behind `log`, and `LogStore`, which appends wherever the end is, then puts later entries
too early. A restart takes the log from the disk. The RaftNode is more adverse than
Raft in two ways: after a restart it may replace entries committed before, and it
combines what the disk misses freely. It is kinder in one: `RaftReplace` never puts a
command in the log a second time, as no leader whose own log is right does.

### EventLoop

One goroutine (`processEvents`) reads `EventCh`, the timer's channel, the Inbox and
`quit`; `pc` says whether it is in `select`, about to put a message of the Inbox into
`EventCh` (`moving`), or between two actions of `doActions`. `ProcessEvent` keeps of
the state machine its state and gives, for every event, every list of actions
the handlers can return: in which order `Alarm`, `StateStore`, `LogStore` and `Commit`
come, and that a leader or candidate that follows an append request returns
nothing `doActions` knows. `AlarmHandler` is `Timer.Reset` as Go had it when this was
written: the timer runs again, and a tick that is in the channel stays there.
`eventCh` beyond `EventCap` are callers of `Append` that are blocked. `logged` are the
clients whose command is in the log: whether it is ever committed is Raft's
affair. `Shutdown` closes the files and only then offers `quit`, so that an event
in between ends the process at its first write (`exited`).

### Parser and Session

A stream is a sequence of chunks, cut at each CRLF. A chunk has fields, for when
it is taken for a line, and a size, for when it is taken for contents, because
the parser cannot know what the sender meant. `parseFirst` has one row of `Form` for
each case of its `switch`. `parseSecond` takes as many bytes as were announced, of one
chunk or of several (`Bytes`), and looks at the last two only. An error is `msg` (the
command is refused, its contents are still taken off the stream), `fatal` (the place is
lost, `serve` closes the connection), `panic` (an index beyond the fields: `delete` without a
name, an empty line; a negative numbytes) or `short` (the bytes do not come: `serve` waits
until the client goes). `Wire` is what `reply` writes. `Session` is `serve` on one connection
whose client has sent three commands ahead. A client that sends a response
(`OK 1`) gets the response before it once more, or, at first, ends the process;
`OwnReplies` says so.

Which commands are right is not left to the parser's tables: `Right` and `Mistaken` are
stated from the comment in `msg.go` (`Format`: how many fields, which of them numbers).
Between the two are commands the comment does not allow and the parser lets pass, e.g.
with a field too many. A client may send any line, and contents with `write`, `cas` and
`CONTENTS`; with contents after a `read` nobody's place could be kept. `Lies` are commands
that announce other contents than follow. What then happens is in the model: `write f
13` before two bytes and a line of nine takes that line for contents and is
answered `OK`. Nothing can be promised after such a command (`Honest`), and
`InStep` and `OwnReplies` are about what comes before.

### SingleServer

One action per stretch of a handler between two points where another goroutine
can make a difference: reading the line, having the contents, telling the
timeout (`c <- true`), the lock, and for `cas` its test and its swap apart, so that
the lock between them matters. Answering and closing the connection are two steps where
both the handler and the timeout of a command are there (`TimeOut`, `TimeOutClose`;
`LoseContents`, `LoseClose`; `RefuseVersion`, `VersionClose`): one may answer while the
other is about to close. What the model shows besides its properties:

- `cas` never tells its timeout that the contents have come: every cas gets
  `ERR_INTERNAL` a minute later, after its own answer or just before it, and loses
  its connection;
- a negative numbytes ends the process in `make` (`Panic`), for every connection; only a
  `write` whose expiry time is no number is refused before;
- a `write` whose contents come after the timeout waits at `c <- true` for ever;
- a `write` with a bad numbytes is refused, its connection closed, and goes on: if
  an empty line is in the buffer an empty file is made;
- a bad expiry time returns before the contents are read (`write`), or after
  (`cas`);
- versions begin at 1 again after a delete, so a cas may replace a file other than
  the one its client read: `NoLostUpdate` is about one life of a file.

## Runs

Bounds are in the `MC*` modules. All exhaustive; times are for two workers.

| Run | Asks | Bounds | Size |
|---|---|---|---|
| `election` | one leader per term, elected by a majority, kept for the term; one vote per term; `Election` implemented | 3 servers, 2 terms, empty logs, 2 messages per channel, 4 in all | 216k states |
| `replication` | logs match, beliefs about peers are true, channels agree and are ordered, a leader has all that is committed | 3 servers, 2 terms, logs of 2, 2 messages in all | 178k |
| `filesystem` | versions, timers, `FileStore`, expiry happens | 2 files, 4 commands, times 1 and 2, clock to 3 | 9k |
| `replicas` | two servers agree | 1 file, 2 contents, 3 commands, clock to 2, restarts | 512k |
| `server` | order, own answers, never stuck, answered | 2 clients, 2 commands, 2 lives, log and disk of 3 in the first and 2 in the second, 2 in `CommitCh` | 642k |
| `event_loop` | never asleep, campaigns, what goes in comes out | 2 clients, `EventCh` of 2, `CommitCh` of 1, 3 commits per event | 201k |
| `session` | in step, own replies, no right command is fatal, read back as written | 3 commands of 19, 2 versions, 2 sizes | 316k |
| `single_server` | no lost update, true answers, who may be told twice, the lock is given back | 2 connections, 1 file, 3 events: commands, refused mistakes, ticks | 331k |
| `diverge` | all servers apply the same commands | scripted | violated |
| `log_on_disk` | the log is on disk | 3 servers, 2 terms, log of 1 | violated |
| `restart_vote` | one vote per term with restarts | 3 servers, 1 term | violated |
| `replicas_diverge` | replicas end the same, with expiry and cas | as `replicas` | violated |

Why the bounds are enough. Two campaigns in one term, or one in each of two
terms with all answers late, is what double votes and double leaders need, and
4 messages hold two full rounds of requests of three servers. Campaigns that
collide matter to `election` only; `replication` leaves them out (`NoRivals`) to
afford longer histories: two leaders in a row with two entries each conflict,
overtake and truncate, and the second could be elected by servers that lack
what the first committed. Three terms, with logs of one, were explored as well
(`MaxTerm = 3`, `MaxLog = 1`, `MaxChan = 1`: 679k states, no error), and logs of two in
three terms are beyond what is run. In `replication` every leader has its own command (`CommandPerTerm`), so that
commands tell entries apart as terms do. Three commands suffice for a file that
is written, expires and is written again while its timer waits; a log of three
has a gap of two to catch up. In `event_loop` three commits of one event exceed
`CommitCh` by two, and two clients and a message exceed `EventCh` by one: every
channel is met empty, in between, full and overfull. In `session` the commands
are one of each form, with contents of one line, of none and of two, one of each mistake
`msg.go` tells apart, and four that announce other contents than follow; the third is
there to see where the reader stands after two, or what a number too large takes. In
`server` a log of three has a gap of two, and a restart leaves a log of two to replay. In `single_server` three commands
are a write, and two that meet on what it wrote; a mistake and the expiry of a file
matter to a command and what it meets. (With 3 commands, a mistake and a tick: 1.5M
states up to symmetry, safety only, no error.)

Four properties (`MatchTruthful`, `LeaderCompleteness`, `StateMachineSafety`,
`CommitChOrdered`) have the premise `OneReign`: no server has led twice. It is the
weakest under which they hold, as `diverge` shows: a leader takes a successful
append response of any term for news of its present log, so one that answers
a request of an earlier reign of the same server deceives it. The script of
`RaftStaleAck` has a lead, b cut that entry on c, and a, elected again,
commit on the word of c's old answer. `Replicas` has the premise
`NoCas \/ NoExpiry` for the same reason, and `Server` two that the code does not give:

- `DiskAgrees`: what the disk has of the committed log is at its place. Entries that came
  with a request a candidate or leader got are not stored (`log_on_disk`), the next one
  stored takes their place, and a gap filled from there has the file system process a
  command twice and another never; the second answer then finds a client
  that does not wait, or waits for another one. While the disk is only too short, the
  properties hold: the process ends instead.
- `NoIdReuse`: client ids start over with the process while the log keeps the ids of
  before (`server_main.go:306`), so that a restarted server that replays its log may
  answer a new client with the response to another's command.

Neither premise can be left out: with only one of them kept, TLC refutes that the commands
processed are those of the log in its order, or that a client is answered for what it
asked. Both are also hazards of the list in `PROJECT.json`.

`InStep` and `OwnReplies` of `Session` end at the first command that
announces other contents than follow (`Honest`).

What three servers in two terms cannot show: that only entries of the leader's own term
are committed by counting (`AppendEntriesResponse.go:60`) matters from the third
term on and rests on the theorems.

What the violated runs say of the code is in `PROJECT.json` under "findings".
Smaller observations need no run: in a cluster of even size the quorum
`len(peer)/2+1` (`VoteResponse.go:44`, `peer` being the other servers) is half of the
servers, two of four, so that two leaders of one term are possible (`Raft` with four servers
gets there in nine steps); `delete` without a name gets through
`checkN` (`msg.go:130`) and ends the process at `fields[1]`; `LeaderId` returns `votedFor`, which for
a candidate is itself and not "-1 if unknown"; the expiry time a read reports is
always 0 (`remainingTime` is declared again inside the `if`).

## Fairness

The Raft runs check safety only: `Lose` and timeouts may starve everything.
`FileSystem` assumes that time goes on, that a timer whose time has come goes
off and that its function gets the lock: the runtime does the first two and no
holder of the lock keeps it. `EventLoop` assumes that the loop's goroutine and the server that reads `CommitCh`
run (weak fairness of `doActions`, `Move`, `TakeCommit`); that `select`, which picks at
random among the cases that are ready, leaves none out for ever (strong fairness
of `TakeEvent` and `TakeTick`: a case may be unready in between, when the loop is
busy); and that a running timer goes off once no message arrives that could
reset it. Its liveness has two exceptions, both real: a node that is shut down,
and a loop that waits to send on `EventCh`, which is full and which only it reads
(`WaitsForItself`; with 50000 places it takes as many commands of clients waiting
at once). `SingleServer` assumes that goroutines run and that whoever waits for
`mapLock` gets it one day, as `sync.RWMutex` promises; nothing is assumed of clients,
and nothing of a write that waits for its timeout. `Server` assumes that the
listener, whether it can process an entry or must end the process, and a `serve` whose
channel is ready run: goroutines are scheduled. Nothing is assumed of
clients or of the RaftNode; therefore a client is promised an answer
only once its command has come through `CommitCh` (`AllAnswered`). A RaftNode that handles every event in the end and commits what stays in
its log would still not answer all: a leader may take a command and lose it.
The `server` run does not check for deadlock: clients whose commands are lost and
a RaftNode that does nothing more are a real end (limitation 1 of the
repository's README). Nor do `event_loop` (a node that is shut down has stopped),
`session` (a connection ends) and `single_server` (connections end, and the clock of
the small instance stops).

## Proofs

`RaftProofs` proves `TypeCorrect`: `Spec => []TypeOK`, for every finite set of
servers and any set of commands (`ServerAssumption`). `TypeOK` is inductive as it
stands. What it says beyond types: `nextIndex` stays at or above the first entry
although refusals, stale ones too, take it back; `CommitInfos` never reads past
a log, because a leader that would panics first (`BeyondLog`) and a follower
commits no further than its own log goes (`NewCommitType`); the entries kept and
added by an append request lie within the log and the request (`KeptBounds`,
by counting). The proof has one lemma for each operator's type, one for each
action, and one case per action in `NextType`.

It proves as well what the `election` run checks, for every number of
servers and terms and channels of any length:

| Theorem | `Spec =>` | Assumes |
|---|---|---|
| `VotesOnce` | `[]OneVotePerTerm` | |
| `TallyIsHonest` | `[]TallyHonest` | |
| `VoteStays` | `VoteFixed` | |
| `MajorityElects` | `[]ElectedByMajority` | odd cluster |
| `OneLeaderPerTerm` | `[]ElectionSafety` | odd cluster |
| `LeaderStays` | `LeaderKeepsTerm` | odd cluster |
| `RaftElects` | `Voting!Spec`, an instance of `Election` | odd cluster |

`OddCluster` is needed: the code takes half of the *other* servers, rounded down,
plus one for a majority, which for four servers is 3/2 + 1 = 2, and two pairs of
four servers need not share one.

The inductive invariant is `ElectionInv`. One vote per term is not inductive:
following a leader overwrites `votedFor`, so that a voter's own state does not
say whom it voted for, and a leader it follows would pass the test of
`VoteRequestFollower` a second time in the same term. What keeps that vote from
being given twice is that the request is no longer under way. So the invariant
is mostly about channels:

- requests come in the order of terms, a candidate's request for votes before
  any append request of that term, and two votes granted on a channel are of
  different terms (`ChannelsInOrder`: this is where the FIFO channel matters);
- what is asked has been reached by who asks, and only who was elected asks to
  append (`RequestsReached`);
- a vote asked for by a request under way has not been given, and its candidate is
  not followed in that term yet (`NotYetVoted`);
- a granted answer under way is a vote cast (`GrantsTrue`), a vote's term has been
  reached by both sides and within it `votedFor` is taken (`BallotsReached`);
- a candidate or leader has counted at most the votes whose answers are no longer
  under way (`TallyArrived`): counting an answer takes it out of the channel, so
  that a vote is counted once although nobody looks at who sent it;
- who was elected has as many votes as the code asks for (`ElectedByTally`).

The handlers are first shown to take one of five kinds of step (`ElectionStep`):
calm (no vote, no count; terms may be entered), campaign, follow, vote, count.
`NextStep` has one lemma per handler; then each kind preserves the invariant
(`CalmInv`, `CampaignInv`, `FollowInv`, `VoteInv`, `CountInv`). `VotersApart` maps
the votes for two candidates of a term into the servers one to one, so that two
majorities of an odd cluster cannot both exist. In the refinement, campaigning
and voting are `Vote`, counting the last vote is `Elect`, all else stutters.

The last theorem there is `LogsMatch`: `OddCluster => (Spec => []LogMatching)`. Log
matching is not inductive: nothing in the state says what a leader whose term is over
has had, and an append request of that term may still be under way. So the
invariant `LogInv(T)` is about a history `T`, where `T[t]` is the log of the
leader of term `t`, in the end of its reign if that is over, and the theorem
carries "there is a `T`" through every step:

- up to each of its entries, a log is what the leader of the entry's term had
  (`LogsMade`, `FromLeaders`), and so is each leader's log itself (`TermLogsMade`);
  two logs with an entry of one term at one index are then both the same as
  that leader's up to there (`SameTermSameLog`), which is `LogMatching`;
- an append request is a piece of the log of its term's leader (`RequestsMade`);
- the log of a leader is `T` of its term (`LeadersHave`), only an elected leader
  has put entries of a term in a log (`TermsLed`), and nobody leads one term a
  second time (`ReignsOver`). Here `OneLeaderPerTerm` is used.

`RaftCommitProofs` proves what is committed, for every number of servers, commands,
terms and messages under way:

| Theorem | `Spec =>` | Assumes |
|---|---|---|
| `MatchesAreTruthful` | `[]MatchTruthful` | odd cluster |
| `LeadersAreComplete` | `[]LeaderCompleteness` | odd cluster |
| `StateMachinesAreSafe` | `[]StateMachineSafety` | odd cluster |
| `CommitsAreOrdered` | `[]CommitChOrdered` | odd cluster |

The four properties have the premise `OneReign` themselves (see "Runs"). A second
history is needed: `A[v][t]` is how far server `v` has taken over the log of term
`t`'s leader. `Chosen` says that a majority has taken over an entry of the leader's own
term, `Lost` that a majority has gone on to later terms without it, so that it is
never chosen. The invariant has two parts.

- `AckInv` holds whoever leads again: a leader carries every entry of earlier
  leaders that is not lost (`LeadersCarry`), because a candidate carries what those
  who voted for it had taken over (`CandidatesCarry`, from the comparison of last
  terms and lengths in `VoteRequestFollower`), and two majorities meet. A server
  keeps what it has taken over in its term (`AcksKept`), which needs that no append
  request of a term reaches less far than one before it (`RequestsInOrder`,
  `RequestsReach`): a follower's log ends where the request does that it accepts, so
  that a request overtaken by a longer one would cut off what was acknowledged;
  the leader's log only grows and the channel is FIFO.
- `CommitInv` needs `OneReign`: a leader takes any accepted append response for one of
  its present log. While it leads once, `matchIndex` stays at or below what the
  peer has taken over (`MatchesTrue`); what is committed, told to followers or put
  in `CommitCh` is below an entry that is `Chosen` (`CommitsSafe`, `RequestsSafe`,
  `CommitChSafe`), because a leader commits only up to an entry of its own term (`Committable`); and
  `CommitInfos` starts one past the last index it put there (`CommitChRising`).

Every handler is shown to take one of a few kinds of step (`RaftStep`: idle, campaign,
log, lead, grant a vote, learn a match, take over), in terms of channels, logs and
terms only; each kind preserves the invariant for histories that grow.

`FileSystemProofs` proves, for any files, contents and expiry times, what the
`filesystem` run checks except `Expires`: `TypeCorrect`, `TimersKept` (`WillExpire`),
`TimersStopped` (`NoStrayTimer`), `VersionsUnique` (`VersionsApart`), and `Implements`, that
every step is one of `FileStore` or changes nothing there. The three invariants
need each other: `cancelTimer` finds the running timer of a file because it was
made with the file's version (`TimerOfFile`), which nothing else has because a new
version is beyond every version of a file or timer (`VersionsGiven`); that a timer
that has gone off deletes a file only at its time rests on `TimerTimes`. It is
assumed only that `NoFile` is not a file (`NoFileAssumption`).

`ReplicasProofs` proves `ReplicasConverge` (`Converged`) and `VersionsMeanContents`
(`VersionMeansContents`), for any log of commands, any expiry times and restarts. Both
compare directories that two servers have reached at different moments, so the
invariant `Inv` is about a history `H`, where `H[n]` is what the first `n`
commands leave if nothing expires; "there is an `H`" is carried through every step,
and a commit adds one entry. What is true of one server is in `FileSystemProofs`:

- a server at place `n` of the log follows `H[n]` (`Follows`): it has given as many
  versions, its files are among those of `H[n]` with the same versions and contents,
  and what is missing was to expire. A command keeps this (`ProcessFollows`), if a cas
  finds its file where the log left it, and so do timers (`RestFollows`), because
  only a file with a time to go loses to a timer (`VersionsApart`, `TimerTimes`);
- with no timer left the directory is what in `H[n]` does not expire
  (`SettledFollows`, from `WillExpire`), which no longer depends on the server.

`Given` says that a version stands for one write, at whatever places of the log it is
looked up; `Lasting` that nothing in `H` expires if no command asks for it. The premise
`NoCas \/ NoExpiry` is what `ProcessFollows` needs and no more: with a cas among
commands that expire `Follows` is lost, which the run `replicas_diverge` shows.

`EventLoopProofs` proves `TypeCorrect` and `TimerStaysAlive` for any clients and
capacities. `TimerAlive` speaks of a loop that waits; the invariant adds that while
`doActions` is at work the timer runs, or has gone off, or an `Alarm` is among the
actions left. One lemma per handler shows that a timeout's actions contain an
`Alarm` in every state.

`ServerProofs` proves `TypeCorrect` and `InOrder` (`ProcessedInOrder`) for any clients,
logs, gaps in `CommitCh` and restarts. The invariant says where the listener is
(`ListenerPlace`): between two commit values everything up to
`prevLogIndexProcessed` has been processed, and within one everything before
`processing.next`, which lies in the gap; and that `CommitCh` tells only of committed
indices, with the commands the log has there (`ValuesCommitted`). What is processed from the
disk is what the log has while `DiskAgrees`. This premise is about one state, and the
theorem about every step before it: it rests on `DiskAgrees` never coming back once it is
lost in a life, since what is committed stays as it is and the disk is cut only where the
log is.

It proves as well `NeverStuck` (`ListenerNotStuck`) and `AnswersOwn` (`OwnAnswers`):
the listener holds the lock only to send to a client that waits for just that
response. A client waits for one command at a time; what must be excluded is that the
listener meets that command twice, or one the client has had back. The invariant
`WaitInv` says where a command can be: sent, given back by the RaftNode, or taken
(and then in the log, lost, or to come back), once in one of these places
(`SentOnce`, `GivenBackOnce`, `TakenOnce`, `LogOnce`, `PlacesApart`), and that the client of a
command in any of them that has not been processed waits for it (`Waited`, `SendsWaited`).
This holds until the listener is `Misled`: an id is used again (`Reused`: a committed command
of an earlier start carries the id of a client of this one), or the disk is wrong. Both
last for the rest of the life.

`SingleServerProofs` proves `TypeCorrect`, `UpdatesKept` (`NoLostUpdate`), `SwapsRight`
(`SwapsNamed`), `RepliesTrue` (`AnswersTrue`) and `AnswersOnce` (`OneAnswer`), all its run
checks, for any connections, files and commands. `SwapReady` is what the lock
is for: between its test and its swap a cas has the file as it is in the map.
`VersionsGrow` bounds the versions written in the present life of a file by the
file's own, so that the next one is new; it needs the versions' history to count
deletions, because versions begin again with the file. `Busy` says what a
goroutine may be working on where, e.g. that an expiry time that is no number
never reaches the map although `ReadContents` and `StartContents` look at it in
different places.

What is told is true (`AnswerInv`) because of where a command can still be when it has been
answered. The numbers of commands are told apart by connection (`NumbersApart`),
whether a command is worked on, only its timeout is left or only its answer. A command
that was refused goes on only to close its connection, or with a version or a numbytes
that is no number; one that was told `ERR_INTERNAL` is a cas, or a write that is still
receiving and will wait for the timeout for ever (`AnsweredStill`). A timeout is left only
of a cas, or of a write that has written nothing and was told nothing but a refusal
(`TimeoutsLeft`). So the two answers of one command are one of its handler and one of its
timeout, and of a write the first is a refusal. Each action is one of six kinds
of step (`SilentStep`, `LineStep`, `RefusedStepOf`, `TimedOutStep`, `FinishedStep`, `QuitStep`),
and each kind has a lemma. Contents are what was written as their version
because that holds of every file in the map and every copy (`FilesWritten`).

`SessionProofs` proves what the `session` run checks, for any commands a client may send:
`TypeCorrect`, `PlaceKept` (`InStep`), `RepliesBelong` (`OwnReplies`) and `ReadsBack`
(`RoundTrip`).

- `Parse` is about one call of `GetMsg` on a stream that begins with a command that
  does not lie: unless it fails for good it takes off the line and the contents of that
  command and nothing else, what it fails on is not right, and what it lets pass has no
  mistake that `msg.go` names (`Takes`). Four things go into it: what `parseFirst` makes of
  a line (`FirstFacts`); how its tables compare with the comment's (`Formats`, `Enough`); that
  the `numbytes` of a line that does not lose the place is the number in its field
  (`Numbytes`); and that so many bytes are the chunks of the contents and no others
  (`BytesAhead`, `SkipContents`), for which `Bytes` must be seen to count and to grow
  (`BytesAre`, `BytesGrow`).
- The invariant `SInv` adds to the three properties that while `serve` waits for the
  commit channel it is one reply behind, that the command it waits for has no mistake, and
  that `response`, which stays from one command to the next, is one of `ProcessMsg`'s
  and never a refusal. Otherwise a response sent as a command could be answered by
  `ERR_CMD_ERR` though nothing is wrong with it.
- `LineBack` and `ContentsBack` follow each message `reply` writes through `GetMsg`. The
  contents of a file are at most `MAX_CONTENT_SIZE` long (`FileAssumption`: they came
  off a stream), which a longer file's reader would not get back.

A client sends three commands, as in `Init`: `FlattenShort` and `Left` unfold a stream of
up to three, because for any number the same would take an induction over the stream.
The numbers and sizes in the commands, the versions and the limit are arbitrary.

Only model-checked: liveness, which is out of the prover's reach (`Expires`, `AllAnswered`,
`AllComeOut`, `Campaigns`, `AllDone`), and the runs that show a violation.

## Plan

Done: all modules above, and the proofs of every invariant and action property of the
passing runs, for `Raft`, `EventLoop`, `FileSystem`, `Replicas`, `Server`, `Session` and
`SingleServer`. Left to prove: what of `Raft`'s invariants outlives a restart that finds the
first vote and not the last (`RaftRestart`), e.g. the types and the order of `CommitCh`
since the last start.

## Not modelled

The bytes of files and messages, formatting and logging. `ServerConfigurations.go`
(reads a file once). The limits of the cluster library's Outbox and Inbox, which
are not in this repository: a send to a peer is taken never to block.
`assign2` and `assign3`: superseded by what `Raft` and `EventLoop` model, and run
only by their own tests. Tests, which were read for what they expect.
