----------------------------- MODULE EventLoop ------------------------------
(***************************************************************************)
(* The goroutine of one RaftNode (src/assign4/RaftNode.go: processEvents,  *)
(* doActions, Append, Shutdown; ActionHandler.go) with its timer and its   *)
(* bounded channels. Of the state machine it keeps the state and, for each *)
(* event, the actions the handlers can return; terms, votes and the log    *)
(* are Raft's. Sending to peers changes nothing here and is left out.      *)
(***************************************************************************)
EXTENDS Naturals, Sequences

CONSTANTS Client,     \* clients of this server: each waits for its answer
          Other,      \* in place of a client: a command of another server
          EventCap,   \* what EventCh holds (50000 in the code)
          CommitCap,  \* what CommitCh holds (50000 in the code)
          MaxCommits  \* bound: commands that one event commits

ASSUME CapAssumption ==
  /\ EventCap \in Nat \ {0} /\ CommitCap \in Nat \ {0}
  /\ MaxCommits \in Nat /\ Other \notin Client

VARIABLES
  state,     \* of the state machine: "F", "C" or "L"
  eventCh,   \* EventCh: what is beyond EventCap are blocked senders
  commitCh,  \* CommitCh
  waiting,   \* clients whose command was given to Append
  logged,    \* clients whose command is in the log and may be committed
  armed,     \* whether the timer runs
  tick,      \* whether a tick waits in timer.C
  pc,        \* the loop: select, moving, acting, returned, exited
  moving,    \* the message taken from the Inbox
  todo,      \* the actions doActions has not done
  shutdown,  \* Shutdown: not called, waiting on quit, done
  peers      \* whether messages may still arrive

loopVars == <<state, pc, moving, todo>>
timerVars == <<armed, tick>>
vars ==
  <<loopVars, timerVars, eventCh, commitCh, waiting, logged, shutdown, peers>>

-----------------------------------------------------------------------------
(* Slips: what single definitions below could say by mistake. Each is put in *)
(* the place of its definition to see that the properties notice.            *)

SlipHasRoom(ch) == Len(ch) <= EventCap

\* a timer that has gone off is not started again
SlipAlarmHandler == armed' = armed /\ UNCHANGED tick

SlipTimeoutElection ==
  {[state |-> "C", actions |-> <<[do |-> "StateStore"]>>, logs |-> logged]}

SlipAppendFollowerOrCandidate(c) ==
  {[state |-> state, actions |-> <<>>, logs |-> logged]}

-----------------------------------------------------------------------------
(* Events, and what the handlers can return *)

Nothing == [kind |-> "none"]
Message ==
  [kind : {"VoteRequest", "VoteResponse", "AppendRequest", "AppendResponse"}]
AppendEvent(c) == [kind |-> "Append", client |-> c]
Event == Message \cup {AppendEvent(c) : c \in Client}

Do(action) == [do |-> action]
Commit(c) == [do |-> "Commit", client |-> c]
Action == {Do("Alarm"), Do("StateStore"), Do("LogStore")}
            \cup {Commit(c) : c \in Client \cup {Other}}

\* The next state, the actions, and the clients whose commands the log holds.
Reaction(s, actions, logs) == [state |-> s, actions |-> actions, logs |-> logs]

Silent == Reaction(state, <<>>, logged)
StepDown == Reaction("F", <<Do("Alarm"), Do("StateStore")>>, logged)

\* Up to MaxCommits of the commands in the log, and others', are committed.
CommitLists ==
  {q \in UNION {[1..n -> logged \cup {Other}] : n \in 0..MaxCommits} :
     \A j, k \in DOMAIN q : q[j] = q[k] => j = k}

Commits(before) ==
  {Reaction(state, before \o [k \in DOMAIN q |-> Commit(q[k])],
            logged \ {q[k] : k \in DOMAIN q}) : q \in CommitLists}

TimeoutElection == {Reaction("C", <<Do("StateStore"), Do("Alarm")>>, logged)}

TimeoutLeader == {Reaction("L", <<Do("Alarm")>>, logged)}

Timeout == IF state = "L" THEN TimeoutLeader ELSE TimeoutElection

AppendLeader(c) == {Reaction("L", <<Do("LogStore")>>, logged \cup {c})}

AppendFollowerOrCandidate(c) == {Reaction(state, <<Commit(c)>>, logged)}

\* A vote resets the timer, a later term is stored.
VoteRequest ==
  IF state = "F"
    THEN {Reaction("F", a \o b, logged) :
            a \in {<<>>, <<Do("Alarm")>>}, b \in {<<>>, <<Do("StateStore")>>}}
    ELSE {Silent, StepDown}

VoteResponse ==
  {Silent}
    \cup (IF state = "F"
            THEN {Reaction("F", <<Do("StateStore")>>, logged)}
            ELSE {})
    \cup (IF state = "C"
            THEN {StepDown,
                  Reaction("L", <<Do("StateStore"), Do("Alarm")>>, logged)}
            ELSE {})

\* A leader or candidate that follows returns the actions nested in one
\* element, which doActions does not know and skips.
AppendEntriesRequest ==
  IF state = "F"
    THEN {Silent} \cup UNION {Commits(StepDown.actions \o b) :
                              b \in {<<>>, <<Do("LogStore")>>}}
    ELSE {Silent, Reaction("F", <<>>, logged)}

\* What a follower or candidate returns is dropped.
AppendEntriesResponse ==
  IF state = "L" THEN {StepDown} \cup Commits(<<>>)
  ELSE {Silent, Reaction("F", <<>>, logged)}

ProcessEvent(ev) ==
  IF ev.kind = "Append"
    THEN IF state = "L" THEN AppendLeader(ev.client)
         ELSE AppendFollowerOrCandidate(ev.client)
    ELSE [VoteRequest |-> VoteRequest, VoteResponse |-> VoteResponse,
          AppendRequest |-> AppendEntriesRequest,
          AppendResponse |-> AppendEntriesResponse][ev.kind]

-----------------------------------------------------------------------------
(* The loop *)

\* New: a node starts as a follower with its timer running.
Init ==
  /\ state = "F" /\ eventCh = <<>> /\ commitCh = <<>>
  /\ waiting = {} /\ logged = {}
  /\ armed = TRUE /\ tick = FALSE
  /\ pc = "select" /\ moving = Nothing /\ todo = <<>>
  /\ shutdown = "no" /\ peers = TRUE

\* The state machine takes one of its reactions, doActions begins.
React(reactions) ==
  \E r \in reactions :
    /\ state' = r.state /\ todo' = r.actions /\ logged' = r.logs
    /\ pc' = IF r.actions = <<>> THEN "select" ELSE "acting"

TakeEvent ==
  /\ pc = "select" /\ eventCh # <<>>
  /\ eventCh' = Tail(eventCh)
  /\ React(ProcessEvent(Head(eventCh)))
  /\ UNCHANGED <<timerVars, commitCh, waiting, moving, shutdown, peers>>

TakeTick ==
  /\ pc = "select" /\ tick
  /\ tick' = FALSE
  /\ React(Timeout)
  /\ UNCHANGED <<armed, eventCh, commitCh, waiting, moving, shutdown, peers>>

\* A message of a peer is in the Inbox, and the loop takes it.
TakeMessage ==
  /\ pc = "select" /\ peers
  /\ moving' \in Message
  /\ pc' = "moving"
  /\ UNCHANGED <<state, todo, timerVars, eventCh, commitCh, waiting, logged,
                 shutdown, peers>>

\* A send on EventCh goes on at once.
HasRoom(ch) == Len(ch) < EventCap

\* The loop itself sends the message on EventCh.
Move ==
  /\ pc = "moving" /\ HasRoom(eventCh)
  /\ eventCh' = Append(eventCh, moving)
  /\ pc' = "select" /\ moving' = Nothing
  /\ UNCHANGED <<state, todo, timerVars, commitCh, waiting, logged, shutdown,
                 peers>>

\* Reset starts the timer again, and leaves a tick that has come in its channel.
AlarmHandler == armed' = TRUE /\ UNCHANGED tick

\* The next action is done; writing to a closed file ends the process, except
\* that a log store may only truncate.
doActions ==
  /\ pc = "acting"
  /\ LET action == Head(todo).do IN
       \/ /\ action = "Alarm"
          /\ AlarmHandler
          /\ pc' = IF Len(todo) = 1 THEN "select" ELSE "acting"
          /\ UNCHANGED commitCh
       \/ /\ action = "Commit" /\ Len(commitCh) < CommitCap
          /\ commitCh' = Append(commitCh, Head(todo).client)
          /\ pc' = IF Len(todo) = 1 THEN "select" ELSE "acting"
          /\ UNCHANGED timerVars
       \/ /\ action \in {"StateStore", "LogStore"}
          /\ \/ /\ shutdown = "no" \/ action = "LogStore"
                /\ pc' = IF Len(todo) = 1 THEN "select" ELSE "acting"
             \/ shutdown # "no" /\ pc' = "exited"
          /\ UNCHANGED <<timerVars, commitCh>>
  /\ todo' = Tail(todo)
  /\ UNCHANGED <<state, eventCh, waiting, logged, moving, shutdown, peers>>

-----------------------------------------------------------------------------
(* The timer, the clients, the server that reads CommitCh, the peers *)

Alive == pc # "exited"

\* The runtime sends a tick unless one is there.
Fire ==
  /\ Alive /\ armed
  /\ armed' = FALSE /\ tick' = TRUE
  /\ UNCHANGED <<loopVars, eventCh, commitCh, waiting, logged, shutdown, peers>>

\* A client's command is given to Append, which waits if EventCh is full.
AppendCommand(c) ==
  /\ Alive /\ c \notin waiting
  /\ eventCh' = Append(eventCh, AppendEvent(c))
  /\ waiting' = waiting \cup {c}
  /\ UNCHANGED <<loopVars, timerVars, commitCh, logged, shutdown, peers>>

\* The server takes a value from CommitCh and answers the client.
TakeCommit ==
  /\ Alive /\ commitCh # <<>>
  /\ commitCh' = Tail(commitCh)
  /\ waiting' = waiting \ {Head(commitCh)}
  /\ UNCHANGED <<loopVars, timerVars, eventCh, logged, shutdown, peers>>

\* No message comes any more.
FallSilent ==
  /\ peers /\ peers' = FALSE
  /\ UNCHANGED <<loopVars, timerVars, eventCh, commitCh, waiting, logged,
                 shutdown>>

\* Shutdown closes the files and then offers quit.
Shutdown ==
  /\ Alive /\ shutdown = "no" /\ shutdown' = "waiting"
  /\ UNCHANGED <<loopVars, timerVars, eventCh, commitCh, waiting, logged, peers>>

\* The loop takes quit.
Quit ==
  /\ pc = "select" /\ shutdown = "waiting"
  /\ pc' = "returned" /\ shutdown' = "done"
  /\ UNCHANGED <<state, moving, todo, timerVars, eventCh, commitCh, waiting,
                 logged, peers>>

Next ==
  \/ TakeEvent \/ TakeTick \/ TakeMessage \/ Move \/ doActions
  \/ Fire \/ (\E c \in Client : AppendCommand(c)) \/ TakeCommit
  \/ FallSilent \/ Shutdown \/ Quit

\* The loop and the server go on; of the ready cases select picks any, so none
\* is left out for ever; and the timer goes off when nothing can reset it.
Fairness ==
  /\ WF_vars(doActions) /\ WF_vars(Move) /\ WF_vars(TakeCommit)
  /\ SF_vars(TakeEvent) /\ SF_vars(TakeTick)
  /\ WF_vars(Fire /\ ~peers)

Spec == Init /\ [][Next]_vars /\ Fairness

-----------------------------------------------------------------------------
(* What must hold *)

\* Every variable has its type: CommitCh and the buffer of EventCh hold no more
\* than they can, and those who wait for room in EventCh are all callers of
\* Append, never the loop.
TypeOK ==
  /\ state \in {"F", "C", "L"}
  /\ eventCh \in Seq(Event)
  /\ \A k \in (EventCap + 1)..Len(eventCh) : eventCh[k] \notin Message
  /\ commitCh \in Seq(Client \cup {Other}) /\ Len(commitCh) <= CommitCap
  /\ waiting \subseteq Client /\ logged \subseteq Client
  /\ {armed, tick, peers} \subseteq BOOLEAN
  /\ pc \in {"select", "moving", "acting", "returned", "exited"}
  /\ moving \in Message \cup {Nothing} /\ (moving # Nothing <=> pc = "moving")
  /\ todo \in Seq(Action) /\ (pc = "acting" => todo # <<>>)
  /\ shutdown \in {"no", "waiting", "done"}

\* A loop that waits for its next event is one that time alone can wake: every
\* timeout starts the timer again by its own actions, in every state, and no
\* tick is lost when Reset meets a timer that has gone off.
TimerAlive == pc \in {"select", "moving"} => armed \/ tick

Running == pc \notin {"returned", "exited"}

\* The loop sends on EventCh, which only it reads and which is full.
WaitsForItself == pc = "moving" /\ ~HasRoom(eventCh)

\* "What goes into Append must come out of here at some point": a command is
\* answered or gets into the log, unless the node is shut down or the loop
\* waits for itself.
ComesOut(c) ==
  c \in waiting ~> c \notin waiting \/ c \in logged \/ ~Running \/ WaitsForItself

AllComeOut == \A c \in Client : ComesOut(c)

\* A follower that hears nothing any more campaigns, whatever ticks and events
\* were on their way: it stays a follower only if it is shut down or waits for
\* itself.
Campaigns == ~peers ~> state # "F" \/ ~Running \/ WaitsForItself
=============================================================================
