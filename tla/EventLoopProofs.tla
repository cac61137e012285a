-------------------------- MODULE EventLoopProofs ---------------------------
(***************************************************************************)
(* Proofs about EventLoop, for any number of clients and any capacities:   *)
(* every variable keeps its type, and a loop that waits for an event is    *)
(* one its timer will wake.                                                *)
(***************************************************************************)
EXTENDS EventLoop, SequenceTheorems, TLAPS

\* A sequence of actions that starts the timer.
StartsTimer(actions) == \E k \in 1..Len(actions) : actions[k] = Do("Alarm")

\* The invariant: TimerAlive needs to know of a loop that is acting that the
\* timer runs, or has gone off, or is started by an action still to be done.
IInv ==
  /\ TypeOK
  /\ TimerAlive
  /\ pc = "acting" => armed \/ tick \/ StartsTimer(todo)

ReactionOK(r) ==
  /\ r.state \in {"F", "C", "L"}
  /\ r.actions \in Seq(Action)
  /\ r.logs \subseteq Client

-----------------------------------------------------------------------------
(* Reactions *)

\* The pieces the reactions are built from.
LEMMA PiecesType ==
  /\ <<>> \in Seq(Action) /\ <<Do("Alarm")>> \in Seq(Action)
  /\ <<Do("StateStore")>> \in Seq(Action) /\ <<Do("LogStore")>> \in Seq(Action)
  /\ <<Do("StateStore"), Do("Alarm")>> \in Seq(Action)
  /\ <<Do("Alarm"), Do("StateStore")>> \in Seq(Action)
  /\ \A c \in Client : <<Commit(c)>> \in Seq(Action)
  BY DEF Action

\* A reaction made of well-typed pieces.
LEMMA ReactionType ==
  ASSUME NEW s \in {"F", "C", "L"}, NEW a \in Seq(Action), NEW l \in SUBSET Client
  PROVE  ReactionOK(Reaction(s, a, l))
  BY DEF ReactionOK, Reaction

\* Committing keeps the state and adds commits to the actions.
LEMMA CommitsType ==
  ASSUME TypeOK, NEW before \in Seq(Action), NEW r \in Commits(before)
  PROVE  ReactionOK(r)
<1>1. PICK q \in CommitLists :
         r = Reaction(state, before \o [k \in DOMAIN q |-> Commit(q[k])],
                      logged \ {q[k] : k \in DOMAIN q})
  BY DEF Commits
<1>2. PICK n \in 0..MaxCommits : q \in [1..n -> logged \cup {Other}]
  BY DEF CommitLists
<1>3. logged \subseteq Client /\ state \in {"F", "C", "L"}
  BY DEF TypeOK
<1>4. n \in Nat /\ DOMAIN q = 1..n
  BY <1>2, CapAssumption
<1>5. \A k \in 1..n : Commit(q[k]) \in Action
  BY <1>2, <1>3, <1>4 DEF Action
<1>6. [k \in DOMAIN q |-> Commit(q[k])] \in Seq(Action)
  BY <1>4, <1>5, SeqDef
<1>7. before \o [k \in DOMAIN q |-> Commit(q[k])] \in Seq(Action)
  BY <1>6, ConcatProperties
<1> QED
  BY <1>1, <1>3, <1>7 DEF Reaction, ReactionOK

\* Whatever the event, its reactions have the types that React needs.
LEMMA ProcessEventType ==
  ASSUME TypeOK, NEW ev \in Event, NEW r \in ProcessEvent(ev)
  PROVE  ReactionOK(r)
<1>0. logged \subseteq Client /\ state \in {"F", "C", "L"}
  BY DEF TypeOK
<1>1. ReactionOK(Silent) /\ ReactionOK(StepDown)
  BY <1>0, PiecesType DEF Silent, StepDown, Reaction, ReactionOK
<1>7. ReactionOK(Reaction("F", <<>>, logged))
  BY <1>0, PiecesType DEF Reaction, ReactionOK
<1>2. ASSUME NEW c \in Client, ev = AppendEvent(c)
      PROVE  ReactionOK(r)
  <2>1. r \in AppendLeader(c) \/ r \in AppendFollowerOrCandidate(c)
    BY <1>2 DEF ProcessEvent, AppendEvent
  <2> QED
    BY <2>1, <1>0, PiecesType, ReactionType DEF AppendLeader, AppendFollowerOrCandidate
<1>3. CASE ev.kind = "VoteRequest"
  <2>1. r \in VoteRequest
    BY <1>3 DEF ProcessEvent
  <2>2. CASE state = "F"
    <3>1. PICK a \in {<<>>, <<Do("Alarm")>>}, b \in {<<>>, <<Do("StateStore")>>} :
             r = Reaction("F", a \o b, logged)
      BY <2>1, <2>2 DEF VoteRequest
    <3>2. a \o b \in Seq(Action)
      BY PiecesType, ConcatProperties
    <3> QED
      BY <3>1, <3>2, <1>0 DEF Reaction, ReactionOK
  <2> QED
    BY <2>1, <2>2, <1>1 DEF VoteRequest
<1>4. CASE ev.kind = "VoteResponse"
  <2>1. r \in VoteResponse
    BY <1>4 DEF ProcessEvent
  <2>2. r \in {Silent, StepDown, Reaction("F", <<Do("StateStore")>>, logged),
               Reaction("L", <<Do("StateStore"), Do("Alarm")>>, logged)}
    BY <2>1, <1>0 DEF VoteResponse
  <2> QED
    BY <2>2, <1>0, <1>1, PiecesType, ReactionType
<1>5. CASE ev.kind = "AppendRequest"
  <2>1. r \in AppendEntriesRequest
    BY <1>5 DEF ProcessEvent
  <2>2. CASE state # "F"
    BY <2>1, <2>2, <1>1, <1>7 DEF AppendEntriesRequest
  <2>3. CASE state = "F" /\ r # Silent
    <3>1. PICK b \in {<<>>, <<Do("LogStore")>>} : r \in Commits(StepDown.actions \o b)
      BY <2>1, <2>3 DEF AppendEntriesRequest
    <3>2. StepDown.actions \in Seq(Action)
      BY PiecesType DEF StepDown, Reaction
    <3>3. StepDown.actions \o b \in Seq(Action)
      BY <3>2, PiecesType, ConcatProperties
    <3> QED
      BY <3>1, <3>3, CommitsType
  <2> QED
    BY <2>2, <2>3, <1>1
<1>6. CASE ev.kind = "AppendResponse"
  <2>1. r \in AppendEntriesResponse
    BY <1>6 DEF ProcessEvent
  <2>2. r = StepDown \/ r = Silent \/ r = Reaction("F", <<>>, logged) \/ r \in Commits(<<>>)
    BY <2>1 DEF AppendEntriesResponse
  <2> QED
    BY <2>2, <1>1, <1>7, CommitsType, PiecesType
<1> QED
  BY <1>2, <1>3, <1>4, <1>5, <1>6 DEF Event, Message

\* A timeout has actions that start the timer, in every state.
LEMMA TimeoutType ==
  ASSUME TypeOK, NEW r \in Timeout
  PROVE  ReactionOK(r) /\ r.actions # <<>> /\ StartsTimer(r.actions)
<1>1. logged \subseteq Client
  BY DEF TypeOK
<1>2. r = Reaction("L", <<Do("Alarm")>>, logged)
        \/ r = Reaction("C", <<Do("StateStore"), Do("Alarm")>>, logged)
  BY DEF Timeout, TimeoutLeader, TimeoutElection
<1>3. StartsTimer(<<Do("Alarm")>>)
  <2>1. 1 \in 1..Len(<<Do("Alarm")>>) /\ <<Do("Alarm")>>[1] = Do("Alarm")
    OBVIOUS
  <2> QED
    BY <2>1 DEF StartsTimer
<1>4. StartsTimer(<<Do("StateStore"), Do("Alarm")>>)
  <2>1. 2 \in 1..Len(<<Do("StateStore"), Do("Alarm")>>)
          /\ <<Do("StateStore"), Do("Alarm")>>[2] = Do("Alarm")
    OBVIOUS
  <2> QED
    BY <2>1 DEF StartsTimer
<1>5. <<Do("Alarm")>> # <<>> /\ <<Do("StateStore"), Do("Alarm")>> # <<>>
  OBVIOUS
<1>6. CASE r = Reaction("L", <<Do("Alarm")>>, logged)
  <2>1. r.actions = <<Do("Alarm")>> /\ r.state = "L" /\ r.logs = logged
    BY <1>6 DEF Reaction
  <2> QED
    BY <2>1, <1>1, <1>3, <1>5, PiecesType DEF ReactionOK
<1>7. CASE r = Reaction("C", <<Do("StateStore"), Do("Alarm")>>, logged)
  <2>1. r.actions = <<Do("StateStore"), Do("Alarm")>> /\ r.state = "C" /\ r.logs = logged
    BY <1>7 DEF Reaction
  <2> QED
    BY <2>1, <1>1, <1>4, <1>5, PiecesType DEF ReactionOK
<1> QED
  BY <1>2, <1>6, <1>7

-----------------------------------------------------------------------------
(* The invariant *)

\* An event taken from a sequence leaves one in which only callers of Append
\* wait for room.
LEMMA TailWaits ==
  ASSUME eventCh \in Seq(Event), eventCh # <<>>,
         \A k \in (EventCap + 1)..Len(eventCh) : eventCh[k] \notin Message
  PROVE  /\ Head(eventCh) \in Event /\ Tail(eventCh) \in Seq(Event)
         /\ \A k \in (EventCap + 1)..Len(Tail(eventCh)) : Tail(eventCh)[k] \notin Message
<1>1. EventCap \in Nat
  BY CapAssumption
<1> QED
  BY <1>1

\* So does an event put at the end, if it is a client's or has room.
LEMMA AppendWaits ==
  ASSUME eventCh \in Seq(Event), NEW ev \in Event,
         \A k \in (EventCap + 1)..Len(eventCh) : eventCh[k] \notin Message,
         ev \notin Message \/ Len(eventCh) < EventCap
  PROVE  /\ Append(eventCh, ev) \in Seq(Event)
         /\ \A k \in (EventCap + 1)..Len(Append(eventCh, ev)) :
              Append(eventCh, ev)[k] \notin Message
<1>1. EventCap \in Nat
  BY CapAssumption
<1> QED
  BY <1>1

\* A sequence of actions of which one has been done.
LEMMA TailStarts ==
  ASSUME todo \in Seq(Action), todo # <<>>
  PROVE  /\ Tail(todo) \in Seq(Action) /\ (Len(todo) # 1 => Tail(todo) # <<>>)
         /\ Head(todo) \in Action
         /\ Head(todo) # Do("Alarm") /\ StartsTimer(todo) =>
              StartsTimer(Tail(todo)) /\ Len(todo) # 1
<1>a. /\ Head(todo) \in Action /\ Tail(todo) \in Seq(Action)
      /\ Len(Tail(todo)) = Len(todo) - 1
  BY HeadTailProperties
<1>b. Len(todo) \in Nat /\ (Tail(todo) = <<>> => Len(Tail(todo)) = 0)
  BY EmptySeq
<1>1. Tail(todo) \in Seq(Action) /\ (Len(todo) # 1 => Tail(todo) # <<>>)
        /\ Head(todo) \in Action
  BY <1>a, <1>b
<1>2. ASSUME Head(todo) # Do("Alarm"), StartsTimer(todo)
      PROVE  StartsTimer(Tail(todo)) /\ Len(todo) # 1
  <2>1. PICK k \in 1..Len(todo) : todo[k] = Do("Alarm")
    BY <1>2 DEF StartsTimer
  <2>2. k # 1
    BY <1>2, <2>1
  <2>3. k - 1 \in 1..Len(Tail(todo)) /\ Tail(todo)[k - 1] = Do("Alarm")
    BY <2>1, <2>2
  <2> QED
    BY <2>1, <2>2, <2>3, <1>b DEF StartsTimer
<1> QED
  BY <1>1, <1>2

\* The invariant holds: each step keeps the types, and one that uses up the tick
\* or the running timer leaves an action that starts it.
THEOREM Invariant == Spec => []IInv
<1>1. Init => IInv
  <2>1. EventCap \in Nat /\ CommitCap \in Nat
    BY CapAssumption
  <2>2. /\ <<>> \in Seq(Event) /\ <<>> \in Seq(Client \cup {Other})
        /\ <<>> \in Seq(Action) /\ Len(<<>>) = 0
    OBVIOUS
  <2>3. \A k \in (EventCap + 1)..0 : FALSE
    BY <2>1
  <2>4. Init => TypeOK
    <3>1. SUFFICES ASSUME Init PROVE TypeOK
      OBVIOUS
    <3>2. /\ eventCh = <<>> /\ commitCh = <<>> /\ todo = <<>> /\ moving = Nothing
          /\ pc = "select" /\ state = "F" /\ shutdown = "no"
      BY <3>1 DEF Init
    <3>3. waiting = {} /\ logged = {} /\ armed = TRUE /\ tick = FALSE /\ peers = TRUE
      BY <3>1 DEF Init
    <3>4. {armed, tick, peers} \subseteq BOOLEAN
      BY <3>3
    <3>5. /\ eventCh \in Seq(Event) /\ commitCh \in Seq(Client \cup {Other})
          /\ todo \in Seq(Action) /\ Len(commitCh) <= CommitCap
          /\ \A k \in (EventCap + 1)..Len(eventCh) : eventCh[k] \notin Message
      BY <2>1, <2>2, <2>3, <3>2
    <3> QED
      BY <3>2, <3>3, <3>4, <3>5 DEF TypeOK
  <2> QED
    BY <2>4 DEF Init, IInv, TimerAlive
<1>2. IInv /\ [Next]_vars => IInv'
  <2> SUFFICES ASSUME IInv, [Next]_vars
               PROVE  IInv'
    OBVIOUS
  <2>1. TypeOK /\ TimerAlive
    BY DEF IInv
  <2>2. pc = "acting" => armed \/ tick \/ StartsTimer(todo)
    BY DEF IInv
  <2>a. /\ state \in {"F", "C", "L"}
        /\ eventCh \in Seq(Event)
        /\ \A k \in (EventCap + 1)..Len(eventCh) : eventCh[k] \notin Message
        /\ commitCh \in Seq(Client \cup {Other}) /\ Len(commitCh) <= CommitCap
    BY <2>1 DEF TypeOK
  <2>b. /\ waiting \subseteq Client /\ logged \subseteq Client
        /\ armed \in BOOLEAN /\ tick \in BOOLEAN /\ peers \in BOOLEAN
        /\ moving \in Message \cup {Nothing} /\ (moving # Nothing <=> pc = "moving")
        /\ shutdown \in {"no", "waiting", "done"}
    BY <2>1 DEF TypeOK
  <2>c. /\ pc \in {"select", "moving", "acting", "returned", "exited"}
        /\ todo \in Seq(Action) /\ (pc = "acting" => todo # <<>>)
    BY <2>1 DEF TypeOK
  <2>d. pc \in {"select", "moving"} => armed \/ tick
    BY <2>1 DEF TimerAlive
  <2>e. Message \subseteq Event /\ Nothing \notin Message
    BY DEF Event, Message, Nothing
  <2>f. \A c \in Client : AppendEvent(c) \in Event /\ AppendEvent(c) \notin Message
    BY DEF Event, Message, AppendEvent
  <2>3. CASE TakeEvent
    <3>1. PICK r \in ProcessEvent(Head(eventCh)) :
            /\ state' = r.state /\ todo' = r.actions /\ logged' = r.logs
            /\ pc' = IF r.actions = <<>> THEN "select" ELSE "acting"
      BY <2>3 DEF TakeEvent, React
    <3>2. /\ eventCh # <<>> /\ eventCh' = Tail(eventCh) /\ pc = "select"
          /\ UNCHANGED <<armed, tick, commitCh, waiting, moving, shutdown, peers>>
      BY <2>3 DEF TakeEvent, timerVars
    <3>3. /\ Head(eventCh) \in Event /\ Tail(eventCh) \in Seq(Event)
          /\ \A k \in (EventCap + 1)..Len(Tail(eventCh)) : Tail(eventCh)[k] \notin Message
      BY <2>a, <3>2, TailWaits
    <3>4. ReactionOK(r)
      BY <2>1, <3>1, <3>3, ProcessEventType
    <3>5. TypeOK'
      BY <2>a, <2>b, <3>1, <3>2, <3>3, <3>4 DEF TypeOK, ReactionOK
    <3> QED
      BY <2>d, <3>2, <3>5 DEF IInv, TimerAlive
  <2>4. CASE TakeTick
    <3>1. PICK r \in Timeout :
            /\ state' = r.state /\ todo' = r.actions /\ logged' = r.logs
            /\ pc' = IF r.actions = <<>> THEN "select" ELSE "acting"
      BY <2>4 DEF TakeTick, React
    <3>2. /\ tick' = FALSE /\ pc = "select"
          /\ UNCHANGED <<armed, eventCh, commitCh, waiting, moving, shutdown, peers>>
      BY <2>4 DEF TakeTick
    <3>3. ReactionOK(r) /\ r.actions # <<>> /\ StartsTimer(r.actions)
      BY <2>1, <3>1, TimeoutType
    <3>4. TypeOK'
      BY <2>a, <2>b, <3>1, <3>2, <3>3 DEF TypeOK, ReactionOK
    <3> QED
      BY <3>1, <3>3, <3>4 DEF IInv, TimerAlive, StartsTimer
  <2>5. CASE TakeMessage
    <3>1. /\ moving' \in Message /\ pc' = "moving" /\ pc = "select"
          /\ UNCHANGED <<state, todo, armed, tick, eventCh, commitCh, waiting, logged,
                         shutdown, peers>>
      BY <2>5 DEF TakeMessage, timerVars
    <3> QED
      BY <2>a, <2>b, <2>c, <2>d, <2>e, <3>1 DEF IInv, TypeOK, TimerAlive
  <2>6. CASE Move
    <3>1. /\ Len(eventCh) < EventCap /\ eventCh' = Append(eventCh, moving)
          /\ pc = "moving" /\ pc' = "select" /\ moving' = Nothing
          /\ UNCHANGED <<state, todo, armed, tick, commitCh, waiting, logged, shutdown, peers>>
      BY <2>6 DEF Move, timerVars, HasRoom
    <3>2. moving \in Event
      BY <2>b, <2>e, <3>1
    <3>3. /\ Append(eventCh, moving) \in Seq(Event)
          /\ \A k \in (EventCap + 1)..Len(Append(eventCh, moving)) :
               Append(eventCh, moving)[k] \notin Message
      BY <2>a, <3>1, <3>2, AppendWaits
    <3> QED
      BY <2>a, <2>b, <2>c, <2>d, <2>e, <3>1, <3>3 DEF IInv, TypeOK, TimerAlive
  <2>7. CASE doActions
    <3>1. /\ pc = "acting" /\ todo' = Tail(todo)
          /\ UNCHANGED <<state, eventCh, waiting, logged, moving, shutdown, peers>>
      BY <2>7 DEF doActions
    <3>2. /\ Tail(todo) \in Seq(Action) /\ (Len(todo) # 1 => Tail(todo) # <<>>)
          /\ Head(todo) \in Action
          /\ Head(todo) # Do("Alarm") /\ StartsTimer(todo) =>
               StartsTimer(Tail(todo)) /\ Len(todo) # 1
      BY <2>c, <3>1, TailStarts
    <3>3. \/ pc' = IF Len(todo) = 1 THEN "select" ELSE "acting"
          \/ pc' = "exited"
      BY <2>7 DEF doActions
    <3>4. commitCh' \in Seq(Client \cup {Other}) /\ Len(commitCh') <= CommitCap
      <4>1. CASE commitCh' = commitCh
        BY <4>1, <2>a
      <4>2. CASE commitCh' # commitCh
        <5>1. /\ Head(todo).do = "Commit" /\ Len(commitCh) < CommitCap
              /\ commitCh' = Append(commitCh, Head(todo).client)
          BY <4>2, <2>7 DEF doActions
        <5>2. Head(todo).client \in Client \cup {Other}
          BY <3>2, <5>1 DEF Action, Do, Commit
        <5>3. CommitCap \in Nat
          BY CapAssumption
        <5> QED
          BY <2>a, <5>1, <5>2, <5>3
      <4> QED
        BY <4>1, <4>2
    <3>5. CASE Head(todo) = Do("Alarm")
      <4>1. armed' = TRUE /\ tick' = tick
        BY <2>7, <3>5 DEF doActions, AlarmHandler, Do
      <4> QED
        BY <2>a, <2>b, <2>c, <3>1, <3>2, <3>3, <3>4, <4>1 DEF IInv, TypeOK, TimerAlive
    <3>6. CASE Head(todo) # Do("Alarm")
      <4>1. armed' = armed /\ tick' = tick
        BY <2>7, <3>2, <3>6 DEF doActions, timerVars, Action, Do, Commit
      <4>2. TypeOK'
        BY <2>a, <2>b, <2>c, <3>1, <3>2, <3>3, <3>4, <4>1 DEF TypeOK
      <4>3. armed \/ tick \/ (StartsTimer(Tail(todo)) /\ Len(todo) # 1)
        BY <2>2, <3>1, <3>2, <3>6
      <4> QED
        BY <3>1, <3>3, <4>1, <4>2, <4>3 DEF IInv, TimerAlive, StartsTimer
    <3> QED
      BY <3>5, <3>6
  <2>8. CASE Fire
    BY <2>8, <2>a, <2>b, <2>c DEF IInv, TypeOK, TimerAlive, Fire, loopVars
  <2>9. ASSUME NEW c \in Client, AppendCommand(c)
        PROVE  IInv'
    <3>1. /\ eventCh' = Append(eventCh, AppendEvent(c))
          /\ waiting' = waiting \cup {c}
          /\ UNCHANGED <<state, pc, moving, todo, armed, tick, commitCh, logged, shutdown, peers>>
      BY <2>9 DEF AppendCommand, loopVars, timerVars
    <3>2. /\ Append(eventCh, AppendEvent(c)) \in Seq(Event)
          /\ \A k \in (EventCap + 1)..Len(Append(eventCh, AppendEvent(c))) :
               Append(eventCh, AppendEvent(c))[k] \notin Message
      BY <2>a, <2>f, AppendWaits
    <3> QED
      BY <2>2, <2>a, <2>b, <2>c, <2>d, <3>1, <3>2 DEF IInv, TypeOK, TimerAlive, StartsTimer
  <2>10. CASE TakeCommit
    <3>1. /\ commitCh # <<>> /\ commitCh' = Tail(commitCh)
          /\ waiting' = waiting \ {Head(commitCh)}
          /\ UNCHANGED <<state, pc, moving, todo, armed, tick, eventCh, logged, shutdown, peers>>
      BY <2>10 DEF TakeCommit, loopVars, timerVars
    <3>2. Tail(commitCh) \in Seq(Client \cup {Other}) /\ Len(Tail(commitCh)) = Len(commitCh) - 1
      BY <2>a, <3>1, HeadTailProperties
    <3>3. CommitCap \in Nat /\ Len(commitCh) \in Nat
      BY <2>a, CapAssumption
    <3> QED
      BY <2>2, <2>a, <2>b, <2>c, <2>d, <3>1, <3>2, <3>3 DEF IInv, TypeOK, TimerAlive, StartsTimer
  <2>11. CASE FallSilent
    BY <2>2, <2>11, <2>a, <2>b, <2>c, <2>d
       DEF IInv, TypeOK, TimerAlive, StartsTimer, FallSilent, loopVars, timerVars
  <2>12. CASE Shutdown
    BY <2>2, <2>12, <2>a, <2>b, <2>c, <2>d
       DEF IInv, TypeOK, TimerAlive, StartsTimer, Shutdown, loopVars, timerVars
  <2>13. CASE Quit
    BY <2>13, <2>a, <2>b, <2>c
       DEF IInv, TypeOK, TimerAlive, Quit, timerVars
  <2>14. CASE UNCHANGED vars
    BY <2>2, <2>14, <2>a, <2>b, <2>c, <2>d
       DEF IInv, TypeOK, TimerAlive, StartsTimer, vars, loopVars, timerVars
  <2> QED
    BY <2>3, <2>4, <2>5, <2>6, <2>7, <2>8, <2>9, <2>10, <2>11, <2>12, <2>13, <2>14 DEF Next
<1> QED
  BY <1>1, <1>2, PTL DEF Spec

\* Every variable keeps its type (CapAssumption is all that is asked of the
\* capacities): the channels hold no more than they can, and whoever waits for
\* room in EventCh is a caller of Append.
THEOREM TypeCorrect == Spec => []TypeOK
<1>1. IInv => TypeOK
  BY DEF IInv
<1> QED
  BY <1>1, Invariant, PTL

\* The loop never waits for its next event without a timer that runs or has gone
\* off: no state and no order of events, resets and ticks puts a node to sleep.
THEOREM TimerStaysAlive == Spec => []TimerAlive
<1>1. IInv => TimerAlive
  BY DEF IInv
<1> QED
  BY <1>1, Invariant, PTL
=============================================================================
