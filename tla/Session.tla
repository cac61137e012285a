------------------------------ MODULE Session -------------------------------
(***************************************************************************)
(* One client's connection to a server (src/assign4/server_main.go: serve, *)
(* reply; fs/msg.go: GetMsg). The client sends any number of commands      *)
(* ahead; serve takes them off one by one and writes one reply for each.   *)
(* What a command does is left to Server and FileSystem: here it has one   *)
(* of the responses ProcessMsg can give.                                   *)
(***************************************************************************)
EXTENDS Parser, SequencesExt

CONSTANTS Command,   \* [line: chunk, contents: chunks]
          Version,   \* versions of files
          Size,      \* sizes of files
          Nil        \* no response yet

\* What is in a file has been taken off a stream.
ASSUME FileAssumption ==
  Version \subseteq Nat \ {0} /\ Size \subseteq 0..MAX_CONTENT_SIZE

Chunks == [word : STRING, args : Seq(Int \cup {Word}), size : Nat]

\* Where a line says how many bytes of contents follow.
Announced == [write |-> 2, cas |-> 3, CONTENTS |-> 2]

\* A client sends any line, and contents with those that announce some, as many
\* as they announce or not, and with nothing else.
ASSUME CommandAssumption ==
  \A c \in Command :
    /\ c.line \in Chunks /\ c.contents \in Seq(Chunks)
    /\ c.contents # <<>> <=> c.line.word \in DOMAIN Announced

VARIABLES
  cmds,      \* what the client sends
  input,     \* what serve has not read yet
  served,    \* how many commands GetMsg has taken
  pc,        \* serve: reading, waiting for the commit channel, closed, crashed
  msg,       \* the message it waits for
  response,  \* the variable of serve, kept from one command to the next
  sent       \* the replies written

vars == <<cmds, input, served, pc, msg, response, sent>>

-----------------------------------------------------------------------------
(* Slips *)

SlipRefuses(err) == FALSE

SlipReply(m, next) ==
  /\ m # Nil
  /\ sent' = sent \o [twice \in 1..2 |-> [to |-> served', msg |-> m]]
  /\ pc' = next

-----------------------------------------------------------------------------

Stream(cs) == FlattenSeq([k \in 1..Len(cs) |-> <<cs[k].line>> \o cs[k].contents])

NoMsg == [kind |-> "-"]

Messages ==
  [kind : {"C", "F", "O", "V", "M", "R"}, version : Nat, numbytes : Nat,
   exptime : Nat, of : Nat]

ASSUME NilAssumption == Nil \notin Messages

Init ==
  /\ cmds \in Command \X Command \X Command
  /\ input = Stream(cmds)
  /\ served = 0 /\ pc = "reading" /\ msg = NoMsg
  /\ response = Nil /\ sent = <<>>

\* A message for the client, of being the command it is the response to.
Message(kind, version, numbytes, k) ==
  [kind |-> kind, version |-> version, numbytes |-> numbytes, exptime |-> 0,
   of |-> k]

\* What ProcessMsg may return for command k; what a read tells of the expiry
\* time is always 0.
Responses(kind, k) ==
  CASE kind = "r" -> {Message("C", v, n, k) : v \in Version, n \in Size}
                       \cup {Message("F", 0, 0, k)}
    [] kind = "w" -> {Message("O", v, 0, k) : v \in Version}
    [] kind = "c" -> {Message(o, v, 0, k) : o \in {"O", "V"}, v \in Version}
    [] kind = "d" -> {Message("O", 0, 0, k), Message("F", 0, 0, k)}

\* reply writes m and serve goes on to next, or the client is gone and it ends.
\* There is nothing to write before the first response: serve panics.
reply(m, next) ==
  \/ /\ m # Nil
     /\ sent' = Append(sent, [to |-> served', msg |-> m])
     /\ pc' = next
  \/ /\ m # Nil
     /\ pc' = "closed"
     /\ UNCHANGED sent
  \/ /\ m = Nil
     /\ pc' = "crashed"
     /\ UNCHANGED sent

Refusal == Message("M", 0, 0, 0)

\* Whether an error of the message is answered by a refusal.
Refuses(err) == err = "msg"

\* serve reads a message, and answers it at once unless it must be replicated. It
\* does not get one while bytes that were announced do not come.
serve ==
  /\ pc = "reading" /\ input # <<>>
  /\ served' = served + 1
  /\ LET g == GetMsg(input) IN
       /\ g.err # "short"
       /\ input' = g.rest
       /\ \/ /\ g.err = "panic"
             /\ pc' = "crashed"
             /\ UNCHANGED <<msg, response, sent>>
          \/ /\ g.err = "fatal"
             /\ reply(Refusal, "closed")
             /\ UNCHANGED <<msg, response>>
          \/ /\ Refuses(g.err)
             /\ reply(Refusal, "reading")
             /\ UNCHANGED <<msg, response>>
          \/ /\ g.err \in {"none", "msg"} /\ ~Refuses(g.err)
             /\ \/ /\ g.msg.kind \in {"w", "c", "d"}
                   /\ msg' = g.msg
                   /\ pc' = "waiting"
                   /\ UNCHANGED <<response, sent>>
                \/ /\ g.msg.kind = "r"
                   /\ response' \in Responses("r", served')
                   /\ reply(response', "reading")
                   /\ UNCHANGED msg
                \/ /\ g.msg.kind \notin {"w", "c", "d", "r"}
                   /\ reply(response, "reading")
                   /\ UNCHANGED <<msg, response>>
  /\ UNCHANGED cmds

\* The command has been replicated and processed.
Committed ==
  /\ pc = "waiting"
  /\ response' \in Responses(msg.kind, served)
  /\ UNCHANGED served
  /\ reply(response', "reading")
  /\ msg' = NoMsg
  /\ UNCHANGED <<cmds, input>>

\* This server is not the leader: the client is sent to another.
Redirected ==
  /\ pc = "waiting"
  /\ UNCHANGED served
  /\ reply(Message("R", 0, 0, served), "closed")
  /\ msg' = NoMsg
  /\ UNCHANGED <<cmds, input, response>>

\* The client goes: GetMsg finds the end of the stream, at the start of a command
\* or in it, and nobody is there to read the ERR_CMD_ERR that serve writes.
HangUp ==
  /\ pc = "reading"
  /\ pc' = "closed"
  /\ UNCHANGED <<cmds, input, served, msg, response, sent>>

Next == serve \/ Committed \/ Redirected \/ HangUp

Spec == Init /\ [][Next]_vars

-----------------------------------------------------------------------------
(* What must hold *)

\* What the comment of msg.go says a command is: how many fields follow the first,
\* and which of them are numbers.
Format ==
  [read   |-> [least |-> 1, most |-> 1, numbers |-> {}],
   write  |-> [least |-> 2, most |-> 3, numbers |-> {2, 3}],
   cas    |-> [least |-> 3, most |-> 4, numbers |-> {2, 3, 4}],
   delete |-> [least |-> 1, most |-> 1, numbers |-> {}]]

Request == DOMAIN Format

Reply == {"CONTENTS", "OK", "ERR_VERSION", "ERR_FILE_NOT_FOUND", "ERR_CMD_ERR",
          "ERR_INTERNAL"}

\* How many bytes a client has sent as contents, without the last CRLF.
Length(contents) == Bytes(contents)[Len(contents)] - 2

\* The line of c gives a number of bytes, and other than follow.
Lies(c) ==
  LET args == c.line.args
      p == Announced[c.line.word]
  IN /\ c.line.word \in DOMAIN Announced /\ p <= Len(args)
     /\ args[p] # Word /\ args[p] # Length(c.contents)

TooLong(c) == c.contents # <<>> /\ Length(c.contents) > MAX_CONTENT_SIZE

\* A field that should be a number and is not.
BadNumber(c) ==
  \E p \in Format[c.line.word].numbers :
    p <= Len(c.line.args) /\ c.line.args[p] = Word

Right(c) ==
  LET f == Format[c.line.word] IN
    /\ c.line.word \in Request /\ Len(c.line.args) \in f.least..f.most
    /\ ~BadNumber(c) /\ ~Lies(c) /\ ~TooLong(c)

\* Has a mistake that msg.go says it finds. (It lets more fields pass.)
Mistaken(c) ==
  LET f == Format[c.line.word] IN
    \/ c.line.word \notin Request \cup Reply
    \/ c.line.word \in Request /\ Len(c.line.args) < f.least
    \/ c.line.word \in Request /\ Len(c.line.args) <= f.most /\ BadNumber(c)
    \/ TooLong(c)

\* None of the first k commands announces other contents than follow: else its
\* contents, or what follows, may be taken for commands, or for contents.
Honest(k) == \A j \in 1..Len(cmds) : j <= k => ~Lies(cmds[j])

\* Every variable has its type, and serve waits only for what is replicated.
TypeOK ==
  /\ served \in Nat
  /\ pc \in {"reading", "waiting", "closed", "crashed"}
  /\ msg # NoMsg <=> pc = "waiting"
  /\ pc = "waiting" => msg.kind \in {"w", "c", "d"}
  /\ Len(sent) <= served

\* serve keeps its place in the stream: when it reads, what is left starts with
\* a command, whatever mistakes it has refused before ("we can at least consume
\* the entirety of the current command", msg.go), so that contents are never
\* taken for a command, nor a command for contents.
InStep ==
  pc = "reading" /\ Honest(served) =>
    served <= Len(cmds) /\ input = Stream(SubSeq(cmds, served + 1, Len(cmds)))

\* Commands and replies go together: the k-th reply is to the k-th command. It
\* refuses none that is right and each with a mistake that msg.go names, and
\* what it says to a request is of this request. (A client that sends a response
\* as a command gets the previous response again.) Nor does a command that is
\* right end the process, whatever came before it.
OwnReplies ==
  /\ \A k \in 1..Len(sent) : Honest(k) =>
       LET m == sent[k].msg IN
         /\ sent[k].to = k /\ k <= Len(cmds)
         /\ Right(cmds[k]) => m.kind # "M"
         /\ Mistaken(cmds[k]) => m.kind = "M"
         /\ cmds[k].line.word \in Request /\ m.kind # "M" => m.of = k
  /\ pc = "crashed" /\ Honest(served) =>
       served \in 1..Len(cmds) /\ ~Right(cmds[served])

\* GetMsg at the client's end reads back what reply wrote, all of it and no
\* more, a redirection excepted: msg.go has no such message.
RoundTrip ==
  \A k \in 1..Len(sent) :
    LET m == sent[k].msg
        g == GetMsg(Wire(m))
    IN m.kind # "R" =>
         /\ g.err = "none" /\ g.rest = <<>>
         /\ g.msg.kind = m.kind /\ g.msg.version = m.version
         /\ g.msg.numbytes = m.numbytes
=============================================================================
