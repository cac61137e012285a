------------------------------- MODULE Server -------------------------------
(***************************************************************************)
(* The front end of one server (src/assign4/server_main.go): a goroutine   *)
(* that accepts connections, one (serve) for each client, and one          *)
(* (ListenCommitChannel) that feeds committed commands to the file system  *)
(* and the answers to the clients.                                         *)
(*                                                                         *)
(* The RaftNode below is as the module Raft shows it to be: it takes a     *)
(* command or gives it back, may lose what is not committed, puts what it  *)
(* commits in CommitCh in order, and may pass some of it over; what it     *)
(* stores on disk may fall behind its log and be shifted against it. The   *)
(* listener reads from the disk.                                           *)
(* Conventions: the k-th client accepted since the start has the id k; an  *)
(* index is the code's index plus one; a command is told from all others   *)
(* by req. The answer to a command is the command itself.                  *)
(***************************************************************************)
EXTENDS Naturals, Sequences, FiniteSets

VARIABLES
  \* the server
  clientid,   \* the latest client id, the ids in ClientChanMap are 1..clientid
  conn,       \* each client's serve: reading, waiting for an answer, ended
  asked,      \* the command each client's serve waits for
  sending,    \* the listener's send to a client, with the lock held
  processing, \* the commit value the listener works on: its index, its command,
              \* and the next index to process
  prevLogIndexProcessed,
  done,       \* history: the commands ProcessMsg was called for
  answered,   \* history: for each answer, the command asked and the one answered
  \* the RaftNode
  eventCh, commitCh, log, committed,
  disk,       \* the log on disk (logFP)
  taken,      \* history: the commands it has taken as leader
  up,         \* whether the process runs: it exits when it cannot read its log
  \* history: how often the process started, how many commands clients sent
  lives, reqs

serverVars == <<clientid, conn, asked, sending, processing,
                prevLogIndexProcessed, done, answered>>
raftVars == <<eventCh, commitCh, log, committed, disk, taken>>
vars == <<serverVars, raftVars, up, lives, reqs>>

-----------------------------------------------------------------------------
(* Slips: what single definitions below could say by mistake. Each is put in *)
(* the place of its definition to see that the properties notice.            *)

SlipFirstMissing(n) == n

SlipRemember(n) == UNCHANGED prevLogIndexProcessed

SlipHasChannel(c) == TRUE

-----------------------------------------------------------------------------

\* A command as the log has it, and any one of a client of another server.
Command == [client : Nat, req : Nat, life : Nat]
Foreign == [client |-> 0, req |-> 0, life |-> 0]

Nothing == [to |-> 0, req |-> 0, err |-> FALSE]
Idle == [upto |-> 0, next |-> 0, data |-> Foreign]

Init ==
  /\ clientid = 0 /\ conn = <<>> /\ asked = <<>>
  /\ sending = Nothing /\ processing = Idle
  /\ prevLogIndexProcessed = 0
  /\ done = <<>> /\ answered = {}
  /\ eventCh = <<>> /\ commitCh = <<>> /\ log = <<>> /\ committed = 0
  /\ disk = <<>> /\ taken = {} /\ up = TRUE
  /\ lives = 1 /\ reqs = 0

-----------------------------------------------------------------------------
(* Connections *)

\* A client connects: it gets an id and a channel, under the lock.
Accept ==
  /\ up
  /\ sending = Nothing
  /\ clientid' = clientid + 1
  /\ conn' = Append(conn, "reading")
  /\ asked' = Append(asked, 0)
  /\ UNCHANGED <<sending, processing, prevLogIndexProcessed, done, answered,
                 raftVars, up, lives, reqs>>

\* serve reads a write, cas or delete, gives it to the RaftNode and waits.
Request(c) ==
  /\ up
  /\ conn[c] = "reading"
  /\ reqs' = reqs + 1
  /\ asked' = [asked EXCEPT ![c] = reqs']
  /\ conn' = [conn EXCEPT ![c] = "waiting"]
  /\ eventCh' = Append(eventCh, [client |-> c, req |-> reqs', life |-> lives])
  /\ UNCHANGED <<clientid, sending, processing, prevLogIndexProcessed, done,
                 answered, commitCh, log, committed, disk, taken, up, lives>>

\* The client goes, or sends what cannot be read. A serve that waits for an
\* answer does not notice.
Hangup(c) ==
  /\ up
  /\ conn[c] = "reading"
  /\ conn' = [conn EXCEPT ![c] = "ended"]
  /\ UNCHANGED <<clientid, asked, sending, processing, prevLogIndexProcessed,
                 done, answered, raftVars, up, lives, reqs>>

\* A waiting serve takes what the listener sends and replies; it ends after a
\* redirection, or when the reply cannot be written.
Receive(c) ==
  /\ up
  /\ sending.to = c /\ conn[c] = "waiting"
  /\ \/ conn' = [conn EXCEPT ![c] = "ended"]
     \/ ~sending.err /\ conn' = [conn EXCEPT ![c] = "reading"]
  /\ answered' = answered \cup
       {[asked |-> asked[c], got |-> sending.req, client |-> c, life |-> lives]}
  /\ asked' = [asked EXCEPT ![c] = 0]
  /\ sending' = Nothing
  /\ UNCHANGED <<clientid, processing, prevLogIndexProcessed, done,
                 raftVars, up, lives, reqs>>

-----------------------------------------------------------------------------
(* The listener *)

HasChannel(c) == c \in 1..clientid

\* The send to the client of command d, if it has a channel here.
SendTo(d, err) ==
  sending' = IF HasChannel(d.client)
               THEN [to |-> d.client, req |-> d.req, err |-> err] ELSE Nothing

Listening == up /\ processing = Idle /\ sending = Nothing

\* A commit value whose index is not beyond this has been processed.
Processed(n) == n <= prevLogIndexProcessed

\* The first index to process for a commit value with index n.
FirstMissing(n) == prevLogIndexProcessed + 1

\* What is set once the commit value is done with.
Remember(n) == prevLogIndexProcessed' = n

\* The listener takes the next commit value: a command given back is answered
\* by a redirection, and one that has been processed is skipped.
ListenCommitChannel ==
  /\ Listening
  /\ commitCh # <<>>
  /\ commitCh' = Tail(commitCh)
  /\ LET v == Head(commitCh) IN
       \/ /\ v.err
          /\ SendTo(v.data, TRUE)
          /\ UNCHANGED processing
       \/ /\ ~v.err /\ Processed(v.index)
          /\ UNCHANGED <<sending, processing>>
       \/ /\ ~v.err /\ ~Processed(v.index)
          /\ processing' = [upto |-> v.index, next |-> FirstMissing(v.index),
                            data |-> v.data]
          /\ UNCHANGED sending
  /\ UNCHANGED <<clientid, conn, asked, prevLogIndexProcessed, done, answered,
                 eventCh, log, committed, disk, taken, up, lives, reqs>>

\* A command is processed and the answer sent to the client.
ProcessMsg(d) == done' = Append(done, d) /\ SendTo(d, FALSE)

Filling == up /\ sending = Nothing /\ processing.next < processing.upto

\* The commands before the index of the commit value are read from the disk...
ProcessMissing ==
  /\ Filling
  /\ processing.next <= Len(disk)
  /\ ProcessMsg(disk[processing.next])
  /\ processing' = [processing EXCEPT !.next = @ + 1]
  /\ UNCHANGED <<clientid, conn, asked, prevLogIndexProcessed, answered,
                 raftVars, up, lives, reqs>>

\* ... which ends the process when the disk does not have that many.
GetFails ==
  /\ Filling
  /\ processing.next > Len(disk)
  /\ up' = FALSE
  /\ UNCHANGED <<serverVars, raftVars, lives, reqs>>

\* The last one is in the commit value.
ProcessLast ==
  /\ up /\ sending = Nothing
  /\ processing # Idle /\ processing.next = processing.upto
  /\ ProcessMsg(processing.data)
  /\ processing' = Idle
  /\ Remember(processing.upto)
  /\ UNCHANGED <<clientid, conn, asked, answered, raftVars, up, lives, reqs>>

-----------------------------------------------------------------------------
(* The RaftNode *)

\* The log on disk after a LogStore of d for the index after n: one that finds
\* its index taken only cuts the log there.
LogStore(n, d) == IF Len(disk) > n THEN SubSeq(disk, 1, n) ELSE Append(disk, d)

\* The RaftNode processes an append event: a leader takes the command into its
\* log, any other server gives it back.
RaftAppend ==
  /\ up
  /\ eventCh # <<>>
  /\ eventCh' = Tail(eventCh)
  /\ LET d == Head(eventCh) IN
       \/ /\ log' = Append(log, d)
          /\ disk' = LogStore(Len(log), d)
          /\ taken' = taken \cup {d}
          /\ UNCHANGED commitCh
       \/ /\ commitCh' = Append(commitCh, [index |-> 0, data |-> d, err |-> TRUE])
          /\ UNCHANGED <<log, disk, taken>>
  /\ UNCHANGED <<committed, serverVars, up, lives, reqs>>

\* It learns that the log is committed up to n, and puts that in CommitCh or,
\* when a candidate or a leader learns it from a request, passes it over.
RaftCommit(n) ==
  /\ up
  /\ n \in (committed + 1)..Len(log)
  /\ committed' = n
  /\ \/ commitCh' = commitCh \o [k \in 1..(n - committed) |->
          [index |-> committed + k, data |-> log[committed + k], err |-> FALSE]]
     \/ UNCHANGED commitCh
  /\ UNCHANGED <<eventCh, log, disk, taken, serverVars, up, lives, reqs>>

\* Another leader's request cuts the log after n, and may put a command there:
\* one of a client of another server, or one this server took and had spread
\* before. A candidate or a leader stores nothing of it on disk.
RaftReplace(n) ==
  /\ up
  /\ n \in committed..Len(log)
  /\ \/ /\ log' = SubSeq(log, 1, n)
        /\ UNCHANGED disk
     \/ \E d \in taken \cup {Foreign} :
          /\ \A k \in 1..n : d # Foreign => log[k] # d
          /\ log' = Append(SubSeq(log, 1, n), d)
          /\ disk' \in {disk, LogStore(n, d)}
  /\ UNCHANGED <<eventCh, commitCh, committed, taken, serverVars, up, lives, reqs>>

-----------------------------------------------------------------------------

\* The process ends, if it has not, and is started again with "true": clients,
\* files and counters are gone, the log is what the disk has.
Restart ==
  /\ up' = TRUE
  /\ lives' = lives + 1
  /\ clientid' = 0 /\ conn' = <<>> /\ asked' = <<>>
  /\ sending' = Nothing /\ processing' = Idle
  /\ prevLogIndexProcessed' = 0
  /\ done' = <<>>
  /\ eventCh' = <<>> /\ commitCh' = <<>> /\ committed' = 0
  /\ log' = disk
  /\ UNCHANGED <<disk, taken, answered, reqs>>

Next ==
  \/ Accept
  \/ \E c \in 1..clientid : Request(c) \/ Hangup(c) \/ Receive(c)
  \/ ListenCommitChannel
  \/ ProcessMissing \/ GetFails \/ ProcessLast
  \/ RaftAppend
  \/ \E n \in 1..Len(log) : RaftCommit(n)
  \/ \E n \in 0..Len(log) : RaftReplace(n)
  \/ Restart

Spec == Init /\ [][Next]_vars

\* The goroutines run when they can, the clients when they want.
Fairness ==
  /\ WF_vars(ListenCommitChannel)
  /\ WF_vars(ProcessMissing \/ GetFails \/ ProcessLast)
  /\ WF_vars(\E c \in 1..clientid : Receive(c))

-----------------------------------------------------------------------------
(* What must hold *)

\* Every variable has its type, and an ended or reading serve waits for nothing.
TypeOK ==
  /\ clientid \in Nat /\ lives \in Nat /\ reqs \in Nat /\ up \in BOOLEAN
  /\ conn \in [1..clientid -> {"reading", "waiting", "ended"}]
  /\ asked \in [1..clientid -> Nat]
  /\ \A c \in 1..clientid : asked[c] # 0 <=> conn[c] = "waiting"
  /\ sending \in [to : 0..clientid, req : Nat, err : BOOLEAN]
  /\ processing \in [upto : Nat, next : Nat, data : Command]
  /\ prevLogIndexProcessed \in 0..committed
  /\ done \in Seq(Command)
  /\ log \in Seq(Command) /\ committed \in 0..Len(log)
  /\ eventCh \in Seq(Command) /\ disk \in Seq(Command)
  /\ taken \subseteq Command
  /\ commitCh \in Seq([index : Nat, data : Command, err : BOOLEAN])

\* What the disk has of the committed log is at its place. This need not be:
\* entries that came with a request a candidate or a leader got are not stored,
\* and the next one that is takes their place.
DiskAgrees == \A n \in 1..committed : n <= Len(disk) => disk[n] = log[n]

\* As long as the disk agrees, the file system sees the committed commands in
\* the order of the log, each once, with none left out, whatever CommitCh
\* passes over.
ProcessedInOrder ==
  DiskAgrees => \A n \in 1..Len(done) : n <= committed /\ done[n] = log[n]

\* No client has the id of a client of an earlier start whose command is in
\* the log: ids start at the beginning again, so this need not be.
NoIdReuse == \A n \in 1..Len(log) : log[n].life < lives => ~HasChannel(log[n].client)

\* As long as neither happens, the listener, which holds the lock, never sends to
\* a client that does not wait: it would stop there, and with it the server.
ListenerNotStuck ==
  NoIdReuse /\ DiskAgrees /\ sending # Nothing => conn[sending.to] = "waiting"

\* As long as neither happens, a client is answered for the command it sent and
\* for no other.
OwnAnswers ==
  NoIdReuse /\ DiskAgrees => \A a \in answered : a.life = lives => a.asked = a.got

\* Command r is given back, or in the log not after an index that came through
\* CommitCh.
Delivered(r) ==
  \E k \in 1..Len(commitCh) :
    \/ commitCh[k].err /\ commitCh[k].data.req = r
    \/ ~commitCh[k].err /\ \E n \in 1..commitCh[k].index : log[n].req = r

Waits(r) == \E c \in 1..clientid : conn[c] = "waiting" /\ asked[c] = r

\* Whoever waits for a command that is delivered gets its answer, unless the
\* process exits.
Answered(r) ==
  (Waits(r) /\ Delivered(r)) ~> (~Waits(r) \/ ~NoIdReuse \/ ~DiskAgrees \/ ~up)
===============================================================================
