---------------------------- MODULE RaftStaleAck ----------------------------
(***************************************************************************)
(* One long behaviour of Raft, chosen step by step: the acknowledgement a  *)
(* server gets for what it sent in one reign arrives in its next one.      *)
(* Every step is an action of Raft; the script only says which one.        *)
(***************************************************************************)
EXTENDS Raft

CONSTANTS a, b, c,       \* the three servers
          v, w, x, y, z  \* commands

VARIABLE step

\* <<"elect", i>>: the election timer of i fires; <<"append", i, d>>: leader i
\* takes command d; <<"beat", i>>: the heartbeat timer of i fires;
\* <<"recv", i, j>>: i processes a message of j;
\* <<"lose", i, j>>: the connection loses a message of j to i.
Script == <<
  \* term 1: a leads with the vote of c, and keeps x and y to itself
  <<"elect", a>>, <<"recv", c, a>>, <<"recv", a, c>>,
  <<"append", a, x>>, <<"append", a, y>>,
  \* term 2: b leads with the vote of c, and keeps z to itself
  <<"recv", b, a>>, <<"elect", b>>, <<"recv", c, b>>, <<"recv", b, c>>,
  <<"append", b, z>>,
  \* term 3: a leads again with the vote of c, and brings x and y to c; the
  \* acknowledgement is slow
  <<"recv", a, b>>, <<"recv", a, b>>, <<"elect", a>>, <<"lose", c, a>>,
  <<"recv", c, a>>,
  <<"recv", a, c>>, <<"recv", c, a>>, <<"recv", a, c>>, <<"recv", c, a>>,
  <<"recv", a, c>>, <<"recv", c, a>>,
  \* term 4: b leads again with the vote of c, and replaces x, y by z on c
  \* and on a
  <<"lose", b, a>>, <<"recv", b, a>>, <<"recv", b, a>>, <<"elect", b>>,
  <<"lose", c, b>>,
  <<"recv", c, b>>, <<"recv", b, c>>, <<"recv", c, b>>, <<"recv", b, c>>,
  <<"recv", c, b>>,
  <<"lose", a, b>>, <<"recv", a, b>>, <<"recv", a, b>>, <<"recv", a, b>>,
  <<"lose", b, a>>,
  <<"recv", b, a>>, <<"recv", b, a>>, <<"recv", a, b>>,
  \* term 5: a leads with the vote of b, takes w, and is told of term 3 by c
  <<"elect", a>>, <<"lose", b, a>>, <<"recv", b, a>>,
  <<"recv", a, b>>, <<"append", a, w>>,
  <<"lose", c, a>>, <<"recv", c, a>>, <<"recv", a, c>>,
  \* term 6: c leads with the vote of b, takes v and commits it
  <<"elect", c>>, <<"recv", b, c>>, <<"recv", b, a>>, <<"recv", b, c>>,
  <<"recv", c, b>>, <<"append", c, v>>, <<"beat", c>>,
  <<"recv", b, c>>, <<"recv", b, c>>, <<"recv", c, b>>, <<"recv", c, b>> >>

ScriptInit == Init /\ step = 1

ScriptNext ==
  /\ step <= Len(Script)
  /\ step' = step + 1
  /\ LET s == Script[step] IN
       \/ s[1] = "elect" /\ TimeoutElection(s[2])
       \/ s[1] = "beat" /\ TimeoutLeader(s[2])
       \/ s[1] = "append" /\ AppendLeader(s[2], s[3])
       \/ s[1] = "recv" /\ Receive(s[2], s[3])
       \/ s[1] = "lose" /\ Lose(s[3], s[2])

ScriptSpec == ScriptInit /\ [][ScriptNext]_<<vars, step>>
=============================================================================
