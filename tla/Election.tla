------------------------------ MODULE Election ------------------------------
(***************************************************************************)
(* What voting promises, with no messages and no counting: a server votes  *)
(* in ever later terms, and a candidate leads its term once a quorum of    *)
(* the cluster has voted for it.                                           *)
(***************************************************************************)
EXTENDS Naturals

CONSTANTS Server, Term,
          Quorum  \* sets of servers, any two of which have one in common

VARIABLES ballots,  \* the votes cast: [term, voter, candidate]
          elected   \* the <<term, leader>> elected

vars == <<ballots, elected>>

Voters(c, t) == {b.voter : b \in {d \in ballots : d.term = t /\ d.candidate = c}}

Init == ballots = {} /\ elected = {}

Vote(v, c, t) ==
  /\ \A b \in ballots : b.voter = v => b.term < t
  /\ ballots' = ballots \cup {[term |-> t, voter |-> v, candidate |-> c]}
  /\ UNCHANGED elected

Elect(c, t) ==
  /\ Voters(c, t) \in Quorum
  /\ elected' = elected \cup {<<t, c>>}
  /\ UNCHANGED ballots

Next == \E c \in Server, t \in Term :
          Elect(c, t) \/ \E v \in Server : Vote(v, c, t)

Spec == Init /\ [][Next]_vars
=============================================================================
