------------------------------- MODULE MCCalls -------------------------------
(* Calls for TLC: every two of a chat, a stream and two sockets, which     *)
(* compete for one secret.                                                 *)
EXTENDS Calls

Pairs == {{"c1", "x1"}, {"c1", "w1"}, {"x1", "w1"}, {"w1", "w2"}}

Costs == {[gross |-> 0, commission |-> 0], [gross |-> 2, commission |-> 1],
          [gross |-> 1, commission |-> 2]}
=============================================================================
