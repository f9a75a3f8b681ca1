------------------------------- MODULE Billing -------------------------------
(***************************************************************************)
(* What GizWay and GizPay together promise about the money of one AI call, *)
(* with no worker, message, retry or crash: the payer is debited at most   *)
(* once for an order, and the provider key's owner is credited at most     *)
(* once, and only for an order that GizPay has charged.                    *)
(***************************************************************************)
EXTENDS Naturals

CONSTANT Orders       \* the external order IDs

VARIABLES debits,     \* debits[o]: charges GizPay holds under ID o
          credited    \* credited[o]: times o's commission was added to earned

bvars == <<debits, credited>>

(* An ID may already be taken when the order is placed.                    *)
Init == /\ debits \in [Orders -> {0, 1}]
        /\ credited = [o \in Orders |-> 0]

Charge(o) == /\ debits[o] = 0
             /\ debits' = [debits EXCEPT ![o] = 1]
             /\ UNCHANGED credited

Credit(o) == /\ debits[o] = 1
             /\ credited[o] = 0
             /\ credited' = [credited EXCEPT ![o] = 1]
             /\ UNCHANGED debits

Next == \E o \in Orders : Charge(o) \/ Credit(o)

Spec == Init /\ [][Next]_bvars
==============================================================================
