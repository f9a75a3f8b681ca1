------------------------------ MODULE MCPricing ------------------------------
(* Pricing for TLC: words of five bits, so that MaxInt is 15, and rows     *)
(* whose products leave one word, or round up to exactly 2^5.              *)
EXTENDS Pricing

CONSTANTS k1, k2, k3

ThreeKeys == {k1, k2, k3}

SomeRows == {[unit |-> 1, amount |-> 3], [unit |-> 3, amount |-> 4],
             [unit |-> 2, amount |-> 9]}
OneOrTwo == UNION {[D -> SomeRows] : D \in SUBSET Metrics}
SomeUses == {<<7, 7>>, <<0, 3>>, <<15, 1>>}
=============================================================================
