---------------------------- MODULE MCCreditCache ----------------------------
(* CreditCache for TLC.                                                    *)
EXTENDS CreditCache

CONSTANTS c1, c2, c3

ThreeCalls  == {c1, c2, c3}
ThreeCosts  == [c \in ThreeCalls |-> IF c = c1 THEN 0 ELSE 4]
SmallInt    == -4
=============================================================================
