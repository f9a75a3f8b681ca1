--------------------------- MODULE MCChargeOutbox ---------------------------
(* ChargeOutbox for TLC.  The cfg files give the constants their values.   *)
EXTENDS ChargeOutbox, TLC

CONSTANTS o1, o2, o3

Empty == {}
One   == {o1}
Three == {o1, o2, o3}
First  == {o1}
Second == {o2}
Third  == {o3}

=============================================================================
