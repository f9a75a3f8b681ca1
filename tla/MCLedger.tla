------------------------------ MODULE MCLedger ------------------------------
(* Ledger for TLC: two owners who pay each other, with a merchant and a    *)
(* key each.                                                               *)
EXTENDS Ledger

Owners    == {"alice", "bob"}
Shops     == {"A", "B"}
ShopOwner == [m \in Shops |-> IF m = "A" THEN "alice" ELSE "bob"]
KeysOf    == {"kA", "kB"}
KeyPayer  == [k \in KeysOf |-> IF k = "kA" THEN "alice" ELSE "bob"]
KeyMain   == [k \in KeysOf |-> IF k = "kA" THEN "B" ELSE "A"]

Charge(id, k, gross, m, amount) ==
  [kind |-> "charge", id |-> id, key |-> k, gross |-> gross,
   commissions |-> <<[merchant |-> m, amount |-> amount]>>]
Topup(id, ref) ==
  [kind |-> "topup", id |-> id, ref |-> ref, account |-> "alice", amount |-> 5]

(* A Charge, its retry, one the other way round whose merchant ends with a *)
(* negative net, and one whose commission exceeds its gross; a top-up, its *)
(* retry, and one that reuses the reference.                               *)
Bodies == [c1 |-> Charge("o1", "kA", 3, "A", 1), c2 |-> Charge("o1", "kA", 3, "A", 1),
           c3 |-> Charge("o2", "kB", 10003, "B", 10003),
           c4 |-> Charge("o3", "kB", 3, "A", 4),
           t1 |-> Topup("i1", "r1"), t2 |-> Topup("i1", "r1"), t3 |-> Topup("i2", "r1")]
Sent   == DOMAIN Bodies

Together == {{"c1", "c2", "c3"}, {"c4", "t1", "t2", "t3"}, {"c1", "c3", "t1"}}
=============================================================================
