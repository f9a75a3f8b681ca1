---------------------------- MODULE Ledger_proofs ----------------------------
(***************************************************************************)
(* What Ledger guarantees about the standing of a Charge's key and         *)
(* merchant, about IDs, about the entries of a transaction and about the   *)
(* balances clients see, for every set of requests, accounts, keys and     *)
(* merchants.                                                              *)
(***************************************************************************)
EXTENDS Ledger, SequenceTheorems, FiniteSetTheorems, TLAPS

(* A Charge names a key of the system.                                     *)
LEMMA ChargeKey == \A r \in Charges : r \in Requests /\ Req[r].key \in Keys
BY RequestsAssumption DEF Charges

(* The initial states satisfy the invariant: nothing has begun.            *)
LEMMA StandingInit == Init => StandingInv
BY ChargeKey DEF Init, StandingInv

(* Steps that leave every transaction and the clock where they were, or    *)
(* end transactions without committing, keep the invariant.                *)
LEMMA StandingKept ==
  ASSUME StandingInv, NEW r \in Requests,
         \/ pc' = pc
         \/ pc' = [pc EXCEPT ![r] = "done"]
         \/ pc[r] = "new" /\ r \notin Charges /\ pc' = [pc EXCEPT ![r] = "work"],
         UNCHANGED <<started, committed, active, keyVars, now>>
  PROVE  StandingInv'
<1> USE ChargeKey DEF StandingInv, keyVars
<1>1. CASE pc' = pc  BY <1>1
<1>2. CASE pc' = [pc EXCEPT ![r] = "done"]  BY <1>2
<1>3. CASE pc[r] = "new" /\ r \notin Charges /\ pc' = [pc EXCEPT ![r] = "work"]
  BY <1>3
<1> QED  BY <1>1, <1>2, <1>3

(* Every step keeps the invariant.                                         *)
LEMMA StandingStep == StandingInv /\ [Next]_vars => StandingInv'
<1> SUFFICES ASSUME StandingInv, [Next]_vars PROVE StandingInv'  OBVIOUS
<1> USE ChargeKey
<1>1. ASSUME NEW r \in Requests, BeginCharge(r) PROVE StandingInv'
  <2>1. PICK s \in 0 .. now : started' = [started EXCEPT ![r] = s]
    BY <1>1 DEF BeginCharge
  <2>2. /\ pc[r] = "new" /\ UNCHANGED <<committed, active, keyVars, now>>
        /\ \/ pc' = [pc EXCEPT ![r] = "done"]
           \/ pc' = [pc EXCEPT ![r] = "resolve"]
    BY <1>1 DEF BeginCharge, End
  <2>3. s \in Int /\ s <= now  BY DEF StandingInv
  <2>4. r \notin committed  BY <2>2 DEF StandingInv
  <2>5. CASE pc' = [pc EXCEPT ![r] = "done"]
    BY <2>1, <2>2, <2>3, <2>4, <2>5 DEF StandingInv, keyVars
  <2>6. CASE pc' = [pc EXCEPT ![r] = "resolve"]
    BY <2>1, <2>2, <2>3, <2>4, <2>6 DEF StandingInv, keyVars
  <2> QED  BY <2>2, <2>5, <2>6
<1>2. ASSUME NEW r \in Requests, BeginTopup(r) PROVE StandingInv'
  BY <1>2, StandingKept DEF BeginTopup, End, Topups, Charges
<1>3. ASSUME NEW r \in Requests, Resolve(r) PROVE StandingInv'
  <2>1. UNCHANGED <<started, committed, active, keyVars, now>> /\ pc[r] = "resolve"
    BY <1>3 DEF Resolve
  <2>2. CASE pc' = [pc EXCEPT ![r] = "done"]  BY <2>1, <2>2, StandingKept
  <2>3. CASE /\ pc' = [pc EXCEPT ![r] = "work"]
             /\ key[Req[r].key] # "revoked" \/ started[r] <= revokedAt[Req[r].key]
             /\ Main[Req[r].key] \in active
    <3>1. r \in Charges /\ key[Req[r].key] = "revoked"
            => started[r] <= writtenAt[Req[r].key]
      BY <2>3 DEF StandingInv
    <3> QED  BY <2>1, <2>3, <3>1 DEF StandingInv, keyVars
  <2> QED  BY <1>3, <2>2, <2>3 DEF Resolve, End
<1>4. ASSUME NEW r \in Requests,
             TakeLock(r) \/ ReadMerchants(r) \/ Lookup(r) \/ Insert(r) \/ UpdateBalance(r)
      PROVE  StandingInv'
  <2>1. /\ UNCHANGED <<started, committed, active, keyVars, now>>
        /\ pc' = pc \/ pc' = [pc EXCEPT ![r] = "done"]
    BY <1>4 DEF TakeLock, ReadMerchants, Lookup, Insert, UpdateBalance, Go, End, unstepped
  <2> QED  BY <2>1, StandingKept
<1>5. ASSUME NEW r \in Requests, Commit(r) PROVE StandingInv'
  <2>1. /\ pc[r] = "work" /\ committed' = committed \cup {r}
        /\ pc' = [pc EXCEPT ![r] = "done"]
        /\ UNCHANGED <<started, active, keyVars, now>>
    BY <1>5 DEF Commit, AtCommit, End
  <2> QED  BY <2>1 DEF StandingInv, keyVars
<1>6. ASSUME NEW r \in Requests, Abort(r) PROVE StandingInv'
  BY <1>6, StandingKept DEF Abort, End, unstepped
<1>7. ASSUME NEW m \in Merchants, SwitchMerchant(m) PROVE StandingInv'
  BY <1>7 DEF SwitchMerchant, requestVars, keyVars, StandingInv
<1>8. ASSUME NEW k \in Keys, StartRevoke(k) PROVE StandingInv'
  BY <1>8 DEF StartRevoke, requestVars, StandingInv
<1>9. ASSUME NEW k \in Keys, WriteRevoke(k) PROVE StandingInv'
  BY <1>9 DEF WriteRevoke, requestVars, StandingInv
<1>10. CASE AdvanceClock
  BY <1>10 DEF AdvanceClock, requestVars, keyVars, StandingInv
<1>11. CASE UNCHANGED vars
  BY <1>11 DEF vars, StandingInv
<1> QED  BY <1>1, <1>2, <1>3, <1>4, <1>5, <1>6, <1>7, <1>8, <1>9, <1>10, <1>11,
            BoundsAssumption DEF Next, Progress, BreakDeadlock

(* The invariant holds in every behaviour of GizPay's ledger.              *)
THEOREM StandingIsKnown == Spec => []StandingInv
BY StandingInit, StandingStep, PTL DEF Spec

(* createCharge accepts a revoked key only for a service that started      *)
(* before the revocation was written.                                      *)
THEOREM RevocationStopsCharges == Spec => []RevokedKeysStopped
<1>1. StandingInv => RevokedKeysStopped  BY DEF StandingInv, RevokedKeysStopped
<1> QED  BY <1>1, StandingIsKnown, PTL

(* The FOR SHARE lock that createCharge takes keeps its product's merchant *)
(* active until the Charge has committed.                                  *)
THEOREM ActiveAtCommit == Spec => MainMerchantIsActive
<1>1. StandingInv /\ [Next]_vars
        => [\A r \in Charges \ committed : r \in committed' => Main[Req[r].key] \in active]_vars
  <2> SUFFICES ASSUME StandingInv, Next,
                      NEW r \in Charges \ committed, r \in committed'
               PROVE  Main[Req[r].key] \in active
    BY DEF vars
  <2>1. pc[r] = "work"
    BY DEF Next, Progress, BeginCharge, BeginTopup, Resolve, TakeLock, ReadMerchants, Lookup,
           Insert, UpdateBalance, Commit, AtCommit, Abort, BreakDeadlock, SwitchMerchant,
           StartRevoke, WriteRevoke, AdvanceClock, unstepped
  <2> QED  BY <2>1 DEF StandingInv
<1> QED  BY <1>1, StandingIsKnown, PTL DEF Spec, MainMerchantIsActive

(* platformFee is the share of the gross rounded up, computed without the  *)
(* product of the two, and never more than the gross.                      *)
THEOREM FeeIsRoundedUp ==
  ASSUME NEW gross \in Nat, NEW basisPoints \in Nat, basisPoints <= 10000
  PROVE  /\ PlatformFee(gross, basisPoints) \in 0 .. gross
         /\ 10000 * PlatformFee(gross, basisPoints) >= gross * basisPoints
         /\ 10000 * (PlatformFee(gross, basisPoints) - 1) < gross * basisPoints
<1> DEFINE whole == gross \div 10000
           rest  == gross % 10000
           x     == whole * basisPoints
           y     == rest * basisPoints
           fee   == x + (y + 9999) \div 10000
<1>1. whole \in Nat /\ rest \in 0 .. 9999 /\ gross = 10000 * whole + rest
  OBVIOUS
<1>2. x \in Nat /\ x <= 10000 * whole  BY <1>1
<1>3. y \in Nat /\ y <= 10000 * rest  BY <1>1
<1>4. gross * basisPoints = 10000 * x + y  BY <1>1
<1>5. PlatformFee(gross, basisPoints) = fee  BY DEF PlatformFee
<1> HIDE DEF whole, rest, x, y
<1>6. fee \in 0 .. gross  BY <1>1, <1>2, <1>3
<1>7. 10000 * fee >= 10000 * x + y /\ 10000 * (fee - 1) < 10000 * x + y
  BY <1>2, <1>3
<1> QED  BY <1>4, <1>5, <1>6, <1>7
-----------------------------------------------------------------------------
(* Sums of integers over finite sets.                                      *)

(* Induction over the naturals, about a set and not an operator.           *)
LEMMA NatSetInduction ==
  ASSUME NEW T, 0 \in T, \A n \in Nat : n \in T => n + 1 \in T
  PROVE  Nat \subseteq T
<1> DEFINE B == Nat \ T
           R == {p \in Nat \X Nat : p[1] < p[2]}
<1> SUFFICES ASSUME B # {} PROVE FALSE  OBVIOUS
<1>1. IsWellFoundedOn(R, Nat)  BY NatLessThanWellFounded DEF OpToRel
<1>2. \A x, y \in Nat : y < x => <<y, x>> \in R  OBVIOUS
<1> HIDE DEF R
<1>3. PICK x \in B : \A y \in B : ~(<<y, x>> \in R)  BY <1>1, WFMin
<1>4. x \in Nat /\ x # 0  OBVIOUS
<1>5. x - 1 \in Nat /\ x - 1 < x  BY <1>4
<1>6. x - 1 \in T  BY <1>2, <1>3, <1>4, <1>5
<1> QED  BY <1>4, <1>5, <1>6

(* Whatever holds of the empty set, and of a set when it holds of the set  *)
(* without any one of its elements, holds of a finite set's subsets.       *)
LEMMA SubsetInduction ==
  ASSUME NEW S, IsFiniteSet(S), NEW T, {} \in T,
         \A A \in SUBSET S : A # {} /\ (\A x \in A : A \ {x} \in T) => A \in T
  PROVE  \A A \in SUBSET S : A \in T
<1> DEFINE K == {n \in Nat : \A A \in SUBSET S : Cardinality(A) = n => A \in T}
<1>1. \A A \in SUBSET S : IsFiniteSet(A) /\ Cardinality(A) \in Nat
  BY FS_Subset, FS_CardinalityType
<1>2. 0 \in K  BY <1>1, FS_EmptySet
<1>3. ASSUME NEW n \in Nat, n \in K PROVE n + 1 \in K
  <2> SUFFICES ASSUME NEW A \in SUBSET S, Cardinality(A) = n + 1 PROVE A \in T  OBVIOUS
  <2>1. A # {}  BY FS_EmptySet
  <2>2. ASSUME NEW x \in A PROVE A \ {x} \in T
    <3>1. IsFiniteSet(A) /\ x \in A  BY <1>1
    <3>2. Cardinality(A \ {x}) = Cardinality(A) - 1  BY <3>1, FS_RemoveElement
    <3> QED  BY <1>3, <3>2
  <2> QED  BY <2>1, <2>2
<1> HIDE DEF K
<1>4. Nat \subseteq K  BY <1>2, <1>3, NatSetInduction
<1> QED  BY <1>1, <1>4 DEF K

\* g adds f up over every subset of S, in the order of CHOOSE.
AddsUp(g, f, S) ==
  g = [s \in SUBSET S |-> IF s = {} THEN 0
                          ELSE LET x == CHOOSE x \in s : TRUE IN f[x] + g[s \ {x}]]

(* There is such a function.                                               *)
LEMMA AddsUpExists == ASSUME NEW f, NEW S, IsFiniteSet(S) PROVE \E g : AddsUp(g, f, S)
<1> DEFINE Small(n) == {s \in SUBSET S : Cardinality(s) <= n}
           c(s) == CHOOSE x \in s : TRUE
           Of(g, s) == IF s = {} THEN 0 ELSE f[c(s)] + g[s \ {c(s)}]
           T == {n \in Nat : \E g : g = [s \in Small(n) |-> Of(g, s)]}
<1>1. \A s \in SUBSET S : IsFiniteSet(s) /\ Cardinality(s) \in Nat /\ Cardinality(s) <= Cardinality(S)
  BY FS_Subset, FS_CardinalityType
<1>c. \A s : s # {} => c(s) \in s  OBVIOUS
<1>d. ASSUME NEW g, NEW D, g = [s \in D |-> Of(g, s)], D = SUBSET S PROVE AddsUp(g, f, S)
  BY <1>d DEF AddsUp
<1> HIDE DEF c
<1>2. ASSUME NEW n \in Nat, NEW s \in Small(n + 1), s # {} PROVE s \ {c(s)} \in Small(n)
  <2>1. IsFiniteSet(s) /\ c(s) \in s  BY <1>1, <1>2, <1>c
  <2>2. Cardinality(s \ {c(s)}) = Cardinality(s) - 1  BY <2>1, FS_RemoveElement
  <2> QED  BY <1>1, <2>2
<1>3. \A n \in Nat : Small(n) \subseteq Small(n + 1)  BY <1>1
<1> HIDE DEF Small
<1>4. 0 \in T
  <2> DEFINE g == [s \in Small(0) |-> 0]
  <2>1. \A s \in Small(0) : s = {}  BY <1>1, FS_EmptySet DEF Small
  <2>2. g = [s \in Small(0) |-> Of(g, s)]  BY <2>1
  <2> QED  BY <2>2
<1>5. ASSUME NEW n \in Nat, n \in T PROVE n + 1 \in T
  <2>1. PICK g : g = [s \in Small(n) |-> Of(g, s)]  BY <1>5
  <2> HIDE DEF Of
  <2> DEFINE h == [s \in Small(n + 1) |-> Of(g, s)]
  <2>2. \A s \in Small(n) : h[s] = g[s]  BY <1>3, <2>1
  <2> HIDE DEF h
  <2>3. \A s \in Small(n + 1) : Of(h, s) = Of(g, s)  BY <1>2, <2>2 DEF Of
  <2>4. h = [s \in Small(n + 1) |-> Of(h, s)]  BY <2>3 DEF h
  <2>5. \E k : k = [s \in Small(n + 1) |-> Of(k, s)]  BY <2>4
  <2> QED  BY <2>5
<1> HIDE DEF T, Of
<1>6. Cardinality(S) \in T  BY <1>1, <1>4, <1>5, NatSetInduction
<1>7. Small(Cardinality(S)) = SUBSET S  BY <1>1 DEF Small
<1>8. PICK g : g = [s \in SUBSET S |-> Of(g, s)]  BY <1>6, <1>7 DEF T
<1> QED  BY <1>8, <1>d

(* It is what SumFunctionOnSet computes.                                   *)
LEMMA SumIsOne ==
  ASSUME NEW f, NEW S, IsFiniteSet(S)
  PROVE  \E g : AddsUp(g, f, S) /\ SumFunctionOnSet(f, S) = g[S]
<1> DEFINE g == CHOOSE g : AddsUp(g, f, S)
<1>1. AddsUp(g, f, S)  BY AddsUpExists
<1>2. SumFunctionOnSet(f, S) = g[S]
  BY DEF SumFunctionOnSet, FoldFunctionOnSet, MapThenFoldSet, AddsUp
<1> QED  BY <1>1, <1>2

(* Two of them agree wherever both are defined, on functions that agree.   *)
LEMMA AddsUpAgree ==
  ASSUME NEW f, NEW S, NEW g, AddsUp(g, f, S), IsFiniteSet(S),
         NEW e, NEW R, NEW h, AddsUp(h, e, R), S \subseteq R,
         \A x \in S : f[x] = e[x]
  PROVE  \A A \in SUBSET S : g[A] = h[A]
<1> DEFINE T == {A \in SUBSET S : g[A] = h[A]}
           c(s) == CHOOSE x \in s : TRUE
<1>1. \A s : s # {} => c(s) \in s  OBVIOUS
<1>2. /\ \A A \in SUBSET S : g[A] = IF A = {} THEN 0 ELSE f[c(A)] + g[A \ {c(A)}]
      /\ \A A \in SUBSET S : h[A] = IF A = {} THEN 0 ELSE e[c(A)] + h[A \ {c(A)}]
  BY DEF AddsUp
<1> HIDE DEF c
<1>3. {} \in T  BY <1>2
<1>4. ASSUME NEW A \in SUBSET S, A # {}, \A x \in A : A \ {x} \in T PROVE A \in T
  <2>1. c(A) \in A  BY <1>1, <1>4
  <2>2. g[A \ {c(A)}] = h[A \ {c(A)}]  BY <1>4, <2>1
  <2> QED  BY <1>2, <1>4, <2>1, <2>2
<1> HIDE DEF T
<1>5. \A A \in SUBSET S : A \in T  BY <1>3, <1>4, SubsetInduction
<1> QED  BY <1>5 DEF T

(* The sum over every subset of S is an integer, and any of its elements   *)
(* may be added last.                                                      *)
LEMMA AddsUpAnyOrder ==
  ASSUME NEW S, IsFiniteSet(S), NEW f, NEW g, AddsUp(g, f, S), \A x \in S : f[x] \in Int
  PROVE  /\ g[{}] = 0
         /\ \A A \in SUBSET S : g[A] \in Int /\ \A x \in A : g[A] = f[x] + g[A \ {x}]
<1> DEFINE T == {A \in SUBSET S : /\ g[A] \in Int
                                /\ \A x \in A : /\ g[A] = f[x] + g[A \ {x}]
                                                /\ g[A \ {x}] \in Int}
           c(s) == CHOOSE x \in s : TRUE
<1>1. \A s : s # {} => c(s) \in s  OBVIOUS
<1>2. \A A \in SUBSET S : g[A] = IF A = {} THEN 0 ELSE f[c(A)] + g[A \ {c(A)}]
  BY DEF AddsUp
<1> HIDE DEF c
<1>3. g[{}] = 0 /\ {} \in T
  <2>1. {} \in SUBSET S  OBVIOUS
  <2>2. g[{}] = 0  BY <1>2, <2>1
  <2> QED  BY <2>1, <2>2
<1>4. ASSUME NEW A \in SUBSET S, A # {}, \A x \in A : A \ {x} \in T PROVE A \in T
  <2> DEFINE y == c(A)
  <2>1. y \in A /\ g[A] = f[y] + g[A \ {y}]  BY <1>1, <1>2, <1>4
  <2> HIDE DEF y
  <2>2. f[y] \in Int /\ g[A \ {y}] \in Int  BY <1>4, <2>1
  <2>3. ASSUME NEW x \in A, x # y PROVE g[A] = f[x] + g[A \ {x}]
    <3> DEFINE B == (A \ {x}) \ {y}
    <3>1. B = (A \ {y}) \ {x}  OBVIOUS
    <3>2. x \in A \ {y} /\ y \in A \ {x}  BY <2>1, <2>3
    <3>3. A \ {x} \in T /\ A \ {y} \in T  BY <1>4, <2>1
    <3>4. g[A \ {y}] = f[x] + g[(A \ {y}) \ {x}]  BY <3>2, <3>3
    <3>5. g[A \ {x}] = f[y] + g[B]  BY <3>2, <3>3
    <3>6. B \in SUBSET S /\ g[A \ {y}] = f[x] + g[B]  BY <3>1, <3>4
    <3>7. g[B] \in Int  BY <3>1, <3>2, <3>3
    <3>8. f[x] \in Int  OBVIOUS
    <3> QED  BY <2>1, <2>2, <3>5, <3>6, <3>7, <3>8
  <2>4. g[A] \in Int  BY <2>1, <2>2
  <2>5. \A x \in A : g[A \ {x}] \in Int  BY <1>4
  <2>6. \A x \in A : g[A] = f[x] + g[A \ {x}]  BY <2>1, <2>3
  <2> QED  BY <2>4, <2>5, <2>6
<1> HIDE DEF T
<1>5. \A A \in SUBSET S : A \in T  BY <1>3, <1>4, SubsetInduction
<1> QED  BY <1>3, <1>5 DEF T

(* The sum over no element is zero.                                        *)
LEMMA SumOfNone == ASSUME NEW f PROVE SumFunctionOnSet(f, {}) = 0
<1>1. IsFiniteSet({})  BY FS_EmptySet
<1>2. PICK g : AddsUp(g, f, {}) /\ SumFunctionOnSet(f, {}) = g[{}]  BY <1>1, SumIsOne
<1> QED  BY <1>2 DEF AddsUp

(* Sums of functions that agree.                                           *)
LEMMA SumsAgree ==
  ASSUME NEW f, NEW e, NEW S, IsFiniteSet(S), \A x \in S : f[x] = e[x]
  PROVE  SumFunctionOnSet(f, S) = SumFunctionOnSet(e, S)
<1>1. PICK g : AddsUp(g, f, S) /\ SumFunctionOnSet(f, S) = g[S]  BY SumIsOne
<1>2. PICK h : AddsUp(h, e, S) /\ SumFunctionOnSet(e, S) = h[S]  BY SumIsOne
<1>3. \A A \in SUBSET S : g[A] = h[A]  BY <1>1, <1>2, AddsUpAgree
<1> QED  BY <1>1, <1>2, <1>3

(* The sum over one element more.                                          *)
LEMMA SumOfOneMore ==
  ASSUME NEW f, NEW S, IsFiniteSet(S), NEW x, x \notin S, \A y \in S \cup {x} : f[y] \in Int
  PROVE  /\ SumFunctionOnSet(f, S) \in Int
         /\ SumFunctionOnSet(f, S \cup {x}) = SumFunctionOnSet(f, S) + f[x]
<1> DEFINE R == S \cup {x}
<1>1. IsFiniteSet(R) /\ S \subseteq R /\ R \ {x} = S /\ x \in R  BY FS_AddElement
<1> HIDE DEF R
<1>2. PICK g : AddsUp(g, f, S) /\ SumFunctionOnSet(f, S) = g[S]  BY SumIsOne
<1>3. PICK h : AddsUp(h, f, R) /\ SumFunctionOnSet(f, R) = h[R]  BY <1>1, SumIsOne
<1>4. \A A \in SUBSET S : g[A] = h[A]  BY <1>1, <1>2, <1>3, AddsUpAgree
<1>5. \A y \in R : f[y] \in Int  BY DEF R
<1>9. AddsUp(h, f, R)  BY <1>3
<1>6. \A A \in SUBSET R : h[A] \in Int /\ \A y \in A : h[A] = f[y] + h[A \ {y}]
  BY <1>1, <1>9, <1>5, AddsUpAnyOrder
<1>7. h[R] = f[x] + h[S] /\ h[S] \in Int /\ f[x] \in Int  BY <1>1, <1>5, <1>6
<1>8. g[S] = h[S]  BY <1>4
<1> QED  BY <1>2, <1>3, <1>7, <1>8 DEF R

(* What a finite set adds up to is an integer.                             *)
LEMMA SumIsInt ==
  ASSUME NEW f, NEW S, IsFiniteSet(S), \A x \in S : f[x] \in Int
  PROVE  SumFunctionOnSet(f, S) \in Int
<1>1. PICK g : AddsUp(g, f, S) /\ SumFunctionOnSet(f, S) = g[S]  BY SumIsOne
<1>2. g[S] \in Int  BY <1>1, AddsUpAnyOrder
<1> QED  BY <1>1, <1>2

(* Zeros add nothing.                                                      *)
LEMMA SumSkipsZeros ==
  ASSUME NEW f, NEW S, IsFiniteSet(S), \A x \in S : f[x] \in Int,
         NEW A \in SUBSET S, \A x \in S \ A : f[x] = 0
  PROVE  SumFunctionOnSet(f, S) = SumFunctionOnSet(f, A)
<1> DEFINE T == {D \in SUBSET (S \ A) : SumFunctionOnSet(f, A \cup D) = SumFunctionOnSet(f, A)}
<1>1. IsFiniteSet(S \ A)  BY FS_Subset
<1>2. {} \in T
  <2>1. A \cup {} = A  OBVIOUS
  <2> QED  BY <2>1
<1>3. ASSUME NEW D \in SUBSET (S \ A), D # {}, \A x \in D : D \ {x} \in T PROVE D \in T
  <2>1. PICK x : x \in D  BY <1>3
  <2> DEFINE B == A \cup (D \ {x})
  <2>2. SumFunctionOnSet(f, B) = SumFunctionOnSet(f, A)  BY <1>3, <2>1
  <2>3. B \cup {x} = A \cup D /\ x \notin B /\ B \subseteq S /\ f[x] = 0  BY <2>1
  <2>4. \A y \in B \cup {x} : f[y] \in Int  BY <2>3
  <2>5. IsFiniteSet(B)  BY <2>3, FS_Subset
  <2> HIDE DEF B
  <2>6. /\ SumFunctionOnSet(f, B) \in Int
        /\ SumFunctionOnSet(f, B \cup {x}) = SumFunctionOnSet(f, B) + f[x]
    BY <2>3, <2>4, <2>5, SumOfOneMore
  <2>7. SumFunctionOnSet(f, B \cup {x}) = SumFunctionOnSet(f, A)  BY <2>2, <2>3, <2>6
  <2>8. SumFunctionOnSet(f, A \cup D) = SumFunctionOnSet(f, A)  BY <2>3, <2>7, Zenon
  <2> QED  BY <2>8
<1> HIDE DEF T
<1>4. S \ A \in T
  <2> DEFINE R == S \ A
  <2>1. IsFiniteSet(R) /\ \A D \in SUBSET R : D # {} /\ (\A x \in D : D \ {x} \in T) => D \in T
    BY <1>1, <1>3
  <2> HIDE DEF R
  <2>2. \A D \in SUBSET R : D \in T  BY <1>2, <2>1, SubsetInduction
  <2> QED  BY <2>2 DEF R
<1>5. A \cup (S \ A) = S  OBVIOUS
<1> QED  BY <1>4, <1>5 DEF T

(* Sums over the first places of a sequence.                               *)
LEMMA SumUpTo ==
  ASSUME NEW f, NEW n \in Nat, \A i \in 1 .. (n + 1) : f[i] \in Int
  PROVE  /\ SumFunctionOnSet(f, 1 .. n) \in Int
         /\ SumFunctionOnSet(f, 1 .. (n + 1)) = SumFunctionOnSet(f, 1 .. n) + f[n + 1]
<1> DEFINE S == 1 .. n
           x == n + 1
<1>1. S \cup {x} = 1 .. (n + 1) /\ x \notin S  OBVIOUS
<1>2. IsFiniteSet(S)  BY FS_Interval
<1>3. \A y \in S \cup {x} : f[y] \in Int  BY <1>1
<1> HIDE DEF S, x
<1>4. /\ SumFunctionOnSet(f, S) \in Int
      /\ SumFunctionOnSet(f, S \cup {x}) = SumFunctionOnSet(f, S) + f[x]
  BY <1>1, <1>2, <1>3, SumOfOneMore
<1> QED  BY <1>1, <1>4, Zenon DEF S, x

(* The sum of two values, then of those of e.                              *)
LEMMA SumAfterTwo ==
  ASSUME NEW f, NEW e, NEW m \in Nat,
         \A i \in 1 .. (2 + m) : f[i] \in Int, \A i \in 1 .. m : f[2 + i] = e[i]
  PROVE  SumFunctionOnSet(f, 1 .. (2 + m))
           = SumFunctionOnSet(f, 1 .. 2) + SumFunctionOnSet(e, 1 .. m)
<1> DEFINE T == {j \in Nat : j <= m =>
                   SumFunctionOnSet(f, 1 .. (2 + j))
                     = SumFunctionOnSet(f, 1 .. 2) + SumFunctionOnSet(e, 1 .. j)}
<1>1. IsFiniteSet(1 .. 2) /\ \A i \in 1 .. 2 : f[i] \in Int
  <2> DEFINE two == 2
  <2>1. two = 2  OBVIOUS
  <2>2. two \in Int  OBVIOUS
  <2> HIDE DEF two
  <2>3. IsFiniteSet(1 .. two)  BY <2>2, FS_Interval
  <2> QED  BY <2>1, <2>3
<1>2. SumFunctionOnSet(f, 1 .. 2) \in Int  BY <1>1, SumIsInt
<1>3. 0 \in T
  <2>1. 1 .. 0 = {} /\ 2 + 0 = 2  OBVIOUS
  <2> QED  BY <1>2, <2>1, SumOfNone
<1>4. ASSUME NEW j \in Nat, j \in T PROVE j + 1 \in T
  <2> SUFFICES ASSUME j + 1 <= m
               PROVE  SumFunctionOnSet(f, 1 .. (2 + (j + 1)))
                        = SumFunctionOnSet(f, 1 .. 2) + SumFunctionOnSet(e, 1 .. (j + 1))
    OBVIOUS
  <2>1. SumFunctionOnSet(f, 1 .. (2 + j))
          = SumFunctionOnSet(f, 1 .. 2) + SumFunctionOnSet(e, 1 .. j)
    BY <1>4
  <2>2. /\ 2 + j \in Nat /\ 2 + (j + 1) = (2 + j) + 1 /\ j + 1 \in 1 .. m
        /\ \A i \in 1 .. ((2 + j) + 1) : f[i] \in Int
    OBVIOUS
  <2>3. \A i \in 1 .. m : 2 + i \in 1 .. (2 + m)  OBVIOUS
  <2>4. \A i \in 1 .. m : e[i] \in Int  BY <2>3
  <2>5. \A i \in 1 .. (j + 1) : e[i] \in Int  BY <2>4
  <2>6. SumFunctionOnSet(f, 1 .. ((2 + j) + 1))
          = SumFunctionOnSet(f, 1 .. (2 + j)) + f[(2 + j) + 1]
    BY <2>2, SumUpTo
  <2>7. /\ SumFunctionOnSet(e, 1 .. j) \in Int
        /\ SumFunctionOnSet(e, 1 .. (j + 1)) = SumFunctionOnSet(e, 1 .. j) + e[j + 1]
    BY <2>5, SumUpTo
  <2>8. f[(2 + j) + 1] = e[j + 1] /\ e[j + 1] \in Int  BY <2>2, <2>4
  <2> QED  BY <1>2, <2>1, <2>2, <2>6, <2>7, <2>8
<1> HIDE DEF T
<1>5. m \in T  BY <1>3, <1>4, NatSetInduction
<1> QED  BY <1>5 DEF T
-----------------------------------------------------------------------------
(* What a transaction does.                                                *)

Kinds == \A r \in Requests : r \in Charges \/ r \in Topups

(* A request is a Charge or a top-up.                                      *)
LEMMA ChargeOrTopup == Kinds /\ \A r \in Requests : r \notin Charges \/ r \notin Topups
BY RequestsAssumption DEF Kinds, Charges, Topups

(* The money of a Charge.                                                  *)
LEMMA ChargeMoney ==
  ASSUME NEW r \in Charges
  PROVE  LET cs == Req[r].commissions IN
         /\ r \in Requests /\ r \notin Topups
         /\ Req[r].key \in Keys /\ Req[r].gross \in Nat
         /\ cs \in Seq([merchant : Merchants, amount : Nat])
         /\ Len(cs) \in Nat /\ DOMAIN cs = 1 .. Len(cs)
         /\ \A i \in 1 .. Len(cs) : cs[i].merchant \in Merchants /\ cs[i].amount \in Nat
         /\ CommissionSum(r) = SumFunctionOnSet([i \in DOMAIN cs |-> cs[i].amount], 1 .. Len(cs))
         /\ CommissionSum(r) \in Int /\ Fee(r) \in Nat /\ MainNet(r) \in Int
<1> DEFINE cs == Req[r].commissions
           f == [i \in DOMAIN cs |-> cs[i].amount]
<1>1. /\ r \in Requests /\ r \notin Topups
      /\ Req[r].key \in Keys /\ Req[r].gross \in Nat
      /\ cs \in Seq([merchant : Merchants, amount : Nat])
  BY RequestsAssumption, ChargeOrTopup DEF Charges
<1>2. CommissionSum(r) = SumFunctionOnSet(f, DOMAIN f)
  BY DEF CommissionSum, SumFunction
<1> HIDE DEF cs
<1>3. Len(cs) \in Nat /\ DOMAIN cs = 1 .. Len(cs)  BY <1>1, LenProperties
<1>4. \A i \in 1 .. Len(cs) : cs[i].merchant \in Merchants /\ cs[i].amount \in Nat
  <2>1. \A i \in 1 .. Len(cs) : cs[i] \in [merchant : Merchants, amount : Nat]
    BY <1>1, <1>3, ElementOfSeq
  <2> QED  BY <2>1
<1>5. DOMAIN f = 1 .. Len(cs) /\ \A i \in 1 .. Len(cs) : f[i] \in Int
  BY <1>3, <1>4
<1> HIDE DEF f
<1>6. IsFiniteSet(1 .. Len(cs))  BY <1>3, FS_Interval
<1>7. CommissionSum(r) \in Int  BY <1>2, <1>5, <1>6, SumIsInt
<1>8. Fee(r) \in Nat
  <2> DEFINE gross == Req[r].gross
  <2>0. PlatformFeeBPS \in Nat /\ PlatformFeeBPS <= 10000  BY BoundsAssumption
  <2>1. gross \in Nat /\ PlatformFeeBPS \in Nat /\ PlatformFeeBPS <= 10000
    BY <1>1, <2>0
  <2>2. Fee(r) = PlatformFee(gross, PlatformFeeBPS)  BY DEF Fee
  <2> HIDE DEF gross
  <2>3. PlatformFee(gross, PlatformFeeBPS) \in 0 .. gross  BY <2>1, FeeIsRoundedUp
  <2> QED  BY <2>1, <2>2, <2>3
<1>9. MainNet(r) \in Int  BY <1>1, <1>7, <1>8 DEF MainNet
<1> QED  BY <1>1, <1>2, <1>3, <1>4, <1>5, <1>7, <1>8, <1>9 DEF cs, f

(* Its amounts are integers.                                               *)
LEMMA ChargeAmounts ==
  \A r \in Charges :
    /\ Req[r].gross \in Int /\ CommissionSum(r) \in Int /\ Fee(r) \in Int /\ MainNet(r) \in Int
    /\ Len(Req[r].commissions) \in Nat
<1> TAKE r \in Charges
<1>1. /\ Req[r].gross \in Nat /\ CommissionSum(r) \in Int /\ Fee(r) \in Nat /\ MainNet(r) \in Int
      /\ Len(Req[r].commissions) \in Nat
  BY ChargeMoney
<1> QED  BY <1>1

(* What a top-up projects to the balances.                                 *)
LEMMA TopupProjects ==
  ASSUME NEW r \in Topups
  PROVE  /\ r \in Requests /\ Req[r].amount \in Nat
         /\ Projected(r) = <<Entry(Req[r].account, Req[r].amount)>>
         /\ Projected(r) \in Seq([account : Accounts, amount : Int])
<1> DEFINE e == Entry(Req[r].account, Req[r].amount)
<1>1. r \in Requests /\ Req[r].amount \in Nat /\ Req[r].account \in Accounts
  BY RequestsAssumption DEF Topups
<1>2. Projected(r) = <<e>>  BY DEF Projected
<1>3. e \in [account : Accounts, amount : Int]  BY <1>1 DEF Entry
<1> QED  BY <1>1, <1>2, <1>3

(* What a Charge projects to them: the gross, the merchant's net, and the  *)
(* commissions in their order.                                             *)
LEMMA ChargeProjects ==
  ASSUME NEW r \in Charges
  PROVE  LET cs == Req[r].commissions
             es == Projected(r) IN
         /\ es \in Seq([account : Accounts, amount : Int])
         /\ Len(es) = 2 + Len(cs)
         /\ es[1].amount = -Req[r].gross /\ es[2].amount = MainNet(r)
         /\ \A i \in 1 .. Len(cs) : es[2 + i].amount = cs[i].amount
<1> DEFINE cs == Req[r].commissions
           E  == [account : Accounts, amount : Int]
           a  == Entry(Payer[Req[r].key], -Req[r].gross)
           b  == Entry(Settle[Main[Req[r].key]], MainNet(r))
           tail == [i \in DOMAIN cs |-> Entry(Settle[cs[i].merchant], cs[i].amount)]
<1>1. /\ Req[r].key \in Keys /\ Req[r].gross \in Nat /\ MainNet(r) \in Int /\ r \notin Topups
      /\ Len(cs) \in Nat /\ DOMAIN cs = 1 .. Len(cs)
      /\ \A i \in 1 .. Len(cs) : cs[i].merchant \in Merchants /\ cs[i].amount \in Nat
  BY ChargeMoney
<1>2. Projected(r) = <<a, b>> \o tail  BY <1>1 DEF Projected
<1>3. a \in E /\ b \in E  BY <1>1, OwnersAssumption DEF Entry
<1>4. a.amount = -Req[r].gross /\ b.amount = MainNet(r)  BY DEF Entry
<1> HIDE DEF cs, a, b
<1>5. tail \in [1 .. Len(cs) -> E] /\ \A i \in 1 .. Len(cs) : tail[i].amount = cs[i].amount
  BY <1>1, OwnersAssumption DEF Entry
<1> HIDE DEF tail, E
<1>6. tail \in Seq(E) /\ Len(tail) = Len(cs)  BY <1>1, <1>5
<1>7. <<a, b>> \in Seq(E) /\ Len(<<a, b>>) = 2 /\ <<a, b>>[1] = a /\ <<a, b>>[2] = b
  BY <1>3
<1>8. /\ <<a, b>> \o tail \in Seq(E) /\ Len(<<a, b>> \o tail) = 2 + Len(cs)
      /\ \A i \in 1 .. 2 + Len(cs) :
           (<<a, b>> \o tail)[i] = IF i <= 2 THEN <<a, b>>[i] ELSE tail[i - 2]
  BY <1>6, <1>7, ConcatProperties
<1>9. /\ (<<a, b>> \o tail)[1] = a /\ (<<a, b>> \o tail)[2] = b
      /\ \A i \in 1 .. Len(cs) : (<<a, b>> \o tail)[2 + i] = tail[i]
  BY <1>1, <1>7, <1>8
<1> QED  BY <1>2, <1>4, <1>5, <1>8, <1>9 DEF cs, E

(* The balances a request updates are those of owned accounts.             *)
LEMMA ProjectedEntries ==
  ASSUME NEW r \in Requests
  PROVE  LET es == Projected(r) IN
         /\ es \in Seq([account : Accounts, amount : Int])
         /\ Len(es) \in Nat /\ DOMAIN es = 1 .. Len(es)
         /\ \A i \in 1 .. Len(es) : es[i].account \in Accounts /\ es[i].amount \in Int
<1> DEFINE es == Projected(r)
<1>1. es \in Seq([account : Accounts, amount : Int])
  BY ChargeProjects, TopupProjects, ChargeOrTopup DEF Kinds
<1> HIDE DEF es
<1>2. Len(es) \in Nat /\ DOMAIN es = 1 .. Len(es)  BY <1>1, LenProperties
<1>3. \A i \in 1 .. Len(es) : es[i] \in [account : Accounts, amount : Int]
  BY <1>1, <1>2, ElementOfSeq
<1> QED  BY <1>1, <1>2, <1>3 DEF es

(* Each of them is a step of its transaction.                              *)
LEMMA BalanceStepsAreSeq ==
  ASSUME NEW r \in Requests
  PROVE  /\ BalanceSteps(r) \in Seq({BalanceStep(Projected(r)[i]) : i \in DOMAIN Projected(r)})
         /\ Len(BalanceSteps(r)) = Len(Projected(r))
         /\ \A i \in 1 .. Len(Projected(r)) : BalanceSteps(r)[i] = BalanceStep(Projected(r)[i])
<1> DEFINE es == Projected(r)
           T == {BalanceStep(es[i]) : i \in DOMAIN es}
<1>1. Len(es) \in Nat /\ DOMAIN es = 1 .. Len(es)  BY ProjectedEntries
<1>2. BalanceSteps(r) = [i \in DOMAIN es |-> BalanceStep(es[i])]  BY DEF BalanceSteps
<1> HIDE DEF es
<1>3. BalanceSteps(r) \in [1 .. Len(es) -> T]  BY <1>1, <1>2
<1>4. BalanceSteps(r) \in Seq(T) /\ Len(BalanceSteps(r)) = Len(es)  BY <1>1, <1>3
<1> QED  BY <1>1, <1>2, <1>4 DEF es

\* Step i of request r, and the lock it takes.
Takes(r, i, kind, lock) == Steps[r][i].kind = kind /\ Steps[r][i].locks = {lock}

(* How the transactions of a Charge and of a top-up begin.                 *)
LEMMA HowTheyBegin ==
  ASSUME NEW r \in Requests
  PROVE  /\ Len(Steps[r]) \in Nat /\ Len(Steps[r]) >= 4
         /\ r \in Charges => Takes(r, 3, "insert", <<"order", Req[r].id>>)
         /\ r \in Topups => /\ Takes(r, 1, "lock", <<"topup-id", Req[r].id>>)
                            /\ Takes(r, 2, "lock", <<"topup-ref", Req[r].ref>>)
                            /\ Steps[r][3].kind = "lookup"
<1> DEFINE S == {BalanceStep(Projected(r)[i]) : i \in DOMAIN Projected(r)}
<1>1. BalanceSteps(r) \in Seq(S)  BY BalanceStepsAreSeq
<1>2. CASE r \in Charges
  <2> DEFINE a == Step("lock", {<<"payer", Payer[Req[r].key]>>})
             b == Step("merchants", {})
             c == Step("insert", {<<"order", Req[r].id>>})
             d == Step("last_used", {<<"key", Req[r].key>>})
             U == S \cup {a, b, c, d}
  <2>1. Steps[r] = <<a, b, c, d>> \o BalanceSteps(r)  BY <1>2 DEF Steps, ChargeSteps
  <2>2. c.kind = "insert" /\ c.locks = {<<"order", Req[r].id>>}  BY DEF Step
  <2> HIDE DEF a, b, c, d
  <2>3. <<a, b, c, d>> \in Seq(U) /\ Len(<<a, b, c, d>>) = 4 /\ <<a, b, c, d>>[3] = c
    OBVIOUS
  <2>4. BalanceSteps(r) \in Seq(U) /\ Len(BalanceSteps(r)) \in Nat  BY <1>1
  <2>5. /\ Len(Steps[r]) = 4 + Len(BalanceSteps(r))
        /\ \A i \in 1 .. 4 + Len(BalanceSteps(r)) :
             Steps[r][i] = IF i <= 4 THEN <<a, b, c, d>>[i] ELSE BalanceSteps(r)[i - 4]
    BY <2>1, <2>3, <2>4, ConcatProperties
  <2>6. 3 \in 1 .. 4 + Len(BalanceSteps(r))  BY <2>4
  <2>7. Steps[r][3] = c  BY <2>3, <2>5, <2>6
  <2>8. Len(Steps[r]) \in Nat /\ Len(Steps[r]) >= 4  BY <2>4, <2>5
  <2> QED  BY <1>2, <2>2, <2>7, <2>8, ChargeOrTopup DEF Takes
<1>3. CASE r \in Topups
  <2> DEFINE a == Step("lock", {<<"topup-id", Req[r].id>>})
             b == Step("lock", {<<"topup-ref", Req[r].ref>>})
             c == Step("lookup", {})
             d == Step("insert", {<<"topup", Req[r].id>>, <<"reference", Req[r].ref>>})
             U == S \cup {a, b, c, d}
  <2>1. Steps[r] = <<a, b, c, d>> \o BalanceSteps(r)
    BY <1>3, ChargeOrTopup DEF Steps, TopupSteps
  <2>2. /\ a.kind = "lock" /\ a.locks = {<<"topup-id", Req[r].id>>}
        /\ b.kind = "lock" /\ b.locks = {<<"topup-ref", Req[r].ref>>}
        /\ c.kind = "lookup"
    BY DEF Step
  <2> HIDE DEF a, b, c, d
  <2>3. /\ <<a, b, c, d>> \in Seq(U) /\ Len(<<a, b, c, d>>) = 4
        /\ <<a, b, c, d>>[1] = a /\ <<a, b, c, d>>[2] = b /\ <<a, b, c, d>>[3] = c
    OBVIOUS
  <2>4. BalanceSteps(r) \in Seq(U) /\ Len(BalanceSteps(r)) \in Nat  BY <1>1
  <2>5. /\ Len(Steps[r]) = 4 + Len(BalanceSteps(r))
        /\ \A i \in 1 .. 4 + Len(BalanceSteps(r)) :
             Steps[r][i] = IF i <= 4 THEN <<a, b, c, d>>[i] ELSE BalanceSteps(r)[i - 4]
    BY <2>1, <2>3, <2>4, ConcatProperties
  <2>6. \A i \in {1, 2, 3} : i \in 1 .. 4 + Len(BalanceSteps(r)) /\ i <= 4  BY <2>4
  <2>7. Steps[r][1] = a /\ Steps[r][2] = b /\ Steps[r][3] = c  BY <2>3, <2>5, <2>6
  <2>8. Len(Steps[r]) \in Nat /\ Len(Steps[r]) >= 4  BY <2>4, <2>5
  <2> QED  BY <1>3, <2>2, <2>7, <2>8, ChargeOrTopup DEF Takes
<1> QED  BY <1>2, <1>3, ChargeOrTopup DEF Kinds

(* How they go on: every balance is a step, and no other step is.          *)
LEMMA HowTheyGoOn ==
  ASSUME NEW r \in Requests
  PROVE  /\ Len(Steps[r]) = 4 + Len(Projected(r))
         /\ \A i \in 1 .. 4 : Steps[r][i].kind # "balance"
         /\ \A i \in 1 .. Len(Projected(r)) : Steps[r][4 + i] = BalanceStep(Projected(r)[i])
<1> DEFINE bs == BalanceSteps(r)
           S  == {BalanceStep(Projected(r)[i]) : i \in DOMAIN Projected(r)}
           n  == Len(Projected(r))
<1>1. /\ n \in Nat /\ bs \in Seq(S) /\ Len(bs) = n
      /\ \A i \in 1 .. n : bs[i] = BalanceStep(Projected(r)[i])
  BY ProjectedEntries, BalanceStepsAreSeq
<1> HIDE DEF bs, S, n
<1>2. \E first, T : /\ Steps[r] = first \o bs
                    /\ first \in Seq(T) /\ Len(first) = 4
                    /\ \A i \in 1 .. 4 : first[i].kind # "balance"
  <2>1. CASE r \in Charges
    <3> DEFINE a == Step("lock", {<<"payer", Payer[Req[r].key]>>})
               b == Step("merchants", {})
               c == Step("insert", {<<"order", Req[r].id>>})
               d == Step("last_used", {<<"key", Req[r].key>>})
               first == <<a, b, c, d>>
    <3>1. Steps[r] = first \o bs  BY <2>1 DEF Steps, ChargeSteps, bs
    <3>2. \A s \in {a, b, c, d} : s.kind # "balance"  BY DEF Step
    <3> HIDE DEF a, b, c, d
    <3>3. /\ first \in Seq({a, b, c, d}) /\ Len(first) = 4
          /\ \A i \in 1 .. 4 : first[i] \in {a, b, c, d}
      OBVIOUS
    <3>4. \A i \in 1 .. 4 : first[i].kind # "balance"  BY <3>2, <3>3
    <3> HIDE DEF first
    <3> QED  BY <3>1, <3>3, <3>4
  <2>2. CASE r \in Topups
    <3> DEFINE a == Step("lock", {<<"topup-id", Req[r].id>>})
               b == Step("lock", {<<"topup-ref", Req[r].ref>>})
               c == Step("lookup", {})
               d == Step("insert", {<<"topup", Req[r].id>>, <<"reference", Req[r].ref>>})
               first == <<a, b, c, d>>
    <3>1. Steps[r] = first \o bs  BY <2>2, ChargeOrTopup DEF Steps, TopupSteps, bs
    <3>2. \A s \in {a, b, c, d} : s.kind # "balance"  BY DEF Step
    <3> HIDE DEF a, b, c, d
    <3>3. /\ first \in Seq({a, b, c, d}) /\ Len(first) = 4
          /\ \A i \in 1 .. 4 : first[i] \in {a, b, c, d}
      OBVIOUS
    <3>4. \A i \in 1 .. 4 : first[i].kind # "balance"  BY <3>2, <3>3
    <3> HIDE DEF first
    <3> QED  BY <3>1, <3>3, <3>4
  <2> QED  BY <2>1, <2>2, ChargeOrTopup DEF Kinds
<1>3. PICK first, T : /\ Steps[r] = first \o bs
                      /\ first \in Seq(T) /\ Len(first) = 4
                      /\ \A i \in 1 .. 4 : first[i].kind # "balance"
  BY <1>2
<1> DEFINE U == S \cup T
<1>4. first \in Seq(U) /\ bs \in Seq(U)  BY <1>1, <1>3, SeqMonotonic
<1> HIDE DEF U
<1>5. Len(first) = 4 /\ Len(bs) = n  BY <1>1, <1>3
<1>6. /\ Len(first \o bs) = 4 + n
      /\ \A i \in 1 .. 4 + n : (first \o bs)[i] = IF i <= 4 THEN first[i] ELSE bs[i - 4]
  <2>1. /\ Len(first \o bs) = Len(first) + Len(bs)
        /\ \A i \in 1 .. Len(first) + Len(bs) :
             (first \o bs)[i] = IF i <= Len(first) THEN first[i] ELSE bs[i - Len(first)]
    BY <1>4, ConcatProperties
  <2> QED  BY <1>5, <2>1
<1>7. \A i \in 1 .. 4 : (first \o bs)[i] = first[i]  BY <1>1, <1>6
<1>8. \A i \in 1 .. n : (first \o bs)[4 + i] = bs[i]
  <2> TAKE i \in 1 .. n
  <2>1. 4 + i \in 1 .. 4 + n /\ ~(4 + i <= 4) /\ (4 + i) - 4 = i  BY <1>1
  <2> QED  BY <1>6, <2>1
<1> QED  BY <1>1, <1>3, <1>6, <1>7, <1>8 DEF n

-----------------------------------------------------------------------------
(* IDs and references.                                                     *)

\* What a request has looked up, and what its locks keep true, after three steps.
IsFree(r) == SameId(r) = {} /\ (r \in Topups => SameRef(r) = {})

(* The inductive invariant: requests share no lock, and from its INSERT    *)
(* (a Charge) or its second lookup (a top-up) on a request knows its ID,   *)
(* and its reference, to be free.                                          *)
IdInv ==
  /\ pc \in [Requests -> {"new", "resolve", "work", "done"}]
  /\ at \in [Requests -> Nat] /\ committed \subseteq Requests
  /\ result \in [Requests ->
                   {"none", "created", "repeated", "conflict", "rejected", "error"}]
  /\ \A r \in Requests : at[r] \in 0 .. Len(Steps[r])
  /\ \A q, r \in Requests : q # r => Locks(q) \cap Locks(r) = {}
  /\ \A r \in Requests : at[r] >= 3 => IsFree(r)
  /\ IdsSettle

(* A transaction that has taken a step holds the locks of that step.       *)
LEMMA HoldsStepLocks ==
  ASSUME NEW r \in Requests, NEW n \in 0 .. Len(Steps[r])
  PROVE  /\ \A i \in 1 .. n : Steps[r][i].locks \subseteq LocksAfter[r][n]
         /\ LocksAfter[r][0] = {}
         /\ n + 1 \in 0 .. Len(Steps[r]) =>
              LocksAfter[r][n + 1] = LocksAfter[r][n] \cup Steps[r][n + 1].locks
<1>1. Len(Steps[r]) \in Nat  BY HowTheyBegin
<1>2. \A k \in 0 .. Len(Steps[r]) : LocksAfter[r][k] = UNION {Steps[r][i].locks : i \in 1 .. k}
  BY DEF LocksAfter
<1>3. \A i \in 1 .. n : Steps[r][i].locks \subseteq LocksAfter[r][n]  BY <1>2
<1>4. LocksAfter[r][0] = {}
  <2>1. 0 \in 0 .. Len(Steps[r]) /\ 1 .. 0 = {}  BY <1>1
  <2> QED  BY <1>2, <2>1
<1>5. ASSUME n + 1 \in 0 .. Len(Steps[r])
      PROVE  LocksAfter[r][n + 1] = LocksAfter[r][n] \cup Steps[r][n + 1].locks
  <2>1. 1 .. (n + 1) = (1 .. n) \cup {n + 1}  OBVIOUS
  <2> QED  BY <1>2, <1>5, <2>1
<1> QED  BY <1>3, <1>4, <1>5

(* Two requests that have come that far do not mean the same ID.           *)
LEMMA Apart ==
  ASSUME IdInv, NEW q \in Requests, NEW r \in Requests, q # r, at[q] >= 3, at[r] >= 3,
         Req[q].kind = Req[r].kind
  PROVE  Req[q].id # Req[r].id /\ (r \in Topups => Req[q].ref # Req[r].ref)
<1>1. Locks(q) \cap Locks(r) = {}  BY DEF IdInv
<1>2. \A p \in {q, r} : /\ p \in Requests /\ at[p] \in 0 .. Len(Steps[p])
                        /\ at[p] \in Nat /\ at[p] >= 3
  BY DEF IdInv
<1>3. \A p \in {q, r} : \A i \in {1, 2, 3} : i \in 1 .. at[p]  BY <1>2
<1>4. \A p \in {q, r} : \A i \in {1, 2, 3} : Steps[p][i].locks \subseteq Locks(p)
  BY <1>2, <1>3, HoldsStepLocks DEF Locks
<1>5. CASE r \in Charges
  <2>1. q \in Charges  BY <1>5 DEF Charges
  <2>2. <<"order", Req[q].id>> \in Locks(q) /\ <<"order", Req[r].id>> \in Locks(r)
    BY <1>4, <1>5, <2>1, HowTheyBegin DEF Takes
  <2> QED  BY <1>1, <1>5, <2>2, ChargeOrTopup
<1>6. CASE r \in Topups
  <2>1. q \in Topups  BY <1>6 DEF Topups
  <2>2. /\ <<"topup-id", Req[q].id>> \in Locks(q) /\ <<"topup-id", Req[r].id>> \in Locks(r)
        /\ <<"topup-ref", Req[q].ref>> \in Locks(q)
        /\ <<"topup-ref", Req[r].ref>> \in Locks(r)
    BY <1>4, <1>6, <2>1, HowTheyBegin DEF Takes
  <2> QED  BY <1>1, <2>2
<1> QED  BY <1>5, <1>6, ChargeOrTopup DEF Kinds

(* A request that is answered gives its locks back.                        *)
LEMMA EndKeepsIds ==
  ASSUME IdInv, NEW r \in Requests, NEW how, End(r, how), UNCHANGED committed,
         how \in {"created", "repeated", "conflict", "rejected", "error"},
         how = "conflict" /\ r \in Topups =>
           \E q \in committed \cap Topups :
             Req[q] # Req[r] /\ (Req[q].id = Req[r].id \/ Req[q].ref = Req[r].ref)
  PROVE  IdInv'
<1>1. /\ pc' = [pc EXCEPT ![r] = "done"] /\ result' = [result EXCEPT ![r] = how]
      /\ at' = [at EXCEPT ![r] = 0]
  BY DEF End
<1>2. /\ at \in [Requests -> Nat] /\ at' \in [Requests -> Nat] /\ at'[r] = 0
      /\ \A q \in Requests \ {r} : at'[q] = at[q]
  BY <1>1 DEF IdInv
<1>3. ASSUME NEW q \in Requests PROVE at'[q] \in 0 .. Len(Steps[q])
  <2>1. CASE q = r
    <3>1. 0 \in 0 .. Len(Steps[q])  BY HowTheyBegin
    <3> QED  BY <1>2, <2>1, <3>1
  <2>2. CASE q # r  BY <1>2, <2>2 DEF IdInv
  <2> QED  BY <2>1, <2>2
<1>4. Locks(r)' = {} /\ \A q \in Requests \ {r} : Locks(q)' = Locks(q)
  <2>1. 0 \in 0 .. Len(Steps[r])  BY HowTheyBegin
  <2> QED  BY <1>2, <2>1, HoldsStepLocks DEF Locks
<1>5. \A p, q \in Requests : p # q => Locks(p)' \cap Locks(q)' = {}
  BY <1>4 DEF IdInv
<1>6. ASSUME NEW q \in Requests, at'[q] >= 3 PROVE IsFree(q)'
  <2>1. q # r /\ at[q] >= 3  BY <1>2, <1>6
  <2>2. IsFree(q)  BY <2>1 DEF IdInv
  <2> QED  BY <2>2 DEF IsFree, SameId, SameRef
<1>7. IdsSettle'
  <2>1. IdsAreUnique'  BY DEF IdInv, IdsSettle, IdsAreUnique
  <2>2. ConflictIsReal'
    BY <1>1 DEF IdInv, IdsSettle, ConflictIsReal, Topups
  <2> QED  BY <2>1, <2>2 DEF IdsSettle
<1> QED  BY <1>1, <1>2, <1>3, <1>5, <1>6, <1>7 DEF IdInv

(* A step takes its locks from nobody.                                     *)
LEMMA GoKeepsIds ==
  ASSUME IdInv, NEW r \in Requests, CanStep(r), Blockers(r) = {}, Go(r), UNCHANGED committed,
         at[r] = 2 => IsFree(r)
  PROVE  IdInv'
<1>1. /\ at' = [at EXCEPT ![r] = @ + 1] /\ UNCHANGED <<pc, result>>
      /\ at[r] < Len(Steps[r])
  BY DEF Go, CanStep
<1>2. /\ at \in [Requests -> Nat] /\ at' \in [Requests -> Nat] /\ at'[r] = at[r] + 1
      /\ \A q \in Requests \ {r} : at'[q] = at[q]
      /\ at[r] \in 0 .. Len(Steps[r]) /\ Len(Steps[r]) \in Nat
  BY <1>1, HowTheyBegin DEF IdInv
<1>3. at[r] + 1 \in 0 .. Len(Steps[r])  BY <1>1, <1>2
<1>4. \A q \in Requests : at'[q] \in 0 .. Len(Steps[q])  BY <1>2, <1>3 DEF IdInv
<1>5. /\ Locks(r)' = Locks(r) \cup NextStep(r).locks
      /\ \A q \in Requests \ {r} : Locks(q)' = Locks(q)
  BY <1>2, <1>3, HoldsStepLocks DEF Locks, NextStep
<1>6. \A q \in Requests \ {r} : Locks(q) \cap NextStep(r).locks = {}  BY DEF Blockers
<1>7. ASSUME NEW p \in Requests, NEW q \in Requests, p # q
      PROVE  Locks(p)' \cap Locks(q)' = {}
  <2>1. Locks(p) \cap Locks(q) = {}  BY <1>7 DEF IdInv
  <2>2. CASE p = r  BY <1>5, <1>6, <1>7, <2>1, <2>2
  <2>3. CASE q = r  BY <1>5, <1>6, <1>7, <2>1, <2>3
  <2>4. CASE p # r /\ q # r  BY <1>5, <2>1, <2>4
  <2> QED  BY <2>2, <2>3, <2>4
<1>8. \A q \in Requests : IsFree(q)' <=> IsFree(q)  BY DEF IsFree, SameId, SameRef
<1>9. ASSUME NEW q \in Requests, at'[q] >= 3 PROVE IsFree(q)'
  <2>1. CASE q # r  BY <1>2, <1>8, <1>9, <2>1 DEF IdInv
  <2>2. CASE q = r
    <3>1. at[r] = 2 \/ at[r] >= 3  BY <1>2, <1>9, <2>2
    <3> QED  BY <1>8, <2>2, <3>1 DEF IdInv
  <2> QED  BY <2>1, <2>2
<1>10. IdsSettle'
  BY <1>1 DEF IdInv, IdsSettle, IdsAreUnique, ConflictIsReal
<1> QED  BY <1>1, <1>2, <1>4, <1>7, <1>9, <1>10 DEF IdInv

(* A commit takes an ID that nobody else is about to take.                 *)
LEMMA CommitKeepsIds == ASSUME IdInv, NEW r \in Requests, Commit(r) PROVE IdInv'
<1>1. /\ committed' = committed \cup {r} /\ at[r] = Len(Steps[r])
      /\ pc' = [pc EXCEPT ![r] = "done"] /\ at' = [at EXCEPT ![r] = 0]
      /\ \E how \in {"created", "error"} : result' = [result EXCEPT ![r] = how]
  BY DEF Commit, AtCommit, End
<1>2. /\ at \in [Requests -> Nat] /\ at' \in [Requests -> Nat] /\ at'[r] = 0
      /\ \A q \in Requests \ {r} : at'[q] = at[q]
  BY <1>1 DEF IdInv
<1>3. at[r] >= 3 /\ IsFree(r)
  <2>1. Len(Steps[r]) \in Nat /\ Len(Steps[r]) >= 4  BY HowTheyBegin
  <2>2. at[r] >= 3  BY <1>1, <2>1
  <2> QED  BY <2>2 DEF IdInv
<1>4. \A q \in Requests : at'[q] \in 0 .. Len(Steps[q])
  BY <1>2, HowTheyBegin DEF IdInv
<1>5. Locks(r)' = {} /\ \A q \in Requests \ {r} : Locks(q)' = Locks(q)
  <2>1. 0 \in 0 .. Len(Steps[r])  BY HowTheyBegin
  <2> QED  BY <1>2, <2>1, HoldsStepLocks DEF Locks
<1>6. \A p, q \in Requests : p # q => Locks(p)' \cap Locks(q)' = {}
  BY <1>5 DEF IdInv
<1>7. ASSUME NEW q \in Requests, at'[q] >= 3 PROVE IsFree(q)'
  <2>1. q # r /\ at[q] >= 3  BY <1>2, <1>7
  <2>2. IsFree(q)  BY <2>1 DEF IdInv
  <2>3. Req[r].kind = Req[q].kind =>
          Req[r].id # Req[q].id /\ (q \in Topups => Req[r].ref # Req[q].ref)
    BY <1>3, <2>1, Apart
  <2>4. q \in Topups /\ r \in Topups => Req[r].kind = Req[q].kind  BY DEF Topups
  <2> QED  BY <1>1, <2>2, <2>3, <2>4 DEF IsFree, SameId, SameRef
<1>8. IdsAreUnique'
  <2> SUFFICES ASSUME NEW p \in committed', NEW q \in committed', p # q,
                      Req[p].kind = Req[q].kind
               PROVE  Req[p].id # Req[q].id /\ (q \in Topups => Req[p].ref # Req[q].ref)
    BY DEF IdsAreUnique
  <2>1. p \in Topups <=> q \in Topups
    BY <1>1 DEF IdInv, Topups
  <2>2. CASE p # r /\ q # r
    BY <1>1, <2>2 DEF IdInv, IdsSettle, IdsAreUnique
  <2>3. CASE p = r \/ q = r
    BY <1>1, <1>3, <2>1, <2>3 DEF IsFree, SameId, SameRef
  <2> QED  BY <2>2, <2>3
<1>9. ConflictIsReal'
  BY <1>1 DEF IdInv, IdsSettle, ConflictIsReal, Topups
<1> QED  BY <1>1, <1>2, <1>4, <1>6, <1>7, <1>8, <1>9 DEF IdInv, IdsSettle

(* A top-up that finds its ID, or its reference, taken.                    *)
LEMMA TakenByAnother ==
  ASSUME IdInv, NEW r \in Requests, r \in Topups
  PROVE  /\ SameId(r) # {} /\ Repeated(r) = "conflict" =>
              \E q \in committed \cap Topups : Req[q] # Req[r] /\ Req[q].id = Req[r].id
         /\ SameId(r) = {} /\ SameRef(r) # {} =>
              \E q \in committed \cap Topups : Req[q] # Req[r] /\ Req[q].ref = Req[r].ref
         /\ Repeated(r) \in {"repeated", "conflict"}
<1>1. \A q \in committed : q \in Requests /\ (q \in Topups <=> Req[q].kind = Req[r].kind)
  BY DEF IdInv, Topups
<1> QED  BY <1>1 DEF SameId, SameRef, Repeated

(* Every step keeps the invariant.                                         *)
LEMMA IdStep == IdInv /\ [Next]_vars => IdInv'
<1> SUFFICES ASSUME IdInv, [Next]_vars PROVE IdInv'  OBVIOUS
<1>1. ASSUME UNCHANGED <<at, committed, result>>,
             pc' \in [Requests -> {"new", "resolve", "work", "done"}]
      PROVE  IdInv'
  BY <1>1 DEF IdInv, Locks, IsFree, SameId, SameRef, IdsSettle, IdsAreUnique, ConflictIsReal
<1>2. ASSUME NEW r \in Requests, BeginCharge(r) PROVE IdInv'
  <2>1. r \in Charges /\ r \notin Topups /\ UNCHANGED committed
    BY <1>2, ChargeOrTopup DEF BeginCharge
  <2>2. CASE End(r, "rejected") \/ End(r, "conflict")  BY <2>1, <2>2, EndKeepsIds
  <2>3. CASE pc' = [pc EXCEPT ![r] = "resolve"] /\ UNCHANGED <<at, result>>
    BY <1>1, <2>1, <2>3 DEF IdInv
  <2> QED  BY <1>2, <2>2, <2>3 DEF BeginCharge
<1>3. ASSUME NEW r \in Requests, BeginTopup(r) PROVE IdInv'
  <2>1. r \in Topups /\ UNCHANGED committed  BY <1>3 DEF BeginTopup
  <2>2. CASE SameId(r) # {} /\ End(r, Repeated(r))
    BY <2>1, <2>2, TakenByAnother, EndKeepsIds
  <2>3. CASE pc' = [pc EXCEPT ![r] = "work"] /\ UNCHANGED <<at, result>>
    BY <1>1, <2>1, <2>3 DEF IdInv
  <2> QED  BY <1>3, <2>2, <2>3 DEF BeginTopup
<1>4. ASSUME NEW r \in Requests, Resolve(r) PROVE IdInv'
  <2>1. UNCHANGED committed  BY <1>4 DEF Resolve
  <2>2. CASE End(r, "rejected")  BY <2>1, <2>2, EndKeepsIds
  <2>3. CASE pc' = [pc EXCEPT ![r] = "work"] /\ UNCHANGED <<at, result>>
    BY <1>1, <2>1, <2>3 DEF IdInv
  <2> QED  BY <1>4, <2>2, <2>3 DEF Resolve
<1>5. ASSUME NEW r \in Requests, Abort(r) PROVE IdInv'
  BY <1>5, EndKeepsIds DEF Abort, unstepped
<1>6. ASSUME NEW r \in Requests, CanStep(r), at[r] = 2
      PROVE  /\ r \in Charges => NextStep(r).kind = "insert"
             /\ r \in Topups => NextStep(r).kind = "lookup"
  BY <1>6, HowTheyBegin DEF NextStep, Takes
<1>7. ASSUME NEW r \in Requests, TakeLock(r) \/ UpdateBalance(r) PROVE IdInv'
  <2>1. /\ CanStep(r) /\ Blockers(r) = {} /\ Go(r) /\ UNCHANGED committed
        /\ NextStep(r).kind \in {"lock", "last_used", "balance"}
    BY <1>7 DEF TakeLock, UpdateBalance, Ready, unstepped
  <2>2. at[r] # 2  BY <1>6, <2>1, ChargeOrTopup DEF Kinds
  <2> QED  BY <2>1, <2>2, GoKeepsIds
<1>8. ASSUME NEW r \in Requests, ReadMerchants(r) PROVE IdInv'
  <2>1. /\ CanStep(r) /\ Blockers(r) = {} /\ UNCHANGED committed
        /\ NextStep(r).kind = "merchants"
    BY <1>8 DEF ReadMerchants, Ready, unstepped
  <2>2. CASE End(r, "rejected")  BY <2>1, <2>2, EndKeepsIds
  <2>3. at[r] # 2  BY <1>6, <2>1, ChargeOrTopup DEF Kinds
  <2>4. CASE Go(r)  BY <2>1, <2>3, <2>4, GoKeepsIds
  <2> QED  BY <1>8, <2>2, <2>4 DEF ReadMerchants
<1>9. ASSUME NEW r \in Requests, Lookup(r) PROVE IdInv'
  <2>1. /\ CanStep(r) /\ Blockers(r) = {} /\ UNCHANGED committed
        /\ NextStep(r).kind = "lookup"
    BY <1>9 DEF Lookup, Ready, unstepped
  <2>2. CASE r \in Topups
    <3>1. CASE SameId(r) # {} /\ End(r, Repeated(r))
      BY <2>1, <2>2, <3>1, TakenByAnother, EndKeepsIds
    <3>2. CASE SameId(r) = {} /\ SameRef(r) # {} /\ End(r, "conflict")
      BY <2>1, <2>2, <3>2, TakenByAnother, EndKeepsIds
    <3>3. CASE SameId(r) = {} /\ SameRef(r) = {} /\ Go(r)
      BY <2>1, <3>3, GoKeepsIds DEF IsFree
    <3> QED  BY <1>9, <3>1, <3>2, <3>3 DEF Lookup
  <2>3. CASE r \notin Topups
    <3>1. at[r] # 2  BY <1>6, <2>1, <2>3, ChargeOrTopup DEF Kinds
    <3>2. CASE Go(r)  BY <2>1, <3>1, <3>2, GoKeepsIds
    <3>3. CASE End(r, Repeated(r)) \/ End(r, "conflict")
      BY <2>1, <2>3, <3>3, EndKeepsIds DEF Repeated
    <3> QED  BY <1>9, <3>2, <3>3 DEF Lookup
  <2> QED  BY <2>2, <2>3
<1>10. ASSUME NEW r \in Requests, Insert(r) PROVE IdInv'
  <2>1. /\ CanStep(r) /\ Blockers(r) = {} /\ UNCHANGED committed
        /\ NextStep(r).kind = "insert"
    BY <1>10 DEF Insert, Ready, unstepped
  <2>2. CASE r \in Topups
    <3>1. at[r] \in Nat /\ at[r] \notin {0, 1, 2}
      <4>1. at[r] \in Nat  BY DEF IdInv
      <4>2. at[r] = 0 => NextStep(r).kind = "lock"
        BY <2>2, HowTheyBegin DEF NextStep, Takes
      <4>3. at[r] = 1 => NextStep(r).kind = "lock"
        BY <2>2, HowTheyBegin DEF NextStep, Takes
      <4> QED  BY <1>6, <2>1, <2>2, <4>1, <4>2, <4>3
    <3>2. at[r] >= 3  BY <3>1
    <3>3. IsFree(r)  BY <3>2 DEF IdInv
    <3>4. Go(r)  BY <1>10, <3>3 DEF Insert, IsFree
    <3> QED  BY <2>1, <3>1, <3>4, GoKeepsIds
  <2>3. CASE r \notin Topups
    <3>1. CASE End(r, "conflict")  BY <2>1, <2>3, <3>1, EndKeepsIds
    <3>2. CASE SameId(r) = {} /\ Go(r)
      BY <2>1, <2>3, <3>2, GoKeepsIds DEF IsFree
    <3> QED  BY <1>10, <2>3, <3>1, <3>2 DEF Insert
  <2> QED  BY <2>2, <2>3
<1>11. CASE \/ \E m \in Switchable : SwitchMerchant(m)
            \/ \E k \in Revocable : StartRevoke(k) \/ WriteRevoke(k)
            \/ AdvanceClock
  BY <1>1, <1>11 DEF IdInv, SwitchMerchant, StartRevoke, WriteRevoke, AdvanceClock, requestVars
<1>12. CASE UNCHANGED vars  BY <1>1, <1>12 DEF IdInv, vars
<1> QED  BY <1>2, <1>3, <1>4, <1>5, <1>7, <1>8, <1>9, <1>10, <1>11, <1>12, CommitKeepsIds
         DEF Next, Progress, BreakDeadlock

(* It holds before any request has come.                                  *)
LEMMA IdInit == Init => IdInv
<1> SUFFICES ASSUME Init PROVE IdInv  OBVIOUS
<1>1. at = [r \in Requests |-> 0] /\ committed = {}  BY DEF Init
<1>2. \A r \in Requests : /\ 0 \in 0 .. Len(Steps[r]) /\ at[r] = 0
                          /\ Locks(r) = {}
  <2> TAKE r \in Requests
  <2>1. 0 \in 0 .. Len(Steps[r]) /\ at[r] = 0  BY <1>1, HowTheyBegin
  <2> QED  BY <2>1, HoldsStepLocks DEF Locks
<1>3. IdsSettle  BY <1>1 DEF Init, IdsSettle, IdsAreUnique, ConflictIsReal, Topups
<1>4. /\ pc \in [Requests -> {"new", "resolve", "work", "done"}]
      /\ result \in [Requests ->
           {"none", "created", "repeated", "conflict", "rejected", "error"}]
  BY DEF Init
<1> QED  BY <1>1, <1>2, <1>3, <1>4 DEF IdInv

(* For every set of requests, an order ID is charged once, a top-up ID and *)
(* a reference are credited once, and a top-up is turned away only by      *)
(* another one: the locks of createCharge and accountTopups.               *)
THEOREM IdsAlwaysSettle == Spec => []IdsSettle
<1>1. IdInv => IdsSettle  BY DEF IdInv
<1> QED  BY <1>1, IdInit, IdStep, PTL DEF Spec
-----------------------------------------------------------------------------
(* The entries of a transaction.                                           *)

(* What is handed to insertEntry: the projected amounts and one of the     *)
(* system's own, a Charge's last and a top-up's first.                     *)
LEMMA HandedInIs ==
  ASSUME NEW r \in Requests
  PROVE  LET es == HandedIn(r)
             ps == Projected(r)
             n  == Len(ps) IN
         /\ DOMAIN es = 1 .. (n + 1)
         /\ r \in Charges => /\ \A i \in 1 .. n : es[i] = ps[i]
                             /\ es[n + 1] = Entry("platform_fee", Fee(r))
         /\ r \in Topups => /\ \A i \in 1 .. n : es[1 + i] = ps[i]
                            /\ es[1] = Entry("clearing", -Req[r].amount)
<1> DEFINE es == HandedIn(r)
           ps == Projected(r)
           n  == Len(ps)
           E  == [account : Accounts, amount : Int]
<1>1. ps \in Seq(E) /\ n \in Nat  BY ProjectedEntries
<1>2. CASE r \in Charges
  <2> DEFINE e == Entry("platform_fee", Fee(r))
             U == E \cup {e}
  <2>1. es = ps \o <<e>>  BY <1>2, ChargeOrTopup DEF HandedIn
  <2> HIDE DEF es, ps, E, e
  <2>2. ps \in Seq(U) /\ <<e>> \in Seq(U) /\ Len(<<e>>) = 1 /\ <<e>>[1] = e
    BY <1>1, SeqMonotonic
  <2> HIDE DEF U
  <2>3. /\ ps \o <<e>> \in Seq(U) /\ Len(ps \o <<e>>) = Len(ps) + Len(<<e>>)
        /\ \A i \in 1 .. Len(ps) + Len(<<e>>) :
             (ps \o <<e>>)[i] = IF i <= Len(ps) THEN ps[i] ELSE <<e>>[i - Len(ps)]
    BY <2>2, ConcatProperties
  <2>4. /\ DOMAIN es = 1 .. (n + 1) /\ \A i \in 1 .. n : es[i] = ps[i]
        /\ es[n + 1] = e
    <3>1. DOMAIN es = 1 .. (n + 1)  BY <1>1, <2>1, <2>2, <2>3, LenProperties
    <3>2. \A i \in 1 .. n : i \in 1 .. Len(ps) + Len(<<e>>) /\ i <= Len(ps)
      BY <1>1, <2>2
    <3>3. n + 1 \in 1 .. Len(ps) + Len(<<e>>) /\ ~(n + 1 <= Len(ps)) /\ n + 1 - Len(ps) = 1
      BY <1>1, <2>2
    <3> QED  BY <2>1, <2>2, <2>3, <3>1, <3>2, <3>3
  <2> QED  BY <1>2, <2>4, ChargeOrTopup DEF es, ps, e
<1>3. CASE r \in Topups
  <2> DEFINE e == Entry("clearing", -Req[r].amount)
             p == Entry(Req[r].account, Req[r].amount)
  <2>1. ps = <<p>> /\ es = <<e>> \o ps  BY <1>3, TopupProjects DEF HandedIn
  <2> HIDE DEF es, ps, E, e, p
  <2>a. /\ <<e>> \in Seq({e, p}) /\ Len(<<e>>) = 1 /\ <<e>>[1] = e
        /\ <<p>> \in Seq({e, p}) /\ Len(<<p>>) = 1 /\ <<p>>[1] = p
    OBVIOUS
  <2>2. n = 1 /\ ps[1] = p  BY <2>1, <2>a
  <2>b. /\ <<e>> \o <<p>> \in Seq({e, p}) /\ Len(<<e>> \o <<p>>) = Len(<<e>>) + Len(<<p>>)
        /\ \A i \in 1 .. Len(<<e>>) + Len(<<p>>) :
             (<<e>> \o <<p>>)[i] = IF i <= Len(<<e>>) THEN <<e>>[i] ELSE <<p>>[i - Len(<<e>>)]
    BY <2>a, ConcatProperties
  <2>3. DOMAIN es = 1 .. 2 /\ es[1] = e /\ es[2] = p
    <3>1. DOMAIN (<<e>> \o <<p>>) = 1 .. 2  BY <2>a, <2>b, LenProperties
    <3>2. (<<e>> \o <<p>>)[1] = e /\ (<<e>> \o <<p>>)[2] = p  BY <2>a, <2>b
    <3> QED  BY <2>1, <3>1, <3>2
  <2>4. \A i \in 1 .. n : i = 1  BY <2>2
  <2> QED  BY <1>3, <2>2, <2>3, <2>4, ChargeOrTopup DEF es, ps, e
<1> QED  BY <1>2, <1>3, ChargeOrTopup DEF Kinds

(* Their amounts are integers.                                             *)
LEMMA HandedInAmounts ==
  ASSUME NEW r \in Requests
  PROVE  \A i \in DOMAIN HandedIn(r) : HandedIn(r)[i].amount \in Int
<1> DEFINE es == HandedIn(r)
           n  == Len(Projected(r))
<1>1. n \in Nat /\ DOMAIN es = 1 .. (n + 1)  BY HandedInIs, ProjectedEntries
<1>2. CASE r \in Charges
  <2>1. Fee(r) \in Int  BY <1>2, ChargeAmounts
  <2>2. \A i \in 1 .. n : es[i].amount \in Int  BY <1>2, HandedInIs, ProjectedEntries
  <2>3. es[n + 1].amount \in Int
    <3>1. es[n + 1] = Entry("platform_fee", Fee(r))  BY <1>2, HandedInIs
    <3> QED  BY <2>1, <3>1 DEF Entry
  <2> QED  BY <1>1, <2>2, <2>3
<1>3. CASE r \in Topups
  <2>1. /\ Req[r].amount \in Int /\ n = 1
        /\ Projected(r)[1].amount = Req[r].amount
    BY <1>3, TopupProjects DEF Entry
  <2>2. es[1].amount \in Int
    <3>1. es[1] = Entry("clearing", -Req[r].amount)  BY <1>3, HandedInIs
    <3> QED  BY <2>1, <3>1 DEF Entry
  <2>3. es[2].amount \in Int
    <3>1. 1 \in 1 .. n  BY <2>1
    <3>2. es[1 + 1] = Projected(r)[1]  BY <1>3, <3>1, HandedInIs
    <3> QED  BY <2>1, <3>2
  <2> QED  BY <1>1, <2>1, <2>2, <2>3
<1> QED  BY <1>2, <1>3, ChargeOrTopup DEF Kinds

(* The entries that insertEntry skips make no difference to a sum.         *)
LEMMA SkippedEntries ==
  ASSUME NEW r \in Requests, NEW g,
         \A i \in DOMAIN HandedIn(r) : g[i] \in Int,
         \A i \in DOMAIN HandedIn(r) : HandedIn(r)[i].amount = 0 => g[i] = 0,
         NEW h, DOMAIN h = DOMAIN LedgerEntries(r),
         \A i \in DOMAIN LedgerEntries(r) : h[i] = g[i]
  PROVE  /\ SumFunction(h) = SumFunctionOnSet(g, 1 .. (Len(Projected(r)) + 1))
         /\ \A i \in DOMAIN LedgerEntries(r) : LedgerEntries(r)[i] = HandedIn(r)[i]
<1> DEFINE S == DOMAIN HandedIn(r)
           A == DOMAIN LedgerEntries(r)
<1>1. /\ A = {j \in S : HandedIn(r)[j].amount # 0}
      /\ \A i \in A : LedgerEntries(r)[i] = HandedIn(r)[i]
  BY DEF LedgerEntries
<1>2. S = 1 .. (Len(Projected(r)) + 1) /\ Len(Projected(r)) \in Nat
  BY HandedInIs, ProjectedEntries
<1> HIDE DEF S, A
<1>3. IsFiniteSet(S)
  <2> DEFINE m == Len(Projected(r)) + 1
  <2>1. S = 1 .. m /\ m \in Int  BY <1>2
  <2> HIDE DEF m
  <2>2. 1 \in Int  OBVIOUS
  <2>3. IsFiniteSet(1 .. m)  BY <2>1, <2>2, FS_Interval, Zenon
  <2> QED  BY <2>1, <2>3, Zenon
<1>4. A \in SUBSET S /\ \A i \in S \ A : g[i] = 0  BY <1>1 DEF S
<1>5. IsFiniteSet(A)  BY <1>3, <1>4, FS_Subset
<1>6. \A i \in S : g[i] \in Int  BY DEF S
<1>7. SumFunctionOnSet(g, S) = SumFunctionOnSet(g, A)
  BY <1>3, <1>4, <1>6, SumSkipsZeros
<1>8. \A i \in A : h[i] = g[i]  BY DEF A
<1>9. SumFunctionOnSet(h, A) = SumFunctionOnSet(g, A)  BY <1>5, <1>8, SumsAgree
<1>10. SumFunction(h) = SumFunctionOnSet(h, A)  BY DEF SumFunction, A
<1>11. SumFunction(h) = SumFunctionOnSet(g, S)  BY <1>7, <1>9, <1>10
<1> QED  BY <1>1, <1>2, <1>11 DEF A

(* For every gross, rate and list of commissions, and for every top-up,    *)
(* the entries add up to zero.                                             *)
LEMMA EveryRequestBalances == \A r \in Requests : Balanced(r)
<1> SUFFICES ASSUME NEW r \in Requests PROVE Balanced(r)  OBVIOUS
<1> DEFINE es == HandedIn(r)
           n  == Len(Projected(r))
           g  == [i \in DOMAIN es |-> es[i].amount]
           h  == [i \in DOMAIN LedgerEntries(r) |-> LedgerEntries(r)[i].amount]
<1>1. n \in Nat /\ DOMAIN es = 1 .. (n + 1)  BY HandedInIs, ProjectedEntries
<1>2. \A i \in DOMAIN es : g[i] \in Int  BY HandedInAmounts
<1>3. \A i \in DOMAIN LedgerEntries(r) : i \in DOMAIN es /\ LedgerEntries(r)[i] = es[i]
  BY DEF LedgerEntries
<1>4. SumFunction(h) = SumFunctionOnSet(g, 1 .. (n + 1))
  <2>1. /\ DOMAIN h = DOMAIN LedgerEntries(r)
        /\ \A i \in DOMAIN LedgerEntries(r) : h[i] = g[i]
        /\ \A i \in DOMAIN es : es[i].amount = 0 => g[i] = 0
    BY <1>3
  <2> HIDE DEF h, g
  <2> QED  BY <1>2, <2>1, SkippedEntries
<1>5. SumFunctionOnSet(g, 1 .. (n + 1)) = 0
  <2>0. \A i \in 1 .. (n + 1) : g[i] = es[i].amount /\ g[i] \in Int  BY <1>1, <1>2
  <2> HIDE DEF g
  <2>1. SumFunctionOnSet(g, 1 .. 0) = 0
    <3>1. 1 .. 0 = {}  OBVIOUS
    <3> QED  BY <3>1, SumOfNone
  <2>2. 1 \in 1 .. (n + 1) /\ \A i \in 1 .. (0 + 1) : g[i] \in Int  BY <1>1, <2>0
  <2>3. SumFunctionOnSet(g, 1 .. 1) = g[1]
    <3>1. SumFunctionOnSet(g, 1 .. (0 + 1)) = SumFunctionOnSet(g, 1 .. 0) + g[0 + 1]
      BY <2>2, SumUpTo
    <3> QED  BY <2>0, <2>1, <2>2, <3>1
  <2>4. CASE r \in Charges
    <3> DEFINE cs == Req[r].commissions
               k == Len(cs)
               c == [i \in DOMAIN cs |-> cs[i].amount]
    <3>a. /\ Req[r].gross \in Int /\ k \in Nat
          /\ CommissionSum(r) \in Int /\ Fee(r) \in Int /\ MainNet(r) \in Int
      BY <2>4, ChargeAmounts
    <3>b. DOMAIN cs = 1 .. k /\ CommissionSum(r) = SumFunctionOnSet(c, 1 .. k)
      BY <2>4, ChargeMoney
    <3>1. /\ Req[r].gross \in Int /\ k \in Nat /\ DOMAIN cs = 1 .. k
          /\ CommissionSum(r) = SumFunctionOnSet(c, 1 .. k)
          /\ CommissionSum(r) \in Int /\ Fee(r) \in Int /\ MainNet(r) \in Int
      BY <3>a, <3>b
    <3>2. /\ n = 2 + k /\ Projected(r)[1].amount = -Req[r].gross
          /\ Projected(r)[2].amount = MainNet(r)
          /\ \A i \in 1 .. k : Projected(r)[2 + i].amount = c[i]
      BY <2>4, <3>1, ChargeProjects
    <3>3. \A i \in 1 .. n : g[i] = Projected(r)[i].amount
      BY <1>1, <2>0, <2>4, HandedInIs
    <3>4. g[1] = -Req[r].gross /\ g[2] = MainNet(r) /\ \A i \in 1 .. k : g[2 + i] = c[i]
      <4> HIDE DEF c, k, n
      <4>1. 1 \in 1 .. n /\ 2 \in 1 .. n /\ \A i \in 1 .. k : 2 + i \in 1 .. n
        BY <3>1, <3>2
      <4> QED  BY <3>2, <3>3, <4>1
    <3>5. g[n + 1] = Fee(r)
      <4>1. es[n + 1] = Entry("platform_fee", Fee(r))  BY <2>4, HandedInIs
      <4>2. es[n + 1].amount = Fee(r)  BY <4>1 DEF Entry
      <4> QED  BY <1>1, <2>0, <4>2
    <3> HIDE DEF c, k
    <3>6. SumFunctionOnSet(g, 1 .. (1 + 1)) = SumFunctionOnSet(g, 1 .. 1) + g[1 + 1]
      <4>1. \A i \in 1 .. (1 + 1) : g[i] \in Int  BY <2>0, <3>1, <3>2
      <4> QED  BY <4>1, SumUpTo
    <3>7. SumFunctionOnSet(g, 1 .. (2 + k))
            = SumFunctionOnSet(g, 1 .. 2) + SumFunctionOnSet(c, 1 .. k)
      <4>1. \A i \in 1 .. (2 + k) : g[i] \in Int  BY <2>0, <3>1, <3>2
      <4>2. \A i \in 1 .. k : g[2 + i] = c[i]  BY <3>4
      <4> QED  BY <3>1, <4>1, <4>2, SumAfterTwo
    <3>8. SumFunctionOnSet(g, 1 .. (n + 1)) = SumFunctionOnSet(g, 1 .. n) + g[n + 1]
      BY <1>1, <2>0, SumUpTo
    <3>9. MainNet(r) = Req[r].gross - CommissionSum(r) - Fee(r)  BY DEF MainNet
    <3> QED  BY <2>3, <3>1, <3>2, <3>4, <3>5, <3>6, <3>7, <3>8, <3>9
  <2>5. CASE r \in Topups
    <3>1. /\ Req[r].amount \in Int /\ n = 1
          /\ Projected(r)[1].amount = Req[r].amount
      BY <2>5, TopupProjects DEF Entry
    <3>2. es[1].amount = -Req[r].amount
      <4>1. es[1] = Entry("clearing", -Req[r].amount)  BY <2>5, HandedInIs
      <4> QED  BY <4>1 DEF Entry
    <3>3. es[2].amount = Req[r].amount
      <4>1. 1 \in 1 .. n  BY <3>1
      <4>2. es[1 + 1] = Projected(r)[1]  BY <2>5, <4>1, HandedInIs
      <4> QED  BY <3>1, <4>2
    <3>4. g[1] = -Req[r].amount /\ g[2] = Req[r].amount  BY <2>0, <3>1, <3>2, <3>3
    <3>5. SumFunctionOnSet(g, 1 .. (1 + 1)) = SumFunctionOnSet(g, 1 .. 1) + g[1 + 1]
      <4>1. \A i \in 1 .. (1 + 1) : g[i] \in Int  BY <2>0, <3>1
      <4> QED  BY <4>1, SumUpTo
    <3> QED  BY <2>3, <3>1, <3>4, <3>5
  <2> QED  BY <2>4, <2>5, ChargeOrTopup DEF Kinds
<1> QED  BY <1>4, <1>5 DEF Balanced

(* The deferred triggers refuse no Charge and no top-up: postLedger, the   *)
(* fee and the merchant's net add up to zero, whatever the commissions.    *)
THEOREM EntriesAlwaysBalance == Spec => []EntriesBalance
<1>1. EntriesBalance  BY EveryRequestBalances DEF EntriesBalance
<1> QED  BY <1>1, PTL DEF Spec

-----------------------------------------------------------------------------
(* The balances the clients see.                                           *)

\* What the first k balances a request updates add to account a.
Share(r, a) == [i \in DOMAIN Projected(r) |->
                  IF Projected(r)[i].account = a THEN Projected(r)[i].amount ELSE 0]
Paid(r, k, a) == SumFunctionOnSet(Share(r, a), 1 .. k)

\* The balances a transaction has updated so far.
Updates(r) == IF at[r] < 4 THEN 0 ELSE at[r] - 4

(* What a transaction has written: of an account it has met, the committed *)
(* balance, which nobody else can write meanwhile, and its own share.      *)
OwnMoney(r) ==
  /\ DOMAIN written[r] \subseteq Accounts
  /\ \A a \in DOMAIN written[r] : /\ <<"balance", a>> \in Locks(r)
                                 /\ written[r][a] = balance[a] + Paid(r, Updates(r), a)
  /\ \A a \in Accounts \ DOMAIN written[r] :
       \A i \in 1 .. Updates(r) : Projected(r)[i].account # a

(* The inductive invariant, together with IdInv and StandingInv.           *)
MoneyInv ==
  /\ balance \in [Accounts -> Int] /\ IsFiniteSet(committed) /\ DOMAIN written = Requests
  /\ \A r \in Requests : OwnMoney(r)
  /\ ProjectionMatchesLedger

(* Balance by balance.                                                     *)
LEMMA PaidGoesOn ==
  ASSUME NEW r \in Requests, NEW a
  PROVE  /\ Paid(r, 0, a) = 0
         /\ \A k \in 0 .. Len(Projected(r)) : Paid(r, k, a) \in Int
         /\ \A k \in 0 .. Len(Projected(r)) : k < Len(Projected(r)) =>
              Paid(r, k + 1, a) = Paid(r, k, a)
                + IF Projected(r)[k + 1].account = a THEN Projected(r)[k + 1].amount ELSE 0
         /\ \A k \in 0 .. Len(Projected(r)) :
              (\A i \in 1 .. k : Projected(r)[i].account # a) => Paid(r, k, a) = 0
<1> DEFINE n == Len(Projected(r))
           f == Share(r, a)
<1>1. /\ n \in Nat /\ DOMAIN Projected(r) = 1 .. n
      /\ \A i \in 1 .. n : Projected(r)[i].amount \in Int
  BY ProjectedEntries
<1>2. \A i \in 1 .. n :
        /\ f[i] = IF Projected(r)[i].account = a THEN Projected(r)[i].amount ELSE 0
        /\ f[i] \in Int
  BY <1>1 DEF Share
<1>3. \A k \in 0 .. n : Paid(r, k, a) = SumFunctionOnSet(f, 1 .. k)  BY DEF Paid
<1> HIDE DEF n, f
<1>4. Paid(r, 0, a) = 0
  <2>1. 0 \in 0 .. n /\ 1 .. 0 = {}  BY <1>1
  <2> QED  BY <1>3, <2>1, SumOfNone
<1>5. ASSUME NEW k \in 0 .. n PROVE Paid(r, k, a) \in Int
  <2>1. k \in Int /\ \A i \in 1 .. k : f[i] \in Int  BY <1>1, <1>2
  <2>2. IsFiniteSet(1 .. k)  BY <2>1, FS_Interval
  <2>3. SumFunctionOnSet(f, 1 .. k) \in Int  BY <2>1, <2>2, SumIsInt
  <2> QED  BY <1>3, <2>3
<1>6. ASSUME NEW k \in 0 .. n, k < n
      PROVE  Paid(r, k + 1, a) = Paid(r, k, a)
               + IF Projected(r)[k + 1].account = a THEN Projected(r)[k + 1].amount ELSE 0
  <2>1. /\ k \in Nat /\ k + 1 \in 0 .. n /\ k + 1 \in 1 .. n
        /\ \A i \in 1 .. (k + 1) : f[i] \in Int
    BY <1>1, <1>2, <1>6
  <2>2. SumFunctionOnSet(f, 1 .. (k + 1)) = SumFunctionOnSet(f, 1 .. k) + f[k + 1]
    BY <2>1, SumUpTo
  <2> QED  BY <1>2, <1>3, <2>1, <2>2
<1>7. ASSUME NEW k \in 0 .. n, \A i \in 1 .. k : Projected(r)[i].account # a
      PROVE  Paid(r, k, a) = 0
  <2> DEFINE S == 1 .. k
  <2>1. k \in Int /\ \A i \in S : f[i] \in Int /\ f[i] = 0  BY <1>1, <1>2, <1>7
  <2>2. IsFiniteSet(S)  BY <2>1, FS_Interval
  <2>3. SumFunctionOnSet(f, S) = Paid(r, k, a)  BY <1>3
  <2> HIDE DEF S
  <2>4. {} \in SUBSET S /\ \A i \in S \ {} : f[i] = 0  BY <2>1
  <2>5. SumFunctionOnSet(f, S) = SumFunctionOnSet(f, {})  BY <2>1, <2>2, <2>4, SumSkipsZeros
  <2> QED  BY <2>3, <2>5, SumOfNone
<1> QED  BY <1>4, <1>5, <1>6, <1>7 DEF n

(* What the posted entries of a request say of an owned account is what    *)
(* its transaction has added to it: the system's own entry is of neither.  *)
LEMMA NetIsPaid ==
  ASSUME NEW r \in Requests, NEW a \in Accounts
  PROVE  /\ NetOf[r][a] = Paid(r, Len(Projected(r)), a)
         /\ NetOf[r][a] \in Int
<1> DEFINE es == HandedIn(r)
           ps == Projected(r)
           n  == Len(ps)
           les == LedgerEntries(r)
           g  == [i \in DOMAIN es |-> IF es[i].account = a THEN es[i].amount ELSE 0]
           h  == [i \in DOMAIN les |-> IF les[i].account = a THEN les[i].amount ELSE 0]
           f  == Share(r, a)
<1>1. /\ n \in Nat /\ DOMAIN es = 1 .. (n + 1) /\ DOMAIN ps = 1 .. n
      /\ \A i \in DOMAIN es : es[i].amount \in Int
  BY HandedInIs, HandedInAmounts, ProjectedEntries
<1>2. NetOf[r][a] = SumFunction(h)  BY DEF NetOf, Net
<1>3. \A i \in DOMAIN es : /\ g[i] \in Int
                           /\ g[i] = IF es[i].account = a THEN es[i].amount ELSE 0
                           /\ es[i].amount = 0 => g[i] = 0
  BY <1>1
<1>4. \A i \in DOMAIN les : i \in DOMAIN es /\ les[i] = es[i]  BY DEF LedgerEntries
<1>5. DOMAIN h = DOMAIN les /\ \A i \in DOMAIN les : h[i] = g[i]  BY <1>4
<1>6. Paid(r, n, a) = SumFunctionOnSet(f, 1 .. n) /\ Paid(r, n, a) \in Int
  <2>1. n \in 0 .. n  BY <1>1
  <2>2. Paid(r, n, a) \in Int  BY <2>1, PaidGoesOn
  <2> QED  BY <2>2 DEF Paid
<1>7. \A i \in 1 .. n : f[i] = IF ps[i].account = a THEN ps[i].amount ELSE 0
  BY <1>1 DEF Share
<1> HIDE DEF g, h, f
<1>8. SumFunction(h) = SumFunctionOnSet(g, 1 .. (n + 1))
  BY <1>3, <1>5, SkippedEntries
<1> HIDE DEF n, es, les
<1>9. \A i \in 1 .. (n + 1) : g[i] \in Int  BY <1>1, <1>3
<1>10. SumFunctionOnSet(g, 1 .. (n + 1)) = SumFunctionOnSet(g, 1 .. n) + g[n + 1]
  BY <1>1, <1>9, SumUpTo
<1>11. CASE r \in Charges
  <2>1. es[n + 1] = Entry("platform_fee", Fee(r)) /\ \A i \in 1 .. n : es[i] = ps[i]
    BY <1>11, HandedInIs DEF es, n
  <2>2. es[n + 1].account # a  BY <2>1, SystemAssumption DEF Entry
  <2>3. g[n + 1] = 0  BY <1>1, <1>3, <2>2
  <2>4. \A i \in 1 .. n : g[i] = f[i]  BY <1>1, <1>3, <1>7, <2>1
  <2> DEFINE S == 1 .. n
  <2>5. IsFiniteSet(S)  BY <1>1, FS_Interval
  <2>6. \A i \in S : g[i] = f[i]  BY <2>4
  <2> HIDE DEF S
  <2>7. SumFunctionOnSet(g, S) = SumFunctionOnSet(f, S)  BY <2>5, <2>6, SumsAgree
  <2>8. SumFunctionOnSet(g, 1 .. n) = Paid(r, n, a)  BY <1>6, <2>7 DEF S
  <2> QED  BY <1>2, <1>6, <1>8, <1>10, <2>3, <2>8 DEF n
<1>12. CASE r \in Topups
  <2>1. /\ n = 1 /\ es[1] = Entry("clearing", -Req[r].amount)
        /\ \A i \in 1 .. n : es[1 + i] = ps[i]
    <3>1. n = 1  BY <1>12, TopupProjects DEF n
    <3> QED  BY <1>12, <3>1, HandedInIs DEF es, n
  <2>2. es[1].account # a  BY <2>1, SystemAssumption DEF Entry
  <2>3. es[2] = ps[1]
    <3>1. 1 \in 1 .. n  BY <2>1
    <3>2. es[1 + 1] = ps[1]  BY <2>1, <3>1
    <3> QED  BY <3>2
  <2>4. g[1] = 0 /\ g[2] = f[1]
    <3>1. 1 \in DOMAIN es /\ 2 \in DOMAIN es /\ 1 \in 1 .. n  BY <1>1, <2>1
    <3> QED  BY <1>3, <1>7, <2>2, <2>3, <3>1
  <2>5. \A e : (\A i \in {1} : e[i] \in Int) => SumFunctionOnSet(e, 1 .. 1) = e[1]
    <3> TAKE e
    <3> SUFFICES ASSUME e[1] \in Int PROVE SumFunctionOnSet(e, 1 .. 1) = e[1]  OBVIOUS
    <3>1. 0 \in Nat /\ \A i \in 1 .. (0 + 1) : e[i] \in Int  OBVIOUS
    <3>2. SumFunctionOnSet(e, 1 .. (0 + 1)) = SumFunctionOnSet(e, 1 .. 0) + e[0 + 1]
      BY <3>1, SumUpTo
    <3>3. 1 .. 0 = {}  OBVIOUS
    <3>4. SumFunctionOnSet(e, 1 .. 0) = 0  BY <3>3, SumOfNone
    <3> QED  BY <3>2, <3>4
  <2>6. g[1] \in Int /\ f[1] \in Int /\ g[2] = f[1]
    <3>1. 1 \in 1 .. (n + 1) /\ 2 \in 1 .. (n + 1)  BY <2>1
    <3> QED  BY <1>9, <2>4, <3>1
  <2>7. SumFunctionOnSet(g, 1 .. 1) = g[1] /\ SumFunctionOnSet(f, 1 .. 1) = f[1]
    BY <2>5, <2>6
  <2>8. SumFunctionOnSet(g, 1 .. (n + 1)) = f[1]  BY <1>10, <2>1, <2>4, <2>6, <2>7
  <2>9. Paid(r, n, a) = f[1]  BY <1>6, <2>1, <2>7
  <2> QED  BY <1>2, <1>6, <1>8, <2>8, <2>9 DEF n
<1> QED  BY <1>11, <1>12, ChargeOrTopup DEF Kinds

(* The posted entries of one transaction more.                             *)
LEMMA PostedGrows ==
  ASSUME IsFiniteSet(committed), committed \subseteq Requests,
         NEW r \in Requests, r \notin committed, committed' = committed \cup {r},
         NEW a \in Accounts
  PROVE  Posted(a)' = Posted(a) + Paid(r, Len(Projected(r)), a)
<1> DEFINE f == [q \in Requests |-> NetOf[q][a]]
           C == committed
<1>1. \A q \in C \cup {r} : f[q] \in Int  BY NetIsPaid
<1>2. f[r] = Paid(r, Len(Projected(r)), a)  BY NetIsPaid
<1>3. Posted(a) = SumFunctionOnSet(f, C)  BY DEF Posted
<1>4. Posted(a)' = SumFunctionOnSet(f, C \cup {r})  BY DEF Posted
<1>5. IsFiniteSet(C) /\ r \notin C  OBVIOUS
<1> HIDE DEF f, C
<1>6. SumFunctionOnSet(f, C \cup {r}) = SumFunctionOnSet(f, C) + f[r]
  BY <1>1, <1>5, SumOfOneMore
<1> QED  BY <1>2, <1>3, <1>4, <1>6

(* A request whose own state, and whose balances, nobody touches.          *)
LEMMA MoneyUntouched ==
  ASSUME NEW q \in Requests, OwnMoney(q), at'[q] = at[q], written'[q] = written[q],
         \A a \in DOMAIN written[q] : balance'[a] = balance[a]
  PROVE  OwnMoney(q)'
<1>1. Locks(q)' = Locks(q) /\ Updates(q)' = Updates(q)  BY DEF Locks, Updates
<1> QED  BY <1>1 DEF OwnMoney

(* A request that has ended owns no balance.                               *)
LEMMA MoneyOfEnded ==
  ASSUME NEW r \in Requests, at'[r] = 0, written'[r] = NothingWritten
  PROVE  OwnMoney(r)'
<1>1. DOMAIN written'[r] = {}  BY DEF NothingWritten
<1>2. Updates(r)' = 0  BY DEF Updates
<1>3. 1 .. 0 = {}  OBVIOUS
<1> QED  BY <1>1, <1>2, <1>3 DEF OwnMoney

(* Steps that leave the balances alone: the request ends, goes on without  *)
(* having updated a balance, or stays.                                     *)
LEMMA MoneyStays ==
  ASSUME MoneyInv, IdInv, UNCHANGED <<committed, balance>>, NEW r \in Requests,
         \/ \E how : End(r, how)
         \/ Go(r) /\ CanStep(r) /\ NextStep(r).kind # "balance" /\ UNCHANGED written
         \/ UNCHANGED <<at, written>>
  PROVE  MoneyInv'
<1>1. /\ DOMAIN written = Requests /\ \A q \in Requests : OwnMoney(q)
      /\ at \in [Requests -> Nat]
  BY DEF MoneyInv, IdInv
<1>2. \A a \in Accounts : Posted(a)' = Posted(a)  BY DEF Posted
<1>3. ProjectionMatchesLedger'
  BY <1>2 DEF MoneyInv, ProjectionMatchesLedger
<1>4. DOMAIN written' = Requests /\ \A q \in Requests : OwnMoney(q)'
  <2>1. CASE \E how : End(r, how)
    <3>1. /\ at'[r] = 0 /\ written'[r] = NothingWritten /\ DOMAIN written' = Requests
          /\ \A q \in Requests \ {r} : at'[q] = at[q] /\ written'[q] = written[q]
      BY <1>1, <2>1 DEF End
    <3>2. ASSUME NEW q \in Requests PROVE OwnMoney(q)'
      <4>1. CASE q = r  BY <3>1, <4>1, MoneyOfEnded
      <4>2. CASE q # r  BY <1>1, <3>1, <4>2, MoneyUntouched
      <4> QED  BY <4>1, <4>2
    <3> QED  BY <3>1, <3>2
  <2>2. CASE Go(r) /\ CanStep(r) /\ NextStep(r).kind # "balance" /\ UNCHANGED written
    <3>1. /\ at'[r] = at[r] + 1 /\ \A q \in Requests \ {r} : at'[q] = at[q]
          /\ at[r] \in Nat /\ at[r] < Len(Steps[r]) /\ Len(Steps[r]) \in Nat
      BY <1>1, <2>2, HowTheyBegin DEF Go, CanStep
    <3>2. at[r] < 4
      <4> SUFFICES ASSUME at[r] >= 4 PROVE FALSE  BY <3>1
      <4> DEFINE n == at[r] - 4
                 m == Len(Projected(r))
      <4>1. m \in Nat /\ Len(Steps[r]) = 4 + m  BY ProjectedEntries, HowTheyGoOn
      <4>2. n + 1 \in 1 .. m /\ 4 + (n + 1) = at[r] + 1  BY <3>1, <4>1
      <4>3. Steps[r][4 + (n + 1)] = BalanceStep(Projected(r)[n + 1])
        BY <4>2, HowTheyGoOn
      <4>4. NextStep(r).kind = "balance"  BY <4>2, <4>3 DEF NextStep, BalanceStep
      <4> QED  BY <2>2, <4>4
    <3>3. Updates(r) = 0 /\ Updates(r)' = 0  BY <3>1, <3>2 DEF Updates
    <3>4. Locks(r) \subseteq Locks(r)'
      <4>1. at[r] \in 0 .. Len(Steps[r]) /\ at[r] + 1 \in 0 .. Len(Steps[r])  BY <3>1
      <4> QED  BY <3>1, <4>1, HoldsStepLocks DEF Locks
    <3>5. OwnMoney(r)'  BY <1>1, <2>2, <3>3, <3>4 DEF OwnMoney
    <3>6. \A q \in Requests \ {r} : OwnMoney(q)'  BY <1>1, <2>2, <3>1, MoneyUntouched
    <3> QED  BY <1>1, <2>2, <3>5, <3>6
  <2>3. CASE UNCHANGED <<at, written>>  BY <1>1, <2>3, MoneyUntouched
  <2> QED  BY <2>1, <2>2, <2>3
<1> QED  BY <1>3, <1>4 DEF MoneyInv

(* An UPDATE adds the next share to what its transaction sees.             *)
LEMMA MoneyMoves ==
  ASSUME MoneyInv, IdInv, NEW r \in Requests, UpdateBalance(r)
  PROVE  MoneyInv'
<1> DEFINE a   == NextStep(r).account
           old == IF a \in DOMAIN written[r] THEN written[r][a] ELSE balance[a]
           n   == at[r] - 4
           m   == Len(Projected(r))
           e   == Projected(r)[n + 1]
<1>1. /\ DOMAIN written = Requests /\ \A q \in Requests : OwnMoney(q)
      /\ at \in [Requests -> Nat] /\ balance \in [Accounts -> Int]
      /\ m \in Nat /\ Len(Steps[r]) = 4 + m
  BY ProjectedEntries, HowTheyGoOn DEF MoneyInv, IdInv
<1>2. /\ CanStep(r) /\ NextStep(r).kind = "balance" /\ UNCHANGED <<committed, balance>>
      /\ at' = [at EXCEPT ![r] = @ + 1]
      /\ written' = [written EXCEPT ![r] =
           [b \in DOMAIN @ \cup {a} |-> IF b = a THEN old + NextStep(r).amount ELSE @[b]]]
  BY DEF UpdateBalance, Ready, Go, unstepped
<1>3. /\ at[r] \in Nat /\ at[r] < 4 + m /\ at'[r] = at[r] + 1
      /\ \A q \in Requests \ {r} : at'[q] = at[q] /\ written'[q] = written[q]
  BY <1>1, <1>2 DEF CanStep
<1>4. at[r] >= 4
  <2> SUFFICES ASSUME at[r] < 4 PROVE FALSE  BY <1>3
  <2>1. at[r] + 1 \in 1 .. 4  BY <1>3
  <2>2. NextStep(r).kind # "balance"  BY <2>1, HowTheyGoOn DEF NextStep
  <2> QED  BY <1>2, <2>2
<1>5. /\ n \in 0 .. m /\ n < m /\ n + 1 \in 1 .. m /\ n + 1 \in 0 .. m /\ n \in Nat
      /\ 4 + (n + 1) = at[r] + 1
      /\ Updates(r) = n /\ Updates(r)' = n + 1
  BY <1>1, <1>3, <1>4 DEF Updates
<1>6. NextStep(r) = BalanceStep(e)
  <2>1. Steps[r][4 + (n + 1)] = BalanceStep(e)  BY <1>5, HowTheyGoOn
  <2> QED  BY <1>5, <2>1 DEF NextStep
<1>7. /\ a = e.account /\ NextStep(r).amount = e.amount
      /\ NextStep(r).locks = {<<"balance", a>>}
      /\ a \in Accounts /\ e.amount \in Int
  <2>1. e.account \in Accounts /\ e.amount \in Int  BY <1>5, ProjectedEntries
  <2> QED  BY <1>6, <2>1 DEF BalanceStep
<1>8. \A b \in Accounts :
        /\ Paid(r, n, b) \in Int
        /\ Paid(r, n + 1, b) = Paid(r, n, b) + IF e.account = b THEN e.amount ELSE 0
        /\ (\A i \in 1 .. n : Projected(r)[i].account # b) => Paid(r, n, b) = 0
  BY <1>5, PaidGoesOn
<1>9. Locks(r)' = Locks(r) \cup {<<"balance", a>>}
  <2>1. at[r] \in 0 .. Len(Steps[r]) /\ at[r] + 1 \in 0 .. Len(Steps[r])  BY <1>1, <1>3
  <2>2. LocksAfter[r][at[r] + 1] = LocksAfter[r][at[r]] \cup NextStep(r).locks
    BY <2>1, HoldsStepLocks DEF NextStep
  <2> QED  BY <1>3, <1>7, <2>2 DEF Locks
<1>10. /\ DOMAIN written' = Requests
       /\ DOMAIN written'[r] = DOMAIN written[r] \cup {a}
       /\ written'[r][a] = old + e.amount
       /\ \A b \in DOMAIN written[r] : b # a => written'[r][b] = written[r][b]
  BY <1>1, <1>2, <1>7
<1>11. old = balance[a] + Paid(r, n, a)
  <2>1. CASE a \in DOMAIN written[r]  BY <1>1, <1>5, <2>1 DEF OwnMoney
  <2>2. CASE a \notin DOMAIN written[r]
    <3>1. \A i \in 1 .. n : Projected(r)[i].account # a
      BY <1>1, <1>5, <1>7, <2>2 DEF OwnMoney
    <3>2. Paid(r, n, a) = 0  BY <1>7, <1>8, <3>1
    <3>3. balance[a] \in Int  BY <1>1, <1>7
    <3> QED  BY <2>2, <3>2, <3>3
  <2> QED  BY <2>1, <2>2
<1>20. a \in Accounts /\ a = e.account /\ balance[a] \in Int  BY <1>1, <1>7
<1> HIDE DEF a, old, n, m, e
<1>12. OwnMoney(r)'
  <2>1. DOMAIN written'[r] \subseteq Accounts
    BY <1>1, <1>10, <1>20 DEF OwnMoney
  <2>2. ASSUME NEW b \in DOMAIN written'[r]
        PROVE  /\ <<"balance", b>> \in Locks(r)'
               /\ written'[r][b] = balance'[b] + Paid(r, n + 1, b)
    <3>1. CASE b = a
      <4>1. Paid(r, n + 1, a) = Paid(r, n, a) + e.amount /\ Paid(r, n, a) \in Int
        BY <1>8, <1>20
      <4>2. written'[r][a] = (balance[a] + Paid(r, n, a)) + e.amount  BY <1>10, <1>11
      <4>3. e.amount \in Int  BY <1>7
      <4>4. written'[r][a] = balance[a] + Paid(r, n + 1, a)  BY <1>20, <4>1, <4>2, <4>3
      <4> QED  BY <1>2, <1>9, <3>1, <4>4
    <3>2. CASE b # a
      <4>1. b \in DOMAIN written[r] /\ b \in Accounts  BY <1>10, <2>1, <3>2
      <4>2. <<"balance", b>> \in Locks(r) /\ written[r][b] = balance[b] + Paid(r, n, b)
        BY <1>1, <1>5, <4>1 DEF OwnMoney
      <4>3. Paid(r, n + 1, b) = Paid(r, n, b)  BY <1>8, <1>20, <3>2, <4>1
      <4>4. written'[r][b] = written[r][b]  BY <1>10, <3>2, <4>1
      <4> QED  BY <1>2, <1>9, <4>2, <4>3, <4>4
    <3> QED  BY <3>1, <3>2
  <2>3. ASSUME NEW b \in Accounts \ DOMAIN written'[r], NEW i \in 1 .. (n + 1)
        PROVE  Projected(r)[i].account # b
    <3>1. b # a /\ b \notin DOMAIN written[r]  BY <1>10, <2>3
    <3>2. CASE i = n + 1  BY <1>20, <3>1, <3>2 DEF e
    <3>3. CASE i # n + 1
      <4>1. i \in 1 .. n  BY <1>5, <3>3
      <4> QED  BY <1>1, <1>5, <2>3, <3>1, <4>1 DEF OwnMoney
    <3> QED  BY <3>2, <3>3
  <2> QED  BY <1>5, <2>1, <2>2, <2>3 DEF OwnMoney
<1>13. \A q \in Requests \ {r} : OwnMoney(q)'  BY <1>1, <1>2, <1>3, MoneyUntouched
<1>14. ProjectionMatchesLedger'
  <2>1. \A b \in Accounts : Posted(b)' = Posted(b)  BY <1>2 DEF Posted
  <2> QED  BY <1>2, <2>1 DEF MoneyInv, ProjectionMatchesLedger
<1> QED  BY <1>2, <1>10, <1>12, <1>13, <1>14 DEF MoneyInv

(* A commit publishes what the transaction has written, and its entries.   *)
LEMMA MoneyCommits ==
  ASSUME MoneyInv, IdInv, StandingInv, NEW r \in Requests, Commit(r)
  PROVE  MoneyInv'
<1> DEFINE m == Len(Projected(r))
<1>1. /\ DOMAIN written = Requests /\ \A q \in Requests : OwnMoney(q)
      /\ at \in [Requests -> Nat] /\ balance \in [Accounts -> Int]
      /\ IsFiniteSet(committed) /\ committed \subseteq Requests
      /\ ProjectionMatchesLedger
      /\ m \in Nat /\ Len(Steps[r]) = 4 + m
  BY ProjectedEntries, HowTheyGoOn DEF MoneyInv, IdInv
<1>2. /\ pc[r] = "work" /\ at[r] = Len(Steps[r]) /\ committed' = committed \cup {r}
      /\ balance' = [a \in Accounts |-> IF a \in DOMAIN written[r]
                                          THEN written[r][a] ELSE balance[a]]
      /\ at' = [at EXCEPT ![r] = 0] /\ written' = [written EXCEPT ![r] = NothingWritten]
  BY DEF Commit, AtCommit, End
<1>3. r \notin committed  BY <1>2 DEF StandingInv
<1>4. Updates(r) = m /\ m \in 0 .. m  BY <1>1, <1>2 DEF Updates
<1>5. ASSUME NEW a \in Accounts
      PROVE  balance'[a] = balance[a] + Paid(r, m, a) /\ Paid(r, m, a) \in Int
  <2>1. /\ Paid(r, m, a) \in Int /\ balance[a] \in Int
        /\ (\A i \in 1 .. m : Projected(r)[i].account # a) => Paid(r, m, a) = 0
    BY <1>1, <1>4, PaidGoesOn
  <2>2. OwnMoney(r)  BY <1>1
  <2> HIDE DEF m
  <2>3. CASE a \in DOMAIN written[r]
    BY <1>2, <1>4, <2>1, <2>2, <2>3 DEF OwnMoney
  <2>4. CASE a \notin DOMAIN written[r]
    <3>1. \A i \in 1 .. m : Projected(r)[i].account # a
      BY <1>4, <2>2, <2>4 DEF OwnMoney
    <3>2. balance'[a] = balance[a]  BY <1>2, <2>4
    <3> QED  BY <2>1, <3>1, <3>2
  <2> QED  BY <2>3, <2>4
<1>6. balance' \in [Accounts -> Int]
  <2>1. \A a \in Accounts : balance'[a] \in Int  BY <1>1, <1>5
  <2> QED  BY <1>2, <2>1
<1>7. ProjectionMatchesLedger'
  <2> SUFFICES ASSUME NEW a \in Accounts PROVE balance'[a] = Posted(a)'
    BY DEF ProjectionMatchesLedger
  <2>1. balance[a] = Posted(a)  BY <1>1 DEF ProjectionMatchesLedger
  <2>2. Posted(a)' = Posted(a) + Paid(r, m, a)  BY <1>1, <1>2, <1>3, PostedGrows
  <2> QED  BY <1>5, <2>1, <2>2
<1>8. IsFiniteSet(committed')  BY <1>1, <1>2, FS_AddElement
<1>9. ASSUME NEW q \in Requests PROVE OwnMoney(q)'
  <2>1. CASE q = r
    <3>1. at'[r] = 0 /\ written'[r] = NothingWritten  BY <1>1, <1>2
    <3> QED  BY <2>1, <3>1, MoneyOfEnded
  <2>2. CASE q # r
    <3>1. OwnMoney(q) /\ OwnMoney(r)  BY <1>1
    <3>2. Locks(q) \cap Locks(r) = {}  BY <2>2 DEF IdInv
    <3>3. ASSUME NEW a \in DOMAIN written[q] PROVE balance'[a] = balance[a]
      <4>1. a \in Accounts /\ <<"balance", a>> \in Locks(q)  BY <3>1 DEF OwnMoney
      <4>2. <<"balance", a>> \notin Locks(r)  BY <3>2, <4>1
      <4>3. a \notin DOMAIN written[r]  BY <3>1, <4>2 DEF OwnMoney
      <4> QED  BY <1>2, <4>1, <4>3
    <3>4. at'[q] = at[q] /\ written'[q] = written[q]  BY <1>1, <1>2, <2>2
    <3> QED  BY <3>1, <3>3, <3>4, MoneyUntouched
  <2> QED  BY <2>1, <2>2
<1>10. DOMAIN written' = Requests  BY <1>1, <1>2
<1> QED  BY <1>6, <1>7, <1>8, <1>9, <1>10 DEF MoneyInv

(* Every step keeps the invariant.                                         *)
LEMMA MoneyStep == MoneyInv /\ IdInv /\ StandingInv /\ [Next]_vars => MoneyInv'
<1> SUFFICES ASSUME MoneyInv, IdInv, StandingInv, [Next]_vars PROVE MoneyInv'  OBVIOUS
<1>1. ASSUME UNCHANGED <<committed, balance, at, written>> PROVE MoneyInv'
  <2>1. \A q \in Requests : OwnMoney(q)  BY DEF MoneyInv
  <2>2. \A q \in Requests : OwnMoney(q)'  BY <1>1, <2>1, MoneyUntouched
  <2>3. \A a \in Accounts : Posted(a)' = Posted(a)  BY <1>1 DEF Posted
  <2>4. ProjectionMatchesLedger'  BY <1>1, <2>3 DEF MoneyInv, ProjectionMatchesLedger
  <2> QED  BY <1>1, <2>2, <2>4 DEF MoneyInv
<1>2. ASSUME NEW r \in Requests, BeginCharge(r) \/ BeginTopup(r) \/ Resolve(r) PROVE MoneyInv'
  <2>1. /\ UNCHANGED <<committed, balance>>
        /\ (\E how : End(r, how)) \/ UNCHANGED <<at, written>>
    BY <1>2 DEF BeginCharge, BeginTopup, Resolve
  <2> QED  BY <2>1, MoneyStays
<1>3. ASSUME NEW r \in Requests, Abort(r) PROVE MoneyInv'
  <2>1. UNCHANGED <<committed, balance>> /\ \E how : End(r, how)
    BY <1>3 DEF Abort, unstepped
  <2> QED  BY <2>1, MoneyStays
<1>4. ASSUME NEW r \in Requests, TakeLock(r) \/ ReadMerchants(r) \/ Lookup(r) \/ Insert(r)
      PROVE  MoneyInv'
  <2>1. /\ UNCHANGED <<committed, balance>>
        /\ \/ \E how : End(r, how)
           \/ Go(r) /\ CanStep(r) /\ NextStep(r).kind # "balance" /\ UNCHANGED written
    BY <1>4 DEF TakeLock, ReadMerchants, Lookup, Insert, Ready, unstepped
  <2> QED  BY <2>1, MoneyStays
<1>5. CASE \/ \E m \in Switchable : SwitchMerchant(m)
           \/ \E k \in Revocable : StartRevoke(k) \/ WriteRevoke(k)
           \/ AdvanceClock \/ UNCHANGED vars
  BY <1>1, <1>5 DEF SwitchMerchant, StartRevoke, WriteRevoke, AdvanceClock, requestVars, vars
<1> QED  BY <1>2, <1>3, <1>4, <1>5, MoneyMoves, MoneyCommits DEF Next, Progress, BreakDeadlock

(* For every set of requests and accounts, the balance a client sees is    *)
(* what the posted entries of its account add up to: every step of every   *)
(* createCharge and accountTopups, in whatever order they interleave.      *)
THEOREM ProjectionAlwaysMatches == Spec => []ProjectionMatchesLedger
<1>1. Init => MoneyInv
  <2> SUFFICES ASSUME Init PROVE MoneyInv  OBVIOUS
  <2>1. /\ at = [r \in Requests |-> 0] /\ written = [r \in Requests |-> NothingWritten]
        /\ committed = {} /\ balance = [a \in Accounts |-> 0]
    BY DEF Init
  <2>2. ASSUME NEW r \in Requests PROVE OwnMoney(r)
    <3>1. DOMAIN written[r] = {} /\ Updates(r) = 0  BY <2>1 DEF NothingWritten, Updates
    <3>2. 1 .. 0 = {}  OBVIOUS
    <3> QED  BY <3>1, <3>2 DEF OwnMoney
  <2>3. \A a \in Accounts : Posted(a) = 0  BY <2>1, SumOfNone DEF Posted
  <2>4. ProjectionMatchesLedger  BY <2>1, <2>3 DEF ProjectionMatchesLedger
  <2>5. IsFiniteSet(committed)  BY <2>1, FS_EmptySet
  <2> QED  BY <2>1, <2>2, <2>4, <2>5 DEF MoneyInv
<1>2. MoneyInv => ProjectionMatchesLedger  BY DEF MoneyInv
<1> QED  BY <1>1, <1>2, IdInit, StandingInit, IdStep, StandingStep, MoneyStep, PTL DEF Spec
=============================================================================
