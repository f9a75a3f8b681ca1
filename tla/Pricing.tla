------------------------------ MODULE Pricing ------------------------------
(***************************************************************************)
(* What an AI call costs its caller and earns its provider key: the choice *)
(* of the cheapest keys (resolveCall, cheapestTargets, comparePrices) and  *)
(* the rating of the usage that comes back (ratedUsage, rate, ceilMulDiv)  *)
(* in integers of a fixed width.                                           *)
(*                                                                         *)
(* A price list maps a metric to its row; metrics are numbered in the      *)
(* order of their names: 1 is input_tokens, 2 is output_tokens.            *)
(***************************************************************************)
EXTENDS Integers, FiniteSets, SequencesExt

CONSTANTS
  Word,        \* 2^64: the number of values of a uint64
  Keys,        \* provider keys that are enabled and active
  PriceLists,  \* the price lists of the run
  Usages       \* the usages of the run: a number of tokens for each metric

MaxInt  == Word \div 2 - 1       \* math.MaxInt64
Metrics == {1, 2}
InOrder == [S \in SUBSET Metrics |-> CHOOSE s \in [1 .. Cardinality(S) -> S] :
                                       \A i, j \in DOMAIN s : i < j => s[i] < s[j]]
Rows    == [unit : 1 .. MaxInt, amount : 0 .. MaxInt]

ASSUME WordAssumption == Word \in Nat /\ Word % 2 = 0 /\ Word >= 4
ASSUME InputsAssumption ==
  /\ \A p \in PriceLists : DOMAIN p \subseteq Metrics /\ \A m \in DOMAIN p : p[m] \in Rows
  /\ Usages \subseteq [Metrics -> 0 .. MaxInt]
  /\ IsFiniteSet(Keys)

VARIABLES
  pc,          \* "resolve", "call", "rate", and how the call ended
  usage,       \* the tokens the provider will report
  customer,    \* model_customer_prices
  prices,      \* provider_key_prices, per key
  targets,     \* the keys offered to Bifrost
  key,         \* the key Bifrost selected
  gross, commission

vars == <<pc, usage, customer, prices, targets, key, gross, commission>>

-----------------------------------------------------------------------------
(* Rating.                                                                 *)

\* Bug: the quotient is not rounded up.
FloorMulDiv(left, right, divisor) ==
  LET q == (left * right) \div divisor IN IF q > MaxInt THEN MaxInt ELSE q

\* ceilMulDiv: a double-word product, one word of quotient, and a carry that wraps.
CeilMulDiv(left, right, divisor) ==
  LET product  == left * right
      quotient == product \div divisor
      rounded  == IF product % divisor = 0 THEN quotient ELSE (quotient + 1) % Word IN
  IF product \div Word >= divisor \/ rounded > MaxInt THEN MaxInt ELSE rounded

Component(units, row) ==
  IF units > 0 /\ row.amount > 0 THEN CeilMulDiv(units, row.amount, row.unit) ELSE 0

\* rate: the sum over the rows; what exceeds MaxInt64 stays there.
Rate(use, list) ==
  FoldLeft(LAMBDA total, m :
             LET c == Component(use[m], list[m]) IN
             IF c > MaxInt - total THEN MaxInt ELSE total + c,
           0, InOrder[DOMAIN list])

-----------------------------------------------------------------------------
(* The choice of the keys.                                                 *)

\* Bug: prices per unit are compared without their units.
CompareAmounts(l, r) == l.amount - r.amount

\* Sign of l.amount/l.unit - r.amount/r.unit, as rationals.
CompareRows(l, r) == l.amount * r.unit - r.amount * l.unit

\* Bug: only the metrics that both lists price are compared.
ComparePricesCommon(left, right) ==
  LET different == {m \in DOMAIN left \cap DOMAIN right : CompareRows(left[m], right[m]) # 0} IN
  IF different = {} THEN 0
  ELSE LET m == CHOOSE m \in different : \A j \in different : m <= j IN
       CompareRows(left[m], right[m])

\* comparePrices: the first metric, then the first price that differ, then the length.
ComparePrices(left, right) ==
  LET l == InOrder[DOMAIN left]
      r == InOrder[DOMAIN right]
      Differ(i) == l[i] # r[i] \/ CompareRows(left[l[i]], right[r[i]]) # 0
      different == {i \in DOMAIN l \cap DOMAIN r : Differ(i)} IN
  IF different = {} THEN Len(l) - Len(r)
  ELSE LET i == CHOOSE i \in different : \A j \in different : i <= j IN
       IF l[i] # r[i] THEN l[i] - r[i] ELSE CompareRows(left[l[i]], right[r[i]])

\* pricesCoverMetrics.
Covers(provider, list) == DOMAIN list # {} /\ DOMAIN list \subseteq DOMAIN provider

Candidates == {k \in Keys : Covers(prices[k], customer)}

\* cheapestTargets: the head of the sorted candidates and all that compare equal to it.
CheapestTargets(ks) ==
  {k \in ks : \A l \in ks : ComparePrices(prices[k], prices[l]) <= 0}

-----------------------------------------------------------------------------
Init ==
  /\ pc = "resolve"
  /\ usage \in Usages /\ customer \in PriceLists /\ prices \in [Keys -> PriceLists]
  /\ targets = {} /\ key = CHOOSE k \in Keys : TRUE
  /\ gross = 0 /\ commission = 0

(* resolveCall: without a candidate the model does not exist.              *)
Resolve ==
  /\ pc = "resolve"
  /\ targets' = CheapestTargets(Candidates)
  /\ pc' = IF Candidates = {} THEN "unavailable" ELSE "call"
  /\ UNCHANGED <<usage, customer, prices, key, gross, commission>>

(* Bifrost balances the load among the keys it is given.                   *)
Select ==
  /\ pc = "call"
  /\ key' \in targets
  /\ pc' = "rate"
  /\ UNCHANGED <<usage, customer, prices, targets, gross, commission>>

(* ratedUsage, with the customer's prices and those of the selected key.   *)
RateUsage ==
  /\ pc = "rate"
  /\ gross' = Rate(usage, customer)
  /\ commission' = Rate(usage, prices[key])
  /\ pc' = "rated"
  /\ UNCHANGED <<usage, customer, prices, targets, key>>

Next == Resolve \/ Select \/ RateUsage

Spec == Init /\ [][Next]_vars

-----------------------------------------------------------------------------
(* Properties.                                                             *)

\* The least number n with n * d >= p.
Ceil(p, d) == CHOOSE n \in p \div d .. p \div d + 1 : n * d >= p /\ (n - 1) * d < p

\* What a usage costs at a price list, in unbounded integers.
Exact(use, list) ==
  FoldLeft(LAMBDA total, m : total + Ceil(use[m] * list[m].amount, list[m].unit),
           0, InOrder[DOMAIN list])

\* A product whose rounded-up quotient is exactly 2^64.
Wraps(use, list) ==
  \E m \in DOMAIN list : Ceil(use[m] * list[m].amount, list[m].unit) = Word

Saturated(n) == IF n > MaxInt THEN MaxInt ELSE n

(* Unless a quotient rounds up to exactly 2^64, the gross and the          *)
(* commission are the sums of the exact prices, each rounded up, and no    *)
(* width of the operands makes them wrap: they stay at MaxInt64.           *)
RateIsExact ==
  pc = "rated" =>
    /\ ~Wraps(usage, customer) => gross = Saturated(Exact(usage, customer))
    /\ ~Wraps(usage, prices[key]) => commission = Saturated(Exact(usage, prices[key]))

(* "Unrepresentable results saturate at MaxInt64", whatever the operands.  *)
UnrepresentableSaturates ==
  pc = "rated" => gross = Saturated(Exact(usage, customer))

(* The order on price vectors has a least element among any candidates, so *)
(* that sorting by it is meaningful and a key is always found.             *)
SomeKeyIsOffered == pc # "resolve" /\ Candidates # {} => targets # {}

(* Where the keys price one metric, Bifrost selects a key that earns no    *)
(* more than any other candidate would have, whatever the units in which   *)
(* the keys quote.                                                         *)
NoCheaperKey ==
  pc = "rated" /\ ~Wraps(usage, prices[key]) =>
    \A k \in Candidates :
      /\ DOMAIN prices[k] = DOMAIN prices[key] /\ \E m \in Metrics : DOMAIN prices[k] = {m}
      /\ ~Wraps(usage, prices[k])
      => commission <= Rate(usage, prices[k])

=============================================================================
