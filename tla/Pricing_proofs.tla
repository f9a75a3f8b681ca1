--------------------------- MODULE Pricing_proofs ---------------------------
(***************************************************************************)
(* ceilMulDiv and the rate of a usage for words of every width, and the    *)
(* choice of the cheapest keys for every set of keys and price lists.      *)
(***************************************************************************)
EXTENDS Pricing, FiniteSetTheorems, WellFoundedInduction, TLAPS

(* What a quotient and a remainder are.                                    *)
LEMMA Division ==
  ASSUME NEW p \in Nat, NEW d \in Nat \ {0}
  PROVE  /\ p \div d \in Nat /\ p % d \in 0 .. d - 1
         /\ p = d * (p \div d) + (p % d)
OBVIOUS

(* Products of naturals are monotone.                                      *)
LEMMA Monotone ==
  ASSUME NEW a \in Nat, NEW b \in Nat, NEW c \in Nat, a <= b
  PROVE  c * a <= c * b
OBVIOUS

(* The reference Ceil is the quotient, plus one if there is a remainder.   *)
LEMMA CeilValue ==
  ASSUME NEW p \in Nat, NEW d \in Nat \ {0}
  PROVE  Ceil(p, d) = IF p % d = 0 THEN p \div d ELSE p \div d + 1
<1> DEFINE q == p \div d
           r == p % d
<1>1. q \in Nat /\ r \in 0 .. d - 1 /\ p = d * q + r  BY Division
<1>2. /\ (q + 1) * d = d * q + d /\ (q - 1) * d = d * q - d /\ q * d = d * q
      /\ (q + 1 - 1) * d = d * q
  BY <1>1
<1> HIDE DEF q, r
<1>3. CASE r = 0
  <2>1. \A n \in q .. q + 1 : (n * d >= p /\ (n - 1) * d < p) <=> n = q
    <3>1. \A n \in q .. q + 1 : n = q \/ n = q + 1  BY <1>1
    <3> QED  BY <1>1, <1>2, <1>3, <3>1
  <2> QED  BY <1>1, <1>3, <2>1 DEF Ceil, q, r
<1>4. CASE r # 0
  <2>1. \A n \in q .. q + 1 : (n * d >= p /\ (n - 1) * d < p) <=> n = q + 1
    <3>1. \A n \in q .. q + 1 : n = q \/ n = q + 1  BY <1>1
    <3> QED  BY <1>1, <1>2, <1>4, <3>1
  <2> QED  BY <1>1, <1>4, <2>1 DEF Ceil, q, r
<1> QED  BY <1>3, <1>4

(* ceilMulDiv returns the exact price rounded up, or MaxInt64 if that does *)
(* not fit, unless it rounds up to exactly 2^64: the one quotient whose    *)
(* carry is lost.                                                          *)
THEOREM CeilMulDivExact ==
  ASSUME NEW left \in Nat, NEW right \in Nat, NEW divisor \in Nat \ {0},
         Ceil(left * right, divisor) # Word
  PROVE  CeilMulDiv(left, right, divisor) = Saturated(Ceil(left * right, divisor))
<1> DEFINE p == left * right
           q == p \div divisor
           hi == p \div Word
<1>1. Word \in Nat \ {0} /\ MaxInt \in Nat /\ MaxInt < Word
  BY WordAssumption DEF MaxInt
<1>2. p \in Nat  OBVIOUS
<1>3. /\ q \in Nat /\ p % divisor \in 0 .. divisor - 1
      /\ p = divisor * q + (p % divisor)
  BY <1>2, Division
<1>4. hi \in Nat /\ p % Word \in 0 .. Word - 1 /\ p = Word * hi + (p % Word)
  BY <1>1, <1>2, Division
<1>5. Ceil(p, divisor) = IF p % divisor = 0 THEN q ELSE q + 1
  BY <1>2, CeilValue
<1> HIDE DEF p, q, hi
<1>6. CASE hi >= divisor
  <2>1. p >= Word * divisor  BY <1>1, <1>4, <1>6, Monotone
  <2>2. q >= Word
    <3>1. SUFFICES ASSUME q <= Word - 1 PROVE FALSE  BY <1>1, <1>3
    <3>2. divisor * q <= divisor * (Word - 1)  BY <1>1, <1>3, <3>1, Monotone
    <3>3. divisor * (Word - 1) = Word * divisor - divisor  BY <1>1
    <3> QED  BY <1>1, <1>3, <2>1, <3>2, <3>3
  <2>3. Ceil(p, divisor) \in Nat /\ Ceil(p, divisor) > MaxInt  BY <1>1, <1>3, <1>5, <2>2
  <2> QED  BY <1>6, <2>3 DEF CeilMulDiv, Saturated, p, hi
<1>7. CASE hi < divisor
  <2>1. p < Word * divisor
    <3>1. Word * hi <= Word * (divisor - 1)  BY <1>1, <1>4, <1>7, Monotone
    <3>2. Word * (divisor - 1) = Word * divisor - Word  BY <1>1
    <3> QED  BY <1>1, <1>4, <3>1, <3>2
  <2>2. q < Word
    <3>1. SUFFICES ASSUME Word <= q PROVE FALSE  BY <1>1, <1>3
    <3>2. divisor * Word <= divisor * q  BY <1>1, <1>3, <3>1, Monotone
    <3> QED  BY <1>1, <1>3, <2>1, <3>2
  <2>3. p % divisor # 0 => q + 1 < Word /\ (q + 1) % Word = q + 1
    <3>1. p % divisor # 0 => q + 1 # Word  BY <1>5 DEF p
    <3> QED  BY <1>1, <1>3, <2>2, <3>1
  <2>4. ~(hi >= divisor)  BY <1>4, <1>7
  <2> QED  BY <1>5, <2>3, <2>4 DEF CeilMulDiv, Saturated, p, q, hi
<1> QED  BY <1>4, <1>6, <1>7
-----------------------------------------------------------------------------
(* Price lists, metric by metric.                                          *)

(* The metrics of a price list in the order of their names.                *)
LEMMA InOrderIs ==
  /\ DOMAIN InOrder[{}] = {} /\ Len(InOrder[{}]) = 0
  /\ \A m \in Metrics : /\ DOMAIN InOrder[{m}] = {1} /\ Len(InOrder[{m}]) = 1
                        /\ InOrder[{m}][1] = m
  /\ DOMAIN InOrder[{1, 2}] = {1, 2} /\ Len(InOrder[{1, 2}]) = 2
  /\ InOrder[{1, 2}][1] = 1 /\ InOrder[{1, 2}][2] = 2
<1> DEFINE Sorted(s) == \A i, j \in DOMAIN s : i < j => s[i] < s[j]
<1>1. \A S \in SUBSET Metrics : \A s :
        s \in [1 .. Cardinality(S) -> S] /\ Sorted(s) =>
          InOrder[S] \in [1 .. Cardinality(S) -> S] /\ Sorted(InOrder[S])
  BY DEF InOrder
<1>2. DOMAIN InOrder[{}] = {} /\ Len(InOrder[{}]) = 0
  <2> DEFINE s == [i \in 1 .. 0 |-> i]
  <2>1. Cardinality({}) = 0 /\ {} \in SUBSET Metrics  BY FS_EmptySet
  <2>2. s \in [1 .. 0 -> {}] /\ Sorted(s)  OBVIOUS
  <2>3. InOrder[{}] \in [1 .. 0 -> {}]  BY <1>1, <2>1, <2>2
  <2> QED  BY <2>3
<1>3. ASSUME NEW m \in Metrics
      PROVE  DOMAIN InOrder[{m}] = {1} /\ Len(InOrder[{m}]) = 1 /\ InOrder[{m}][1] = m
  <2> DEFINE s == [i \in 1 .. 1 |-> m]
  <2>1. Cardinality({m}) = 1 /\ {m} \in SUBSET Metrics  BY FS_Singleton
  <2>2. s \in [1 .. 1 -> {m}] /\ Sorted(s)  OBVIOUS
  <2>3. InOrder[{m}] \in [1 .. 1 -> {m}]  BY <1>1, <2>1, <2>2
  <2> QED  BY <2>3
<1>4. /\ DOMAIN InOrder[{1, 2}] = {1, 2} /\ Len(InOrder[{1, 2}]) = 2
      /\ InOrder[{1, 2}][1] = 1 /\ InOrder[{1, 2}][2] = 2
  <2> DEFINE s == [i \in 1 .. 2 |-> i]
             S == {1, 2}
  <2>1. Cardinality(S) = 2
    <3>1. IsFiniteSet({1}) /\ Cardinality({1}) = 1  BY FS_Singleton
    <3>2. {1} \cup {2} = {1, 2} /\ 2 \notin {1}  OBVIOUS
    <3>3. Cardinality({1} \cup {2}) = Cardinality({1}) + 1  BY <3>1, <3>2, FS_AddElement
    <3> QED  BY <3>1, <3>2, <3>3
  <2>2. s \in [1 .. 2 -> S] /\ Sorted(s) /\ S \in SUBSET Metrics  BY DEF Metrics
  <2>3. InOrder[S] \in [1 .. 2 -> S] /\ Sorted(InOrder[S])
    <3> HIDE DEF s, Sorted
    <3> QED  BY <1>1, <2>1, <2>2
  <2>4. InOrder[S][1] < InOrder[S][2] /\ InOrder[S][1] \in {1, 2} /\ InOrder[S][2] \in {1, 2}
    BY <2>3
  <2> QED  BY <2>3, <2>4
<1> QED  BY <1>2, <1>3, <1>4

(* The subsets of the places, and how Max takes them apart.                *)
LEMMA TakenApart ==
  ASSUME NEW T, T = {} \/ T = {1} \/ T = {1, 2}, NEW s \in SUBSET T
  PROVE  \/ s = {}
         \/ s = {1} /\ Max(s) = 1 /\ s \ {Max(s)} = {}
         \/ s = {2} /\ Max(s) = 2 /\ s \ {Max(s)} = {}
         \/ s = {1, 2} /\ Max(s) = 2 /\ s \ {Max(s)} = {1}
<1>1. s = {} \/ s = {1} \/ s = {2} \/ s = {1, 2}  OBVIOUS
<1>2. Max({1}) = 1 /\ Max({2}) = 2  BY DEF Max
<1>3. Max({1, 2}) = 2  BY DEF Max
<1> QED  BY <1>1, <1>2, <1>3

\* rate's sum: what exceeds MaxInt64 stays there.
Plus(total, c) == IF c > MaxInt - total THEN MaxInt ELSE total + c

\* The metric at a place of a list, its rounded component and its exact price.
At(list, i)         == InOrder[DOMAIN list][i]
Rounded(use, list, i) == Component(use[At(list, i)], list[At(list, i)])
Price(use, list, i) ==
  Ceil(use[At(list, i)] * list[At(list, i)].amount, list[At(list, i)].unit)

\* g is what the folds of Rate, and of Exact, compute place by place.
RatesUp(g, use, list) ==
  g = [s \in SUBSET DOMAIN InOrder[DOMAIN list] |->
         IF s = {} THEN 0
         ELSE LET x == Max(s) IN
              LET c == Component(use[InOrder[DOMAIN list][x]], list[InOrder[DOMAIN list][x]]) IN
              IF c > MaxInt - g[s \ {x}] THEN MaxInt ELSE g[s \ {x}] + c]
PricesUp(g, use, list) ==
  g = [s \in SUBSET DOMAIN InOrder[DOMAIN list] |->
         IF s = {} THEN 0
         ELSE LET x == Max(s) IN
              g[s \ {x}] + Ceil(use[InOrder[DOMAIN list][x]] * list[InOrder[DOMAIN list][x]].amount,
                                list[InOrder[DOMAIN list][x]].unit)]

(* rate, place by place.                                                   *)
LEMMA RateIs ==
  ASSUME NEW use, NEW list, NEW T, T = DOMAIN InOrder[DOMAIN list],
         T = {} \/ T = {1} \/ T = {1, 2}
  PROVE  /\ T = {} => Rate(use, list) = 0
         /\ T = {1} => Rate(use, list) = Plus(0, Rounded(use, list, 1))
         /\ T = {1, 2} => Rate(use, list)
                            = Plus(Plus(0, Rounded(use, list, 1)), Rounded(use, list, 2))
<1> DEFINE c(i) == Rounded(use, list, i)
           h == [s \in SUBSET T |-> IF s = {} THEN 0
                                    ELSE IF s = {1} THEN Plus(0, c(1))
                                    ELSE IF s = {2} THEN Plus(0, c(2))
                                    ELSE Plus(Plus(0, c(1)), c(2))]
           Is(g) == g = [s \in SUBSET T |-> IF s = {} THEN 0
                                            ELSE Plus(g[s \ {Max(s)}], c(Max(s)))]
<1>1. \A g : RatesUp(g, use, list) <=> Is(g)  BY DEF RatesUp, Plus, Rounded, At
<1>2. Rate(use, list) = (CHOOSE g : RatesUp(g, use, list))[T]
  BY DEF Rate, FoldLeft, MapThenFoldSet, RatesUp
<1> HIDE DEF c
<1>3. Is(h)
  <2>1. \A s \in SUBSET T : \/ s = {}
                            \/ s = {1} /\ Max(s) = 1 /\ s \ {Max(s)} = {}
                            \/ s = {2} /\ Max(s) = 2 /\ s \ {Max(s)} = {}
                            \/ s = {1, 2} /\ Max(s) = 2 /\ s \ {Max(s)} = {1}
    BY TakenApart
  <2>2. ASSUME NEW s \in SUBSET T
        PROVE  h[s] = IF s = {} THEN 0 ELSE Plus(h[s \ {Max(s)}], c(Max(s)))
    <3>1. CASE s = {}  BY <3>1
    <3>2. CASE s = {1} /\ Max(s) = 1 /\ s \ {Max(s)} = {}  BY <3>2
    <3>3. CASE s = {2} /\ Max(s) = 2 /\ s \ {Max(s)} = {}  BY <3>3
    <3>4. CASE s = {1, 2} /\ Max(s) = 2 /\ s \ {Max(s)} = {1}  BY <3>4
    <3> QED  BY <2>1, <3>1, <3>2, <3>3, <3>4
  <2> QED  BY <2>2
<1> HIDE DEF h
<1>4. PICK g : Is(g) /\ Rate(use, list) = g[T]
  <2> DEFINE g == CHOOSE g : RatesUp(g, use, list)
  <2>1. RatesUp(g, use, list)  BY <1>1, <1>3
  <2> QED  BY <1>1, <1>2, <2>1
<1>5. T = {} => g[T] = 0  BY <1>4
<1>6. 1 \in T => g[{1}] = Plus(0, c(1))
  <2> SUFFICES ASSUME 1 \in T PROVE g[{1}] = Plus(0, c(1))  OBVIOUS
  <2>1. {1} \in SUBSET T /\ {} \in SUBSET T  OBVIOUS
  <2>2. Max({1}) = 1 /\ {1} \ {1} = {}  BY DEF Max
  <2>3. g[{}] = 0  BY <1>4, <2>1
  <2>4. g[{1}] = Plus(g[{1} \ {Max({1})}], c(Max({1})))  BY <1>4, <2>1
  <2> QED  BY <2>2, <2>3, <2>4
<1>7. T = {1, 2} => g[T] = Plus(g[{1}], c(2))
  <2> SUFFICES ASSUME T = {1, 2} PROVE g[T] = Plus(g[{1}], c(2))  OBVIOUS
  <2>1. Max(T) = 2 /\ T \ {2} = {1} /\ T \in SUBSET T /\ T # {}  BY DEF Max
  <2> QED  BY <1>4, <2>1
<1> QED  BY <1>4, <1>5, <1>6, <1>7 DEF c

(* The exact price, place by place.                                        *)
LEMMA ExactIs ==
  ASSUME NEW use, NEW list, NEW T, T = DOMAIN InOrder[DOMAIN list],
         T = {} \/ T = {1} \/ T = {1, 2}
  PROVE  /\ T = {} => Exact(use, list) = 0
         /\ T = {1} => Exact(use, list) = 0 + Price(use, list, 1)
         /\ T = {1, 2} => Exact(use, list)
                            = (0 + Price(use, list, 1)) + Price(use, list, 2)
<1> DEFINE c(i) == Price(use, list, i)
           h == [s \in SUBSET T |-> IF s = {} THEN 0
                                    ELSE IF s = {1} THEN 0 + c(1)
                                    ELSE IF s = {2} THEN 0 + c(2)
                                    ELSE (0 + c(1)) + c(2)]
           Is(g) == g = [s \in SUBSET T |-> IF s = {} THEN 0
                                            ELSE g[s \ {Max(s)}] + c(Max(s))]
<1>1. \A g : PricesUp(g, use, list) <=> Is(g)  BY DEF PricesUp, Price, At
<1>2. Exact(use, list) = (CHOOSE g : PricesUp(g, use, list))[T]
  BY DEF Exact, FoldLeft, MapThenFoldSet, PricesUp
<1> HIDE DEF c
<1>3. Is(h)
  <2>1. \A s \in SUBSET T : \/ s = {}
                            \/ s = {1} /\ Max(s) = 1 /\ s \ {Max(s)} = {}
                            \/ s = {2} /\ Max(s) = 2 /\ s \ {Max(s)} = {}
                            \/ s = {1, 2} /\ Max(s) = 2 /\ s \ {Max(s)} = {1}
    BY TakenApart
  <2>2. ASSUME NEW s \in SUBSET T
        PROVE  h[s] = IF s = {} THEN 0 ELSE h[s \ {Max(s)}] + c(Max(s))
    <3>1. CASE s = {}  BY <3>1
    <3>2. CASE s = {1} /\ Max(s) = 1 /\ s \ {Max(s)} = {}  BY <3>2
    <3>3. CASE s = {2} /\ Max(s) = 2 /\ s \ {Max(s)} = {}  BY <3>3
    <3>4. CASE s = {1, 2} /\ Max(s) = 2 /\ s \ {Max(s)} = {1}  BY <3>4
    <3> QED  BY <2>1, <3>1, <3>2, <3>3, <3>4
  <2> QED  BY <2>2
<1> HIDE DEF h
<1>4. PICK g : Is(g) /\ Exact(use, list) = g[T]
  <2> DEFINE g == CHOOSE g : PricesUp(g, use, list)
  <2>1. PricesUp(g, use, list)  BY <1>1, <1>3
  <2> QED  BY <1>1, <1>2, <2>1
<1>5. T = {} => g[T] = 0  BY <1>4
<1>6. 1 \in T => g[{1}] = 0 + c(1)
  <2> SUFFICES ASSUME 1 \in T PROVE g[{1}] = 0 + c(1)  OBVIOUS
  <2>1. {1} \in SUBSET T /\ {} \in SUBSET T  OBVIOUS
  <2>2. Max({1}) = 1 /\ {1} \ {1} = {}  BY DEF Max
  <2>3. g[{}] = 0  BY <1>4, <2>1
  <2>4. g[{1}] = g[{1} \ {Max({1})}] + c(Max({1}))  BY <1>4, <2>1
  <2> QED  BY <2>2, <2>3, <2>4
<1>7. T = {1, 2} => g[T] = g[{1}] + c(2)
  <2> SUFFICES ASSUME T = {1, 2} PROVE g[T] = g[{1}] + c(2)  OBVIOUS
  <2>1. Max(T) = 2 /\ T \ {2} = {1} /\ T \in SUBSET T /\ T # {}  BY DEF Max
  <2> QED  BY <1>4, <2>1
<1> QED  BY <1>4, <1>5, <1>6, <1>7 DEF c

(* A price list has at most two places, each with a metric of its own.     *)
LEMMA Places ==
  ASSUME NEW list \in PriceLists
  PROVE  LET l == InOrder[DOMAIN list] IN
         /\ DOMAIN list = {} \/ (\E m \in Metrics : DOMAIN list = {m}) \/ DOMAIN list = {1, 2}
         /\ DOMAIN l = {} \/ DOMAIN l = {1} \/ DOMAIN l = {1, 2}
         /\ \A i \in DOMAIN l : l[i] \in DOMAIN list
         /\ \A m \in DOMAIN list : m \in Metrics /\ list[m] \in Rows
         /\ Len(l) = (IF DOMAIN list = {} THEN 0 ELSE IF DOMAIN list = {1, 2} THEN 2 ELSE 1)
         /\ DOMAIN list = {} => DOMAIN l = {}
         /\ \A m \in Metrics : DOMAIN list = {m} => DOMAIN l = {1} /\ l[1] = m
         /\ DOMAIN list = {1, 2} => DOMAIN l = {1, 2} /\ l[1] = 1 /\ l[2] = 2
<1>1. DOMAIN list \in SUBSET {1, 2} /\ \A m \in DOMAIN list : m \in Metrics /\ list[m] \in Rows
  BY InputsAssumption DEF Metrics
<1>2. DOMAIN list = {} \/ (\E m \in Metrics : DOMAIN list = {m}) \/ DOMAIN list = {1, 2}
  BY <1>1 DEF Metrics
<1>3. \A m \in Metrics : {m} # {} /\ {m} # {1, 2}  BY DEF Metrics
<1>4. CASE DOMAIN list = {}  BY <1>1, <1>3, <1>4, InOrderIs
<1>5. CASE \E m \in Metrics : DOMAIN list = {m}
  <2>1. PICK m \in Metrics : DOMAIN list = {m}  BY <1>5
  <2>2. DOMAIN InOrder[{m}] = {1} /\ Len(InOrder[{m}]) = 1 /\ InOrder[{m}][1] = m
    BY InOrderIs
  <2> QED  BY <1>1, <1>3, <2>1, <2>2
<1>6. CASE DOMAIN list = {1, 2}
  <2>1. \A m \in Metrics : {1, 2} # {m}  BY <1>3
  <2> QED  BY <1>1, <1>6, <2>1, InOrderIs
<1> QED  BY <1>2, <1>4, <1>5, <1>6

(* One component: ceilMulDiv of 64-bit tokens and rows.                    *)
LEMMA ComponentIs ==
  ASSUME NEW u \in 0 .. MaxInt, NEW row \in Rows
  PROVE  /\ Ceil(u * row.amount, row.unit) \in Nat
         /\ Ceil(u * row.amount, row.unit) # Word =>
              Component(u, row) = Saturated(Ceil(u * row.amount, row.unit))
<1> DEFINE a == row.amount
           d == row.unit
           p == u * a
<1>1. MaxInt \in Nat  BY WordAssumption DEF MaxInt
<1>2. u \in Nat /\ a \in Nat /\ d \in Nat \ {0}  BY <1>1 DEF Rows
<1> HIDE DEF a, d
<1>3. p \in Nat  BY <1>2
<1>4. Ceil(p, d) = IF p % d = 0 THEN p \div d ELSE p \div d + 1  BY <1>2, <1>3, CeilValue
<1>5. p \div d \in Nat  BY <1>2, <1>3, Division
<1>6. Ceil(p, d) \in Nat  BY <1>4, <1>5
<1>7. ASSUME Ceil(p, d) # Word PROVE Component(u, row) = Saturated(Ceil(p, d))
  <2>1. CASE u > 0 /\ a > 0
    <3>1. CeilMulDiv(u, a, d) = Saturated(Ceil(u * a, d))  BY <1>2, <1>7, CeilMulDivExact
    <3> QED  BY <2>1, <3>1 DEF Component, a, d
  <2>2. CASE ~(u > 0 /\ a > 0)
    <3>1. p = 0  BY <1>2, <2>2
    <3> HIDE DEF p
    <3>2. p % d = 0 /\ p \div d = 0  BY <1>2, <3>1
    <3>3. Saturated(Ceil(p, d)) = 0  BY <1>1, <1>4, <3>2 DEF Saturated
    <3> QED  BY <2>2, <3>3 DEF Component, a
  <2> QED  BY <2>1, <2>2
<1> QED  BY <1>6, <1>7 DEF a, d

(* The rate of a usage is its exact price, saturated: adding saturated     *)
(* components in rate's order loses nothing that fits.                     *)
LEMMA RateExact ==
  ASSUME NEW list \in PriceLists, NEW use \in Usages, ~Wraps(use, list)
  PROVE  Rate(use, list) = Saturated(Exact(use, list))
<1> DEFINE T == DOMAIN InOrder[DOMAIN list]
<1>1. T = {} \/ T = {1} \/ T = {1, 2}  BY Places
<1>2. MaxInt \in Nat  BY WordAssumption DEF MaxInt
<1>3. ASSUME NEW i \in T
      PROVE  /\ Price(use, list, i) \in Nat
             /\ Rounded(use, list, i) = Saturated(Price(use, list, i))
  <2> DEFINE m == At(list, i)
  <2>1. m \in DOMAIN list /\ m \in Metrics /\ list[m] \in Rows  BY Places DEF At
  <2>2. use[m] \in 0 .. MaxInt  BY <2>1, InputsAssumption
  <2>3. Ceil(use[m] * list[m].amount, list[m].unit) # Word  BY <2>1 DEF Wraps
  <2> HIDE DEF m
  <2>4. /\ Ceil(use[m] * list[m].amount, list[m].unit) \in Nat
        /\ Component(use[m], list[m]) = Saturated(Ceil(use[m] * list[m].amount, list[m].unit))
    BY <2>1, <2>2, <2>3, ComponentIs
  <2> QED  BY <2>4 DEF Price, Rounded, m
<1> HIDE DEF T
<1>4. CASE T = {}
  <2>1. Rate(use, list) = 0 /\ Exact(use, list) = 0  BY <1>4, RateIs, ExactIs DEF T
  <2> QED  BY <1>2, <2>1 DEF Saturated
<1>5. CASE T = {1}
  <2>1. /\ Rate(use, list) = Plus(0, Rounded(use, list, 1))
        /\ Exact(use, list) = 0 + Price(use, list, 1)
    BY <1>5, RateIs, ExactIs DEF T
  <2>2. /\ Price(use, list, 1) \in Nat
        /\ Rounded(use, list, 1) = Saturated(Price(use, list, 1))
    BY <1>3, <1>5
  <2> QED  BY <1>2, <2>1, <2>2 DEF Saturated, Plus
<1>6. CASE T = {1, 2}
  <2>1. /\ Rate(use, list) = Plus(Plus(0, Rounded(use, list, 1)), Rounded(use, list, 2))
        /\ Exact(use, list) = (0 + Price(use, list, 1)) + Price(use, list, 2)
    BY <1>6, RateIs, ExactIs DEF T
  <2>2. /\ Price(use, list, 1) \in Nat /\ Price(use, list, 2) \in Nat
        /\ Rounded(use, list, 1) = Saturated(Price(use, list, 1))
        /\ Rounded(use, list, 2) = Saturated(Price(use, list, 2))
    BY <1>3, <1>6
  <2> QED  BY <1>2, <2>1, <2>2 DEF Saturated, Plus
<1> QED  BY <1>1, <1>4, <1>5, <1>6
-----------------------------------------------------------------------------
(* The order on price lists.                                               *)

(* Rows are compared by their price per unit: a total preorder.            *)
LEMMA RowsAreOrdered ==
  /\ \A l, r \in Rows : CompareRows(l, r) \in Int /\ CompareRows(l, r) = -CompareRows(r, l)
  /\ \A x, y, z \in Rows :
       CompareRows(x, y) <= 0 /\ CompareRows(y, z) <= 0 =>
         /\ CompareRows(x, z) <= 0
         /\ CompareRows(x, y) < 0 \/ CompareRows(y, z) < 0 => CompareRows(x, z) < 0
<1>0. MaxInt \in Nat  BY WordAssumption DEF MaxInt
<1>1. \A l \in Rows : l.amount \in Nat /\ l.unit \in Nat /\ l.unit > 0
  BY <1>0 DEF Rows
<1>2. ASSUME NEW l \in Rows, NEW r \in Rows
      PROVE  CompareRows(l, r) \in Int /\ CompareRows(l, r) = -CompareRows(r, l)
  <2>1. /\ l.amount * r.unit \in Int /\ r.amount * l.unit \in Int  BY <1>1
  <2> QED  BY <2>1 DEF CompareRows
<1>3. ASSUME NEW x \in Rows, NEW y \in Rows, NEW z \in Rows,
             CompareRows(x, y) <= 0, CompareRows(y, z) <= 0
      PROVE  /\ CompareRows(x, z) <= 0
             /\ CompareRows(x, y) < 0 \/ CompareRows(y, z) < 0 => CompareRows(x, z) < 0
  <2> DEFINE a == x.amount * y.unit
             b == y.amount * x.unit
             c == y.amount * z.unit
             d == z.amount * y.unit
             e == x.amount * z.unit
             f == z.amount * x.unit
             u == x.unit
             v == y.unit
             w == z.unit
  <2>1. /\ a \in Nat /\ b \in Nat /\ c \in Nat /\ d \in Nat /\ e \in Nat /\ f \in Nat
        /\ u \in Nat \ {0} /\ v \in Nat \ {0} /\ w \in Nat \ {0}
    BY <1>1
  <2>2. a <= b /\ c <= d  BY <1>3, <2>1 DEF CompareRows
  <2>3. /\ a * w = e * v /\ b * w = c * u /\ d * u = f * v
    <3>1. /\ x.amount \in Int /\ y.amount \in Int /\ z.amount \in Int
          /\ x.unit \in Int /\ y.unit \in Int /\ z.unit \in Int
      BY <1>1
    <3> QED  BY <3>1
  <2>4. /\ CompareRows(x, y) = a - b /\ CompareRows(y, z) = c - d
        /\ CompareRows(x, z) = e - f
    BY DEF CompareRows
  <2> HIDE DEF a, b, c, d, e, f, u, v, w
  <2>5. a * w <= b * w /\ c * u <= d * u  BY <2>1, <2>2
  <2>6. a < b => a * w < b * w  BY <2>1
  <2>7. c < d => c * u < d * u  BY <2>1
  <2>8. /\ a * w \in Int /\ b * w \in Int /\ c * u \in Int /\ d * u \in Int
        /\ e * v \in Int /\ f * v \in Int
    BY <2>1
  <2>9. e * v <= f * v /\ (a < b \/ c < d => e * v < f * v)
    BY <2>3, <2>5, <2>6, <2>7, <2>8
  <2>10. e <= f
    <3> SUFFICES ASSUME f + 1 <= e PROVE FALSE  BY <2>1
    <3>1. v * (f + 1) <= v * e  BY <2>1, Monotone
    <3>2. v * (f + 1) = f * v + v /\ v * e = e * v  BY <2>1
    <3> QED  BY <2>1, <2>8, <2>9, <3>1, <3>2
  <2>11. a < b \/ c < d => e # f  BY <2>1, <2>8, <2>9
  <2> QED  BY <2>1, <2>2, <2>4, <2>10, <2>11
<1> QED  BY <1>2, <1>3

\* What comparePrices says of lists of at most two metrics.
AtMost(p, q) ==
  \/ DOMAIN p = {}
  \/ 1 \in DOMAIN p /\ DOMAIN q = {2}
  \/ /\ 1 \in DOMAIN p /\ 1 \in DOMAIN q
     /\ \/ CompareRows(p[1], q[1]) < 0
        \/ /\ CompareRows(p[1], q[1]) = 0
           /\ 2 \notin DOMAIN p \/ (2 \in DOMAIN q /\ CompareRows(p[2], q[2]) <= 0)
  \/ DOMAIN p = {2} /\ DOMAIN q = {2} /\ CompareRows(p[2], q[2]) <= 0

(* The comparison by place is lexicographic by metric.                     *)
LEMMA ComparedIs ==
  ASSUME NEW p \in PriceLists, NEW q \in PriceLists
  PROVE  ComparePrices(p, q) <= 0 <=> AtMost(p, q)
<1> DEFINE l == InOrder[DOMAIN p]
           r == InOrder[DOMAIN q]
           Differ(i) == l[i] # r[i] \/ CompareRows(p[l[i]], q[r[i]]) # 0
           different == {i \in DOMAIN l \cap DOMAIN r : Differ(i)}
           first == CHOOSE i \in different : \A j \in different : i <= j
<1>1. ComparePrices(p, q) =
        IF different = {} THEN Len(l) - Len(r)
        ELSE IF l[first] # r[first] THEN l[first] - r[first]
             ELSE CompareRows(p[l[first]], q[r[first]])
  BY DEF ComparePrices
<1>2. \A i \in DOMAIN l \cap DOMAIN r : CompareRows(p[l[i]], q[r[i]]) \in Int
  BY Places, RowsAreOrdered
<1>3. \A list \in {p, q} : list \in PriceLists  OBVIOUS
<1>4. /\ DOMAIN p = {} \/ DOMAIN p = {1} \/ DOMAIN p = {2} \/ DOMAIN p = {1, 2}
      /\ DOMAIN q = {} \/ DOMAIN q = {1} \/ DOMAIN q = {2} \/ DOMAIN q = {1, 2}
  BY Places DEF Metrics
<1>5. /\ DOMAIN p = {} => DOMAIN l = {} /\ Len(l) = 0
      /\ DOMAIN p = {1} => DOMAIN l = {1} /\ Len(l) = 1 /\ l[1] = 1
      /\ DOMAIN p = {2} => DOMAIN l = {1} /\ Len(l) = 1 /\ l[1] = 2
      /\ DOMAIN p = {1, 2} => DOMAIN l = {1, 2} /\ Len(l) = 2 /\ l[1] = 1 /\ l[2] = 2
  BY InOrderIs DEF Metrics
<1>6. /\ DOMAIN q = {} => DOMAIN r = {} /\ Len(r) = 0
      /\ DOMAIN q = {1} => DOMAIN r = {1} /\ Len(r) = 1 /\ r[1] = 1
      /\ DOMAIN q = {2} => DOMAIN r = {1} /\ Len(r) = 1 /\ r[1] = 2
      /\ DOMAIN q = {1, 2} => DOMAIN r = {1, 2} /\ Len(r) = 2 /\ r[1] = 1 /\ r[2] = 2
  BY InOrderIs DEF Metrics
<1>7. 1 \in different => first = 1
  <2>1. different \subseteq {1, 2}  BY <1>4, <1>5
  <2> HIDE DEF different
  <2>2. ASSUME 1 \in different PROVE first = 1
    <3>1. 1 \in different /\ \A j \in different : 1 <= j  BY <2>1, <2>2
    <3>2. first \in different /\ \A j \in different : first <= j  BY <3>1, Zenon
    <3> HIDE DEF first
    <3>3. first \in {1, 2}  BY <2>1, <3>2
    <3> QED  BY <3>1, <3>2, <3>3
  <2> QED  BY <2>2
<1>8. 1 \notin different /\ 2 \in different => first = 2
  <2>1. different \subseteq {1, 2}  BY <1>4, <1>5
  <2> HIDE DEF different
  <2>2. ASSUME 1 \notin different, 2 \in different PROVE first = 2
    <3>1. 2 \in different /\ \A j \in different : 2 <= j  BY <2>1, <2>2
    <3>2. first \in different /\ \A j \in different : first <= j  BY <3>1, Zenon
    <3> HIDE DEF first
    <3>3. first \in {1, 2}  BY <2>1, <3>2
    <3> QED  BY <3>1, <3>2, <3>3
  <2> QED  BY <2>2
<1>9. 1 \in different <=> 1 \in DOMAIN l \cap DOMAIN r /\ Differ(1)  OBVIOUS
<1>10. 2 \in different <=> 2 \in DOMAIN l \cap DOMAIN r /\ Differ(2)  OBVIOUS
<1>11. different = {} <=> 1 \notin different /\ 2 \notin different
  <2>1. different \subseteq {1, 2}  BY <1>4, <1>5
  <2> QED  BY <2>1
<1> HIDE DEF l, r, different, first
<1>12. CASE DOMAIN p = {} \/ DOMAIN q = {}
  BY <1>1, <1>4, <1>5, <1>6, <1>9, <1>10, <1>11, <1>12 DEF AtMost
<1>13. CASE DOMAIN p = {2} /\ DOMAIN q # {}
  BY <1>1, <1>2, <1>4, <1>5, <1>6, <1>7, <1>9, <1>10, <1>11, <1>13 DEF AtMost
<1>14. CASE DOMAIN p = {1} /\ DOMAIN q # {}
  <2>1. /\ DOMAIN l = {1} /\ Len(l) = 1 /\ l[1] = 1
        /\ 1 \in DOMAIN l \cap DOMAIN r /\ 2 \notin DOMAIN l \cap DOMAIN r
    BY <1>4, <1>5, <1>6, <1>14
  <2>2. CASE DOMAIN q = {2}
    <3>1. r[1] = 2 /\ 1 \in different /\ first = 1  BY <1>6, <1>7, <1>9, <2>1, <2>2
    <3>2. ComparePrices(p, q) = 1 - 2
      <4>1. different # {}  BY <3>1
      <4> QED  BY <1>1, <2>1, <3>1, <4>1
    <3>3. 1 \in DOMAIN p  BY <1>14
    <3> QED  BY <2>2, <3>2, <3>3 DEF AtMost
  <2>3. CASE 1 \in DOMAIN q
    <3>1. r[1] = 1 /\ Len(r) \in {1, 2} /\ CompareRows(p[1], q[1]) \in Int
      BY <1>2, <1>4, <1>6, <2>1, <2>3
    <3>2. 1 \in DOMAIN p /\ 2 \notin DOMAIN p /\ DOMAIN p # {} /\ DOMAIN p # {2} /\ DOMAIN q # {2}
      BY <1>14, <2>3
    <3>3. CASE CompareRows(p[1], q[1]) = 0
      <4>1. different = {}  BY <1>9, <1>10, <1>11, <2>1, <3>1, <3>3
      <4>2. ComparePrices(p, q) = 1 - Len(r)  BY <1>1, <2>1, <4>1
      <4> QED  BY <2>3, <3>1, <3>2, <3>3, <4>2 DEF AtMost
    <3>4. CASE CompareRows(p[1], q[1]) # 0
      <4>1. 1 \in different  BY <1>9, <2>1, <3>1, <3>4
      <4>2. different # {} /\ first = 1  BY <1>7, <4>1
      <4>3. ComparePrices(p, q) = CompareRows(p[1], q[1])  BY <1>1, <2>1, <3>1, <4>2
      <4> QED  BY <2>3, <3>1, <3>2, <3>4, <4>3 DEF AtMost
    <3> QED  BY <3>3, <3>4
  <2> QED  BY <1>4, <1>14, <2>2, <2>3
<1>15. CASE DOMAIN p = {1, 2} /\ DOMAIN q \in {{1}, {2}}
  <2>1. /\ DOMAIN l = {1, 2} /\ Len(l) = 2 /\ l[1] = 1 /\ DOMAIN r = {1} /\ Len(r) = 1
        /\ 1 \in DOMAIN l \cap DOMAIN r /\ 2 \notin DOMAIN l \cap DOMAIN r
        /\ r[1] = (IF DOMAIN q = {1} THEN 1 ELSE 2)
    BY <1>5, <1>6, <1>15
  <2>2. CASE DOMAIN q = {2}
    <3>1. r[1] = 2 /\ 1 \in different /\ first = 1  BY <1>7, <1>9, <2>1, <2>2
    <3>2. ComparePrices(p, q) = 1 - 2
      <4>1. different # {}  BY <3>1
      <4> QED  BY <1>1, <2>1, <3>1, <4>1
    <3>3. 1 \in DOMAIN p  BY <1>15
    <3> QED  BY <2>2, <3>2, <3>3 DEF AtMost
  <2>3. CASE DOMAIN q = {1}
    <3>1. r[1] = 1 /\ CompareRows(p[1], q[1]) \in Int  BY <1>2, <2>1, <2>3
    <3>2. 1 \in DOMAIN p /\ 2 \in DOMAIN p /\ 1 \in DOMAIN q /\ 2 \notin DOMAIN q
          /\ DOMAIN p # {} /\ DOMAIN p # {2} /\ DOMAIN q # {2}
      BY <1>15, <2>3
    <3>3. CASE CompareRows(p[1], q[1]) = 0
      <4>1. different = {}  BY <1>9, <1>10, <1>11, <2>1, <3>1, <3>3
      <4>2. ComparePrices(p, q) = 2 - 1  BY <1>1, <2>1, <4>1
      <4> QED  BY <3>2, <3>3, <4>2 DEF AtMost
    <3>4. CASE CompareRows(p[1], q[1]) # 0
      <4>1. 1 \in different  BY <1>9, <2>1, <3>1, <3>4
      <4>2. different # {} /\ first = 1  BY <1>7, <4>1
      <4>3. ComparePrices(p, q) = CompareRows(p[1], q[1])  BY <1>1, <2>1, <3>1, <4>2
      <4> QED  BY <3>1, <3>2, <3>4, <4>3 DEF AtMost
    <3> QED  BY <3>3, <3>4
  <2> QED  BY <1>15, <2>2, <2>3
<1>16. CASE DOMAIN p = {1, 2} /\ DOMAIN q = {1, 2}
  <2>1. /\ DOMAIN l = {1, 2} /\ l[1] = 1 /\ l[2] = 2 /\ Len(l) = 2
        /\ DOMAIN r = {1, 2} /\ r[1] = 1 /\ r[2] = 2 /\ Len(r) = 2
        /\ 1 \in DOMAIN l \cap DOMAIN r /\ 2 \in DOMAIN l \cap DOMAIN r
    BY <1>5, <1>6, <1>16
  <2>2. CompareRows(p[1], q[1]) \in Int /\ CompareRows(p[2], q[2]) \in Int  BY <1>2, <2>1
  <2>3. /\ 1 \in DOMAIN p /\ 2 \in DOMAIN p /\ 1 \in DOMAIN q /\ 2 \in DOMAIN q
        /\ DOMAIN p # {} /\ DOMAIN p # {2} /\ DOMAIN q # {2}
    BY <1>16
  <2>4. CASE CompareRows(p[1], q[1]) # 0
    <3>1. 1 \in different  BY <1>9, <2>1, <2>4
    <3>2. different # {} /\ first = 1  BY <1>7, <3>1
    <3>3. ComparePrices(p, q) = CompareRows(p[1], q[1])  BY <1>1, <2>1, <3>2
    <3> QED  BY <2>2, <2>3, <2>4, <3>3 DEF AtMost
  <2>5. CASE CompareRows(p[1], q[1]) = 0 /\ CompareRows(p[2], q[2]) # 0
    <3>1. 1 \notin different /\ 2 \in different  BY <1>9, <1>10, <2>1, <2>5
    <3>2. different # {} /\ first = 2  BY <1>8, <3>1
    <3>3. ComparePrices(p, q) = CompareRows(p[2], q[2])  BY <1>1, <2>1, <3>2
    <3> QED  BY <2>2, <2>3, <2>5, <3>3 DEF AtMost
  <2>6. CASE CompareRows(p[1], q[1]) = 0 /\ CompareRows(p[2], q[2]) = 0
    <3>1. different = {}  BY <1>9, <1>10, <1>11, <2>1, <2>6
    <3>2. ComparePrices(p, q) = 0  BY <1>1, <2>1, <3>1
    <3> QED  BY <2>3, <2>6, <3>2 DEF AtMost
  <2> QED  BY <2>4, <2>5, <2>6
<1> QED  BY <1>4, <1>12, <1>13, <1>14, <1>15, <1>16

(* It is a total preorder.                                                 *)
LEMMA ListsAreOrdered ==
  /\ \A p, q \in PriceLists : AtMost(p, q) \/ AtMost(q, p)
  /\ \A p, q, s \in PriceLists : AtMost(p, q) /\ AtMost(q, s) => AtMost(p, s)
<1>1. \A p \in PriceLists :
        /\ DOMAIN p = {} \/ DOMAIN p = {1} \/ DOMAIN p = {2} \/ DOMAIN p = {1, 2}
        /\ 1 \in DOMAIN p => p[1] \in Rows
        /\ 2 \in DOMAIN p => p[2] \in Rows
  BY Places DEF Metrics
<1>2. ASSUME NEW p \in PriceLists, NEW q \in PriceLists PROVE AtMost(p, q) \/ AtMost(q, p)
  <2>1. \A m \in {1, 2} : m \in DOMAIN p /\ m \in DOMAIN q =>
          /\ CompareRows(p[m], q[m]) \in Int /\ CompareRows(q[m], p[m]) \in Int
          /\ CompareRows(p[m], q[m]) = -CompareRows(q[m], p[m])
    BY <1>1, RowsAreOrdered
  <2>2. \/ DOMAIN p = {} \/ DOMAIN p = {1} \/ DOMAIN p = {2} \/ DOMAIN p = {1, 2}
    BY <1>1
  <2>3. \/ DOMAIN q = {} \/ DOMAIN q = {1} \/ DOMAIN q = {2} \/ DOMAIN q = {1, 2}
    BY <1>1
  <2> QED  BY <2>1, <2>2, <2>3 DEF AtMost
<1>3. ASSUME NEW p \in PriceLists, NEW q \in PriceLists, NEW s \in PriceLists,
             AtMost(p, q), AtMost(q, s)
      PROVE  AtMost(p, s)
  <2>1. \A m \in {1, 2} : m \in DOMAIN p /\ m \in DOMAIN q /\ m \in DOMAIN s =>
          /\ CompareRows(p[m], q[m]) \in Int /\ CompareRows(q[m], s[m]) \in Int
          /\ CompareRows(p[m], s[m]) \in Int /\ CompareRows(s[m], p[m]) \in Int
          /\ CompareRows(p[m], s[m]) = -CompareRows(s[m], p[m])
          /\ CompareRows(p[m], q[m]) <= 0 /\ CompareRows(q[m], s[m]) <= 0 =>
               /\ CompareRows(p[m], s[m]) <= 0
               /\ CompareRows(p[m], q[m]) < 0 \/ CompareRows(q[m], s[m]) < 0
                    => CompareRows(p[m], s[m]) < 0
    BY <1>1, RowsAreOrdered
  <2>2. \/ DOMAIN p = {} \/ DOMAIN p = {1} \/ DOMAIN p = {2} \/ DOMAIN p = {1, 2}
    BY <1>1
  <2>3. \/ DOMAIN q = {} \/ DOMAIN q = {1} \/ DOMAIN q = {2} \/ DOMAIN q = {1, 2}
    BY <1>1
  <2>4. \/ DOMAIN s = {} \/ DOMAIN s = {1} \/ DOMAIN s = {2} \/ DOMAIN s = {1, 2}
    BY <1>1
  <2>5. CASE DOMAIN p = {}  BY <2>5 DEF AtMost
  <2>6. CASE DOMAIN p = {1}  BY <1>3, <2>1, <2>3, <2>4, <2>6 DEF AtMost
  <2>7. CASE DOMAIN p = {2}  BY <1>3, <2>1, <2>3, <2>4, <2>7 DEF AtMost
  <2>8. CASE DOMAIN p = {1, 2}  BY <1>3, <2>1, <2>3, <2>4, <2>8 DEF AtMost
  <2> QED  BY <2>2, <2>5, <2>6, <2>7, <2>8
<1> QED  BY <1>2, <1>3

(* Finitely many candidates have a cheapest one: the one with the fewest   *)
(* cheaper than itself.                                                    *)
LEMMA CheapestExists ==
  ASSUME prices \in [Keys -> PriceLists], NEW ks \in SUBSET Keys, ks # {}
  PROVE  CheapestTargets(ks) # {}
<1> DEFINE Cheaper(k) == {l \in ks : ~AtMost(prices[k], prices[l])}
           N == {Cardinality(Cheaper(k)) : k \in ks}
           R == {p \in Nat \X Nat : p[1] < p[2]}
<1>1. IsFiniteSet(ks)  BY InputsAssumption, FS_Subset
<1>2. \A k \in ks : IsFiniteSet(Cheaper(k)) /\ Cardinality(Cheaper(k)) \in Nat
  <2> TAKE k \in ks
  <2>1. Cheaper(k) \subseteq ks  OBVIOUS
  <2> HIDE DEF Cheaper
  <2>2. IsFiniteSet(Cheaper(k))  BY <1>1, <2>1, FS_Subset
  <2> QED  BY <2>2, FS_CardinalityType
<1>3. N \subseteq Nat /\ N # {}  BY <1>2
<1>4. IsWellFoundedOn(R, Nat)  BY NatLessThanWellFounded DEF OpToRel
<1>5. \A x, y \in Nat : y < x => <<y, x>> \in R  OBVIOUS
<1> HIDE DEF R, N
<1>6. PICK x \in N : \A y \in N : ~(<<y, x>> \in R)  BY <1>3, <1>4, WFMin
<1>7. PICK k \in ks : x = Cardinality(Cheaper(k))  BY <1>6 DEF N
<1>8. ASSUME NEW l \in ks, ~AtMost(prices[k], prices[l]) PROVE FALSE
  <2>0. \A j \in ks : prices[j] \in PriceLists  OBVIOUS
  <2>1. AtMost(prices[l], prices[k])  BY <1>8, <2>0, ListsAreOrdered
  <2>2. Cheaper(l) \subseteq Cheaper(k)
    <3> SUFFICES ASSUME NEW j \in ks, ~AtMost(prices[l], prices[j]), AtMost(prices[k], prices[j])
                 PROVE FALSE
      OBVIOUS
    <3> QED  BY <2>0, <2>1, ListsAreOrdered
  <2>3. l \in Cheaper(k)  BY <1>8
  <2>4. l \notin Cheaper(l)  BY <2>0, ListsAreOrdered
  <2>5. Cardinality(Cheaper(l)) \in N  BY DEF N
  <2> HIDE DEF Cheaper
  <2>6. /\ Cardinality(Cheaper(l)) <= Cardinality(Cheaper(k))
        /\ Cardinality(Cheaper(l)) # Cardinality(Cheaper(k))
    <3>1. Cheaper(l) # Cheaper(k)  BY <2>3, <2>4
    <3>2. IsFiniteSet(Cheaper(k))  BY <1>2
    <3> QED  BY <2>2, <3>1, <3>2, FS_Subset
  <2>7. /\ Cardinality(Cheaper(l)) \in Nat /\ Cardinality(Cheaper(k)) \in Nat
    BY <1>2
  <2>8. Cardinality(Cheaper(l)) < Cardinality(Cheaper(k))  BY <2>6, <2>7
  <2> QED  BY <1>5, <1>6, <1>7, <2>5, <2>7, <2>8
<1>9. \A l \in ks : ComparePrices(prices[k], prices[l]) <= 0
  BY <1>8, ComparedIs
<1> QED  BY <1>9 DEF CheapestTargets

(* A lower price per unit never rates higher.                              *)
LEMMA CheaperRatesLower ==
  ASSUME NEW u \in 0 .. MaxInt, NEW x \in Rows, NEW y \in Rows, CompareRows(x, y) <= 0
  PROVE  Ceil(u * x.amount, x.unit) <= Ceil(u * y.amount, y.unit)
<1> DEFINE a == x.amount
           b == y.amount
           d == x.unit
           e == y.unit
           m == Ceil(u * a, d)
           n == Ceil(u * b, e)
<1>0. MaxInt \in Nat  BY WordAssumption DEF MaxInt
<1>1. /\ a \in Nat /\ b \in Nat /\ d \in Nat \ {0} /\ e \in Nat \ {0} /\ u \in Nat
  BY <1>0 DEF Rows
<1>2. a * e <= b * d
  <2>1. a * e \in Int /\ b * d \in Int  BY <1>1
  <2> QED  BY <2>1 DEF CompareRows
<1>3. m \in Nat /\ (m - 1) * d < u * a
  <2>1. u * a \in Nat  BY <1>1
  <2>2. Ceil(u * a, d) = IF (u * a) % d = 0 THEN (u * a) \div d ELSE (u * a) \div d + 1
    BY <1>1, <2>1, CeilValue
  <2>3. /\ (u * a) \div d \in Nat /\ (u * a) % d \in 0 .. d - 1
        /\ u * a = d * ((u * a) \div d) + ((u * a) % d)
    BY <1>1, <2>1, Division
  <2> QED  BY <1>1, <2>2, <2>3
<1>4. n \in Nat /\ n * e >= u * b
  <2>1. u * b \in Nat  BY <1>1
  <2>2. Ceil(u * b, e) = IF (u * b) % e = 0 THEN (u * b) \div e ELSE (u * b) \div e + 1
    BY <1>1, <2>1, CeilValue
  <2>3. /\ (u * b) \div e \in Nat /\ (u * b) % e \in 0 .. e - 1
        /\ u * b = e * ((u * b) \div e) + ((u * b) % e)
    BY <1>1, <2>1, Division
  <2> QED  BY <1>1, <2>2, <2>3
<1> HIDE DEF a, b, d, e, m, n
<1>5. SUFFICES ASSUME n <= m - 1 PROVE FALSE  BY <1>3, <1>4 DEF m, n, a, b, d, e
<1>6. d * n <= d * (m - 1)  BY <1>1, <1>3, <1>4, <1>5, Monotone
<1>7. d * n < u * a  BY <1>1, <1>3, <1>4, <1>6
<1>8. e * (d * n) < e * (u * a)
  <2>1. d * n + 1 <= u * a /\ d * n \in Nat /\ u * a \in Nat /\ d * n + 1 \in Nat  BY <1>1, <1>4, <1>7
  <2>2. e * (d * n + 1) <= e * (u * a)  BY <1>1, <2>1, Monotone
  <2>3. e * (d * n + 1) = e * (d * n) + e  BY <1>1, <2>1
  <2>4. e * (d * n) \in Int /\ e * (u * a) \in Int  BY <1>1, <2>1
  <2> QED  BY <1>1, <2>2, <2>3, <2>4
<1>9. e * (u * a) <= d * (u * b)
  <2>1. a * e \in Nat /\ b * d \in Nat  BY <1>1
  <2>2. u * (a * e) <= u * (b * d)  BY <1>1, <1>2, <2>1, Monotone
  <2>3. e * (u * a) = u * (a * e) /\ d * (u * b) = u * (b * d)  BY <1>1
  <2> QED  BY <2>2, <2>3
<1>10. d * (u * b) <= e * (d * n)
  <2>1. u * b \in Nat /\ n * e \in Nat  BY <1>1, <1>4
  <2>2. d * (u * b) <= d * (n * e)  BY <1>1, <1>4, <2>1, Monotone
  <2>3. d * (n * e) = e * (d * n)  BY <1>1, <1>4
  <2> QED  BY <2>2, <2>3
<1>11. e * (d * n) \in Int /\ e * (u * a) \in Int /\ d * (u * b) \in Int  BY <1>1, <1>4
<1> QED  BY <1>8, <1>9, <1>10, <1>11
-----------------------------------------------------------------------------
(* Calls.                                                                  *)

(* The inductive invariant: what a call has decided so far is still what   *)
(* its price lists say.                                                    *)
SaleInv ==
  /\ usage \in Usages /\ customer \in PriceLists /\ prices \in [Keys -> PriceLists]
  /\ pc \in {"resolve", "unavailable", "call", "rate", "rated"}
  /\ pc # "resolve" => targets = CheapestTargets(Candidates)
  /\ pc \in {"rate", "rated"} => key \in targets
  /\ pc = "rated" => gross = Rate(usage, customer) /\ commission = Rate(usage, prices[key])

(* It holds of every call.                                                 *)
LEMMA SaleIsKnown == Spec => []SaleInv
<1>1. Init => SaleInv  BY DEF Init, SaleInv
<1>2. SaleInv /\ [Next]_vars => SaleInv'
  <2> SUFFICES ASSUME SaleInv, [Next]_vars PROVE SaleInv'  OBVIOUS
  <2>1. ASSUME UNCHANGED <<customer, prices>> PROVE Candidates' = Candidates
    BY <2>1 DEF Candidates
  <2>2. ASSUME UNCHANGED prices, NEW ks PROVE CheapestTargets(ks)' = CheapestTargets(ks)
    BY <2>2 DEF CheapestTargets
  <2>3. ASSUME UNCHANGED <<customer, prices>>
        PROVE  CheapestTargets(Candidates)' = CheapestTargets(Candidates)
    BY <2>3, <2>1 DEF CheapestTargets
  <2>4. CASE Resolve  BY <2>3, <2>4 DEF Resolve, SaleInv
  <2>5. CASE Select  BY <2>3, <2>5 DEF Select, SaleInv
  <2>6. CASE RateUsage  BY <2>3, <2>6 DEF RateUsage, SaleInv
  <2>7. CASE UNCHANGED vars  BY <2>3, <2>7 DEF vars, SaleInv
  <2> QED  BY <2>4, <2>5, <2>6, <2>7 DEF Next
<1> QED  BY <1>1, <1>2, PTL DEF Spec

(* A rated call has been offered the key it selected.                      *)
LEMMA SelectedKey ==
  ASSUME SaleInv, pc = "rated"
  PROVE  /\ key \in Candidates /\ key \in Keys /\ prices[key] \in PriceLists
         /\ \A k \in Candidates : /\ prices[k] \in PriceLists
                                  /\ ComparePrices(prices[key], prices[k]) <= 0
<1>1. key \in CheapestTargets(Candidates)  BY DEF SaleInv
<1>2. Candidates \subseteq Keys  BY DEF Candidates
<1> QED  BY <1>1, <1>2 DEF CheapestTargets, SaleInv

(* For words of every width and price lists of every amount and unit, what *)
(* ratedUsage charges and owes is the exact price, saturated.              *)
THEOREM RatesAreExact == Spec => []RateIsExact
<1>1. SaleInv => RateIsExact
  BY SelectedKey, RateExact DEF SaleInv, RateIsExact
<1> QED  BY <1>1, SaleIsKnown, PTL

(* For every set of keys and every price lists, a model that some key      *)
(* covers is offered: comparePrices is a total preorder.                   *)
THEOREM CoveredModelsAreOffered == Spec => []SomeKeyIsOffered
<1>1. SaleInv => SomeKeyIsOffered
  <2> SUFFICES ASSUME SaleInv, pc # "resolve", Candidates # {} PROVE targets # {}
    BY DEF SomeKeyIsOffered
  <2>1. Candidates \in SUBSET Keys  BY DEF Candidates
  <2> QED  BY <2>1, CheapestExists DEF SaleInv
<1> QED  BY <1>1, SaleIsKnown, PTL

(* Where the keys price one metric, no candidate would have earned less    *)
(* than the selected key, for every usage: the order by price per unit and *)
(* the rounding of ceilMulDiv agree.                                       *)
THEOREM SelectedIsCheapest == Spec => []NoCheaperKey
<1>1. SaleInv => NoCheaperKey
  <2> SUFFICES ASSUME SaleInv, pc = "rated", ~Wraps(usage, prices[key]),
                      NEW k \in Candidates, DOMAIN prices[k] = DOMAIN prices[key],
                      NEW m \in Metrics, DOMAIN prices[k] = {m},
                      ~Wraps(usage, prices[k])
               PROVE  commission <= Rate(usage, prices[k])
    BY DEF NoCheaperKey
  <2> DEFINE p == prices[key]
             q == prices[k]
  <2>1. /\ p \in PriceLists /\ q \in PriceLists /\ ComparePrices(p, q) <= 0
        /\ DOMAIN p = {m} /\ DOMAIN q = {m}
        /\ usage \in Usages /\ commission = Rate(usage, p)
        /\ ~Wraps(usage, p) /\ ~Wraps(usage, q)
    BY SelectedKey DEF SaleInv
  <2> HIDE DEF p, q
  <2>2. p[m] \in Rows /\ q[m] \in Rows /\ usage[m] \in 0 .. MaxInt
    BY <2>1, InputsAssumption
  <2>3. CompareRows(p[m], q[m]) <= 0
    <3>1. AtMost(p, q)  BY <2>1, ComparedIs
    <3>2. m = 1 \/ m = 2  BY DEF Metrics
    <3>3. CompareRows(p[m], q[m]) \in Int  BY <2>2, RowsAreOrdered
    <3> QED  BY <2>1, <3>1, <3>2, <3>3 DEF AtMost
  <2> DEFINE c(list) == Ceil(usage[m] * list[m].amount, list[m].unit)
  <2>4. c(p) <= c(q) /\ c(p) \in Nat /\ c(q) \in Nat
    BY <2>2, <2>3, CheaperRatesLower, ComponentIs
  <2>5. ASSUME NEW list \in PriceLists, DOMAIN list = {m}, c(list) \in Nat
        PROVE  Exact(usage, list) = c(list)
    <3> DEFINE T == DOMAIN InOrder[DOMAIN list]
    <3>1. T = {1} /\ At(list, 1) = m  BY <2>5, Places DEF At
    <3>2. Exact(usage, list) = 0 + Price(usage, list, 1)  BY <3>1, ExactIs
    <3>3. Price(usage, list, 1) = c(list)  BY <3>1 DEF Price
    <3> QED  BY <2>5, <3>2, <3>3
  <2>6. Exact(usage, p) = c(p) /\ Exact(usage, q) = c(q)  BY <2>1, <2>4, <2>5
  <2>7. Rate(usage, p) = Saturated(c(p)) /\ Rate(usage, q) = Saturated(c(q))
    BY <2>1, <2>6, RateExact
  <2> HIDE DEF c
  <2>8. MaxInt \in Nat  BY WordAssumption DEF MaxInt
  <2>9. Saturated(c(p)) <= Saturated(c(q))  BY <2>4, <2>8 DEF Saturated
  <2>10. commission <= Rate(usage, q)  BY <2>1, <2>7, <2>9
  <2> QED  BY <2>10 DEF q
<1> QED  BY <1>1, SaleIsKnown, PTL
=============================================================================
