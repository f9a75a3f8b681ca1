------------------------- MODULE ClientCache_proofs -------------------------
(***************************************************************************)
(* The client cache never evicts a client in use, never hands out a closed *)
(* one, and overflows only while every evictable client is busy: proofs    *)
(* for every set of keys, bound and number of calls.                       *)
(***************************************************************************)
EXTENDS ClientCache, FiniteSetTheorems, TLAPS

USE KeysAssumption, BoundsAssumption

-----------------------------------------------------------------------------
(* The holders of a client are finitely many; there are none exactly when  *)
(* their number is zero.                                                   *)
LEMMA HoldersFinite ==
  ASSUME IsFiniteSet(held), NEW k \in Keys
  PROVE  /\ IsFiniteSet(Holders(k))
         /\ Cardinality(Holders(k)) \in Nat
         /\ Cardinality(Holders(k)) = 0 <=> Holders(k) = {}
<1>1. Holders(k) \in SUBSET held  BY DEF Holders
<1>2. IsFiniteSet(Holders(k))  BY <1>1, FS_Subset
<1> QED  BY <1>2, FS_CardinalityType, FS_EmptySet

(* The cache holds a whole number of entries.                              *)
LEMMA SizeNat == ASSUME TypeOK PROVE IsFiniteSet(cached) /\ Size \in Nat
<1>1. IsFiniteSet(cached)  BY FS_Subset DEF TypeOK
<1> QED  BY <1>1, FS_CardinalityType DEF Size

(* An idle entry's client is used by no call.                              *)
LEMMA IdleIsFree ==
  ASSUME CacheInv, NEW k \in cached, active[k] = 0, NEW h \in held
  PROVE  h.client # client[k]
<1>1. k \in Keys /\ Holders(k) = {}
  BY HoldersFinite DEF CacheInv, TypeOK, NumbersInv, CountsHolders
<1> QED  BY <1>1 DEF Holders, CacheInv, EntriesInv

(* The cache starts with no call and at most one client.                   *)
LEMMA CacheInit == Init => CacheInv
<1> SUFFICES ASSUME Init PROVE CacheInv  OBVIOUS
<1>1. TypeOK  BY DEF Init, TypeOK, Hold
<1>2. NumbersInv /\ EntriesInv  BY FS_EmptySet DEF Init, NumbersInv, EntriesInv
<1>3. ASSUME NEW k \in Keys PROVE Holders(k) = {}  BY DEF Init, Holders
<1>4. CountsHolders  BY <1>3, FS_EmptySet DEF Init, CountsHolders
<1>5. EvictionSparesHeld /\ CachedAreOpen
  BY DEF Init, EvictionSparesHeld, CachedAreOpen
<1>6. OverflowOnlyWhenBusy  BY DEF Init, OverflowOnlyWhenBusy
<1> QED  BY <1>1, <1>2, <1>4, <1>5, <1>6 DEF CacheInv

(* A call that takes a cached client is one more holder of it.             *)
LEMMA HitStep ==
  ASSUME CacheInv, NEW k \in Keys, Hit(k)
  PROVE  CacheInv'
<1> DEFINE h == Held(k, client[k])
<1> USE DEF CacheInv
<1>1. h \in Hold /\ h \notin held /\ h.key = k /\ h.client = client[k] /\ h.id = clock + 1
  BY DEF Held, Hold, TypeOK, NumbersInv
<1>2. TypeOK'  BY <1>1 DEF Hit, TypeOK
<1>3. NumbersInv'  BY <1>1, FS_AddElement DEF Hit, TypeOK, Hold, NumbersInv
<1>4. EntriesInv'  BY <1>1 DEF Hit, EntriesInv
<1>5. CountsHolders'
  <2> SUFFICES ASSUME NEW j \in cached PROVE active'[j] = Cardinality(Holders(j)')
    BY DEF CountsHolders, Hit
  <2>1. j \in Keys /\ active[j] = Cardinality(Holders(j)) /\ active[j] \in Nat
    BY DEF CountsHolders, TypeOK
  <2>2. IsFiniteSet(Holders(j))  BY <2>1, HoldersFinite DEF NumbersInv
  <2>3. CASE j = k
    <3>1. Holders(j)' = Holders(j) \cup {h} /\ h \notin Holders(j)
      BY <1>1, <2>3 DEF Holders, Hit
    <3>2. active'[j] = active[j] + 1  BY <2>1, <2>3 DEF Hit, TypeOK
    <3> HIDE DEF h
    <3> QED  BY <2>1, <2>2, <3>1, <3>2, FS_AddElement
  <2>4. CASE j # k
    BY <1>1, <2>1, <2>4 DEF Holders, Hit, TypeOK
  <2> QED  BY <2>3, <2>4
<1>6. EvictionSparesHeld' /\ CachedAreOpen'
  BY <1>1 DEF Hit, EvictionSparesHeld, CachedAreOpen
<1>7. OverflowOnlyWhenBusy'
  BY DEF Hit, OverflowOnlyWhenBusy, TypeOK, Size
<1> QED  BY <1>2, <1>3, <1>4, <1>5, <1>6, <1>7

(* When an entry makes room, it was idle, its client becomes the doomed    *)
(* one, and the number of entries does not grow.                           *)
LEMMA EvictStep ==
  ASSUME TypeOK, NEW a, NEW added \in SUBSET Keys, Evict(a, added)
  PROVE  \/ \E v \in Keys : /\ Idle(v, a)
                            /\ cached' = (cached \ {v}) \cup added
                            /\ doomed' = doomed \cup {client[v]}
         \/ /\ \A v \in Keys : ~Idle(v, a)
            /\ cached' = cached \cup added /\ doomed' = doomed
BY DEF Evict, IsVictim

(* A new client goes to a new entry, with the building call as its only    *)
(* holder.                                                                 *)
LEMMA BuildStep ==
  ASSUME CacheInv, NEW k \in Keys, Build(k)
  PROVE  CacheInv'
<1> DEFINE h == Held(k, made)
<1> USE DEF CacheInv
<1>1. h \in Hold /\ h \notin held /\ h.key = k /\ h.client = made /\ h.id = clock + 1
  BY DEF Held, Hold, TypeOK, NumbersInv
<1>2. PICK gone \in SUBSET (cached \ pinned) :
        /\ \A v \in gone : active[v] = 0
        /\ cached' = (cached \ gone) \cup {k}
        /\ doomed' = doomed \cup {client[v] : v \in gone}
        /\ \/ \E v \in Keys : gone = {v}
           \/ gone = {} /\ (Size >= MaxClients => \A v \in Keys : ~Idle(v, active))
  <2>1. CASE Size >= MaxClients
    <3>1. Evict(active, {k})  BY <2>1 DEF Build
    <3>2. CASE \E v \in Keys : /\ Idle(v, active)
                               /\ cached' = (cached \ {v}) \cup {k}
                               /\ doomed' = doomed \cup {client[v]}
      <4>1. PICK v \in Keys : /\ Idle(v, active)
                              /\ cached' = (cached \ {v}) \cup {k}
                              /\ doomed' = doomed \cup {client[v]}
        BY <3>2
      <4> {v} \in SUBSET (cached \ pinned)  BY <4>1 DEF Idle
      <4> WITNESS {v} \in SUBSET (cached \ pinned)
      <4> QED  BY <4>1 DEF Idle
    <3>3. CASE /\ \A v \in Keys : ~Idle(v, active)
               /\ cached' = cached \cup {k} /\ doomed' = doomed
      <4> WITNESS {} \in SUBSET (cached \ pinned)
      <4> QED  BY <3>3
    <3> QED  BY <3>1, <3>2, <3>3, EvictStep
  <2>2. CASE ~(Size >= MaxClients)
    <3> WITNESS {} \in SUBSET (cached \ pinned)
    <3> QED  BY <2>2 DEF Build
  <2> QED  BY <2>1, <2>2
<1>3. k \notin cached /\ k \notin pinned  BY DEF Build, TypeOK
<1>4. TypeOK'
  <2>1. cached' \in SUBSET Keys /\ pinned' \in SUBSET cached'
    BY <1>2 DEF Build, TypeOK
  <2>2. doomed' \in SUBSET Nat  BY <1>2 DEF TypeOK
  <2>3. held' \in SUBSET Hold  BY <1>1 DEF Build, TypeOK
  <2>4. client' \in [Keys -> Nat] /\ lastUsed' \in [Keys -> Nat] /\ active' \in [Keys -> Nat]
    BY DEF Build, TypeOK
  <2> QED  BY <2>1, <2>2, <2>3, <2>4 DEF Build, TypeOK
<1>5. NumbersInv'
  <2>1. IsFiniteSet(held)'  BY FS_AddElement DEF Build, NumbersInv
  <2>2. \A x \in doomed' : x < made + 1
    BY <1>2 DEF NumbersInv, TypeOK
  <2> QED  BY <1>1, <1>2, <2>1, <2>2 DEF Build, TypeOK, Hold, NumbersInv
<1>6. \A g \in held : g.client \in closed \/ g.key \notin gone
  BY <1>2, IdleIsFree DEF EntriesInv
<1>7. EntriesInv'
  BY <1>1, <1>2, <1>3, <1>6 DEF Build, EntriesInv, TypeOK, NumbersInv, Hold
<1>8. CountsHolders'
  <2> SUFFICES ASSUME NEW j \in cached' PROVE active'[j] = Cardinality(Holders(j)')
    BY DEF CountsHolders
  <2>1. CASE j = k
    <3>1. Holders(j)' = {h}
      BY <1>1, <2>1 DEF Holders, Build, TypeOK, NumbersInv
    <3>2. Cardinality({h}) = 1
      BY FS_Singleton
    <3> QED  BY <2>1, <3>1, <3>2 DEF Build, TypeOK
  <2>2. CASE j # k
    <3>1. j \in cached  BY <1>2, <2>2
    <3>2. Holders(j)' = Holders(j)  BY <1>1, <2>2, <3>1 DEF Holders, Build, TypeOK
    <3> QED  BY <2>2, <3>1, <3>2 DEF CountsHolders, Build, TypeOK
  <2> QED  BY <2>1, <2>2
<1>9. EvictionSparesHeld'
  BY <1>1, <1>2, IdleIsFree DEF Build, EvictionSparesHeld, TypeOK, NumbersInv
<1>10. CachedAreOpen'
  <2>1. made \notin doomed' \cup closed
    BY <1>2 DEF TypeOK, NumbersInv
  <2>2. ASSUME NEW j \in cached', j # k PROVE client'[j] \notin doomed' \cup closed
    BY <1>2, <2>2 DEF Build, CachedAreOpen, TypeOK, EntriesInv
  <2>3. client'[k] = made /\ closed' = closed  BY DEF Build, TypeOK
  <2>4. doomed' \cap closed = {}  BY <1>2 DEF CachedAreOpen
  <2> QED  BY <2>1, <2>2, <2>3, <2>4 DEF CachedAreOpen
<1>11. OverflowOnlyWhenBusy'
  <2> SUFFICES ASSUME Size' > MaxClients, NEW j \in cached' \ pinned' PROVE active'[j] > 0
    BY DEF OverflowOnlyWhenBusy
  <2>1. CASE j = k  BY <2>1 DEF Build, TypeOK
  <2>2. CASE j # k /\ gone = {}
    <3>1. Size' = Size + 1
      <4>1. cached' = cached \cup {k}  BY <1>2, <2>2
      <4> QED  BY <1>3, <4>1, SizeNat, FS_AddElement DEF Size
    <3>2. Size >= MaxClients  BY <3>1, SizeNat
    <3> QED  BY <1>2, <2>2, <3>2 DEF Idle, Build, TypeOK
  <2>3. CASE \E v \in Keys : gone = {v}
    <3>1. PICK v \in Keys : gone = {v}  BY <2>3
    <3>2. v \in cached \ pinned /\ active[v] = 0  BY <1>2, <3>1
    <3>3. Cardinality(cached \ {v}) = Size - 1 /\ IsFiniteSet(cached \ {v})
      BY <3>2, SizeNat, FS_RemoveElement DEF Size
    <3>4. cached' = (cached \ {v}) \cup {k} /\ k \notin cached \ {v}
      BY <1>2, <1>3, <3>1
    <3>5. Size' = (Size - 1) + 1  BY <3>3, <3>4, FS_AddElement DEF Size
    <3>6. Size' = Size  BY <3>5, SizeNat
    <3> QED  BY <3>2, <3>6 DEF OverflowOnlyWhenBusy
  <2> QED  BY <1>2, <2>1, <2>2, <2>3
<1> QED  BY <1>4, <1>5, <1>7, <1>8, <1>9, <1>10, <1>11

(* A call that gives its client back is one holder less, and an entry this *)
(* leaves idle is trimmed when the cache overflows.                        *)
LEMMA ReleaseStep ==
  ASSUME CacheInv, NEW h \in held, Release(h)
  PROVE  CacheInv'
<1> USE DEF CacheInv
<1>1. PICK gone \in SUBSET (cached \ pinned) :
        /\ \A v \in gone : Released(h)[v] = 0
        /\ cached' = cached \ gone
        /\ doomed' = doomed \cup {client[v] : v \in gone}
        /\ \/ \E v \in Keys : gone = {v} /\ Size > MaxClients
           \/ gone = {} /\ (Size > MaxClients => \A v \in Keys : ~Idle(v, Released(h)))
  <2>1. CASE Size > MaxClients
    <3>1. Evict(Released(h), {})  BY <2>1 DEF Release
    <3>2. CASE \E v \in Keys : /\ Idle(v, Released(h))
                               /\ cached' = (cached \ {v}) \cup {}
                               /\ doomed' = doomed \cup {client[v]}
      <4>1. PICK v \in Keys : /\ Idle(v, Released(h))
                              /\ cached' = (cached \ {v}) \cup {}
                              /\ doomed' = doomed \cup {client[v]}
        BY <3>2
      <4> {v} \in SUBSET (cached \ pinned)  BY <4>1 DEF Idle
      <4> WITNESS {v} \in SUBSET (cached \ pinned)
      <4> QED  BY <2>1, <4>1 DEF Idle
    <3>3. CASE /\ \A v \in Keys : ~Idle(v, Released(h))
               /\ cached' = cached \cup {} /\ doomed' = doomed
      <4> WITNESS {} \in SUBSET (cached \ pinned)
      <4> QED  BY <3>3
    <3> QED  BY <3>1, <3>2, <3>3, EvictStep
  <2>2. CASE ~(Size > MaxClients)
    <3> WITNESS {} \in SUBSET (cached \ pinned)
    <3> QED  BY <2>2 DEF Release
  <2> QED  BY <2>1, <2>2
<1>2. h \in Hold /\ h.key \in Keys  BY DEF TypeOK, Hold
<1>3. Released(h) \in [Keys -> Nat]  BY <1>2 DEF Released, TypeOK
<1>4. TypeOK'  BY <1>1, <1>3 DEF Release, TypeOK
<1>5. NumbersInv'
  <2>1. IsFiniteSet(held)'  BY FS_RemoveElement DEF Release, NumbersInv
  <2>2. \A x \in doomed' : x < made  BY <1>1 DEF NumbersInv
  <2> QED  BY <1>1, <2>1, <2>2 DEF Release, NumbersInv
<1>6. CountsHolders'
  <2> SUFFICES ASSUME NEW j \in cached' PROVE active'[j] = Cardinality(Holders(j)')
    BY DEF CountsHolders
  <2>1. j \in cached /\ j \in Keys  BY <1>1 DEF TypeOK
  <2>2. /\ IsFiniteSet(Holders(j)) /\ active[j] = Cardinality(Holders(j))
        /\ active[j] \in Nat /\ (active[j] = 0 <=> Holders(j) = {})
    BY <2>1, HoldersFinite DEF CountsHolders, TypeOK, NumbersInv
  <2>3. CASE h \in Holders(j)
    <3>1. h.key = j /\ client[j] = h.client /\ active[j] > 0
      BY <2>2, <2>3 DEF Holders
    <3>2. active'[j] = active[j] - 1
      BY <2>1, <3>1 DEF Release, Released, TypeOK
    <3>3. Holders(j)' = Holders(j) \ {h}  BY DEF Holders, Release
    <3> QED  BY <2>2, <2>3, <3>2, <3>3, FS_RemoveElement
  <2>4. CASE h \notin Holders(j)
    <3>1. active'[j] = active[j]
      BY <2>1, <2>4 DEF Release, Released, Holders, TypeOK
    <3>2. Holders(j)' = Holders(j)  BY <2>4 DEF Holders, Release
    <3> QED  BY <2>2, <3>1, <3>2
  <2> QED  BY <2>3, <2>4
<1>7. ASSUME NEW g \in held', NEW v \in gone PROVE g.client # client[v]
  <2>1. v \in cached /\ v \in Keys /\ Released(h)[v] = 0  BY <1>1 DEF TypeOK
  <2>2. CASE active[v] = 0  BY <2>1, <2>2, IdleIsFree DEF Release
  <2>3. CASE active[v] # 0
    <3>1. h.key = v /\ client[v] = h.client /\ active[v] = 1
      BY <2>1, <2>3 DEF Released, TypeOK
    <3>2. h \in Holders(v) /\ IsFiniteSet(Holders(v)) /\ Cardinality(Holders(v)) = 1
      BY <2>1, <3>1, HoldersFinite DEF Holders, CountsHolders, NumbersInv
    <3> DEFINE H == Holders(v)
    <3> HIDE DEF H
    <3>a. h \in H /\ IsFiniteSet(H) /\ Cardinality(H) = 1  BY <3>2 DEF H
    <3>b. IsFiniteSet(H \ {h}) /\ Cardinality(H \ {h}) = Cardinality(H) - 1
      BY <3>a, FS_RemoveElement
    <3>3. IsFiniteSet(Holders(v) \ {h}) /\ Cardinality(Holders(v) \ {h}) = 0
      BY <3>a, <3>b DEF H
    <3>4. Holders(v) \ {h} = {}  BY <3>3, FS_EmptySet
    <3> QED  BY <2>1, <3>4 DEF Holders, Release, EntriesInv
  <2> QED  BY <2>2, <2>3
<1>8. EntriesInv'
  <2>1. ASSUME NEW g \in held'
        PROVE  g.client \in closed \/ (g.key \in cached' /\ client[g.key] = g.client)
    BY <1>1, <1>7 DEF EntriesInv, Release
  <2> QED  BY <1>1, <2>1 DEF EntriesInv, Release
<1>9. EvictionSparesHeld'  BY <1>1, <1>7 DEF EvictionSparesHeld, Release
<1>10. CachedAreOpen'
  BY <1>1 DEF CachedAreOpen, Release, EntriesInv
<1>11. OverflowOnlyWhenBusy'
  <2> SUFFICES ASSUME Size' > MaxClients, NEW j \in cached' \ pinned' PROVE active'[j] > 0
    BY DEF OverflowOnlyWhenBusy
  <2>1. active'[j] = Released(h)[j] /\ j \in cached \ pinned /\ j \in Keys
    BY <1>1 DEF Release, TypeOK
  <2>2. CASE gone = {}
    BY <1>1, <1>3, <2>1, <2>2 DEF Idle, Size
  <2>3. CASE \E v \in Keys : gone = {v} /\ Size > MaxClients
    <3>1. PICK v \in Keys : gone = {v} /\ Size > MaxClients  BY <2>3
    <3>2. v \in cached \ pinned /\ Released(h)[v] = 0 /\ j # v  BY <1>1, <3>1
    <3>3. active[v] > 0 /\ active[j] > 0
      BY <2>1, <3>1, <3>2 DEF OverflowOnlyWhenBusy
    <3> QED  BY <2>1, <3>2, <3>3 DEF Released, TypeOK
  <2> QED  BY <1>1, <2>2, <2>3
<1> QED  BY <1>4, <1>5, <1>6, <1>8, <1>9, <1>10, <1>11

(* Closing what was evicted or everything leaves no closed client cached.  *)
LEMMA CloseStep ==
  ASSUME CacheInv, (\E x \in doomed : CloseVictim(x)) \/ Shutdown
  PROVE  CacheInv'
<1> USE DEF CacheInv
<1>1. ASSUME NEW x \in doomed, CloseVictim(x) PROVE CacheInv'
  <2>1. TypeOK' /\ NumbersInv' /\ EntriesInv'
    BY <1>1 DEF CloseVictim, TypeOK, NumbersInv, EntriesInv
  <2>2. CountsHolders'  BY <1>1 DEF CloseVictim, CountsHolders, Holders
  <2>3. EvictionSparesHeld' /\ CachedAreOpen'
    BY <1>1 DEF CloseVictim, EvictionSparesHeld, CachedAreOpen
  <2>4. OverflowOnlyWhenBusy'  BY <1>1 DEF CloseVictim, OverflowOnlyWhenBusy, Size
  <2> QED  BY <2>1, <2>2, <2>3, <2>4
<1>2. ASSUME Shutdown PROVE CacheInv'
  <2>1. TypeOK' /\ NumbersInv' /\ EntriesInv'
    BY <1>2 DEF Shutdown, TypeOK, NumbersInv, EntriesInv
  <2>2. CountsHolders'  BY <1>2 DEF Shutdown, CountsHolders
  <2>3. EvictionSparesHeld' /\ CachedAreOpen'
    BY <1>2 DEF Shutdown, EvictionSparesHeld, CachedAreOpen
  <2>4. OverflowOnlyWhenBusy'  BY <1>2 DEF Shutdown, OverflowOnlyWhenBusy
  <2> QED  BY <2>1, <2>2, <2>3, <2>4
<1> QED  BY <1>1, <1>2

-----------------------------------------------------------------------------
(* The inductive invariant holds in every reachable state.                 *)
THEOREM CacheInvariant == Spec => []CacheInv
<1>1. CacheInv /\ [Next]_vars => CacheInv'
  <2> SUFFICES ASSUME CacheInv, [Next]_vars PROVE CacheInv'  OBVIOUS
  <2>1. CASE UNCHANGED vars
    BY <2>1 DEF vars, CacheInv, TypeOK, NumbersInv, EntriesInv, CountsHolders, Holders,
                EvictionSparesHeld, CachedAreOpen, OverflowOnlyWhenBusy, Size
  <2>2. ASSUME NEW k \in Keys, Hit(k) PROVE CacheInv'  BY <2>2, HitStep
  <2>3. ASSUME NEW k \in Keys, Build(k) PROVE CacheInv'  BY <2>3, BuildStep
  <2>4. ASSUME NEW h \in held, Release(h) PROVE CacheInv'  BY <2>4, ReleaseStep
  <2> QED  BY <2>1, <2>2, <2>3, <2>4, CloseStep DEF Next
<1> QED  BY <1>1, CacheInit, PTL DEF Spec

(* The reference count of every cached client is the number of calls that  *)
(* hold it.                                                                *)
THEOREM CountsAreExact == Spec => []CountsHolders
BY CacheInvariant, PTL DEF CacheInv

(* Eviction never dooms a client that a call still owns.                   *)
THEOREM HeldAreSpared == Spec => []EvictionSparesHeld
BY CacheInvariant, PTL DEF CacheInv

(* No cached client is evicted or shut down, and none is shut down twice.  *)
THEOREM CachedStayOpen == Spec => []CachedAreOpen
BY CacheInvariant, PTL DEF CacheInv

(* An overflowing cache holds no idle client that could be evicted.        *)
THEOREM OverflowIsBusy == Spec => []OverflowOnlyWhenBusy
BY CacheInvariant, PTL DEF CacheInv
=============================================================================
