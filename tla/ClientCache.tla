----------------------------- MODULE ClientCache -----------------------------
(***************************************************************************)
(* The Bifrost adapter's cache of provider clients: concurrent calls take  *)
(* a client for their target (clientFor, clientForCandidates) and give it  *)
(* back (releaseClient); beyond MaxClients the least recently used idle    *)
(* client is evicted, and is shut down after the mutex has been released.  *)
(* Building a client (newProviderClient) happens under the mutex; when it  *)
(* fails nothing changes.                                                  *)
(***************************************************************************)
EXTENDS Integers, FiniteSets

CONSTANTS
  Keys,        \* cache keys: targetKey or targetsKey of the normalized targets
  Default,     \* the key pinned at start by NewOpenAI; empty for NewLazy
  MaxClients,  \* maxCachedBifrostClients
  MaxClock     \* bound: how often a client is taken in a behaviour

ASSUME KeysAssumption ==
  /\ IsFiniteSet(Keys)
  /\ Default \subseteq Keys /\ \A j, k \in Default : j = k
ASSUME BoundsAssumption == MaxClients \in Nat /\ MaxClock \in Nat

VARIABLES
  \* Adapter.clients, one entry per cached key
  cached,      \* the keys of the map
  client,      \* client[k]: the entry's client, by number
  lastUsed,    \* lastUsed[k]
  pinned,      \* the entries that are pinned
  active,      \* active[k]
  clock,       \* clientClock
  made,        \* number of clients built so far
  \* outside the map
  held,        \* the release functions handed out and not yet run
  doomed,      \* clients evicted whose Shutdown has not been called
  closed       \* clients shut down

vars == <<cached, client, lastUsed, pinned, active, clock, made, held, doomed,
          closed>>

Hold == [id : Nat, key : Keys, client : Nat]

TypeOK ==
  /\ cached \in SUBSET Keys /\ pinned \in SUBSET cached
  /\ client \in [Keys -> Nat] /\ lastUsed \in [Keys -> Nat] /\ active \in [Keys -> Nat]
  /\ clock \in Nat /\ made \in Nat
  /\ held \in SUBSET Hold
  /\ doomed \in SUBSET Nat /\ closed \in SUBSET Nat

Init ==
  /\ cached = Default /\ pinned = Default
  /\ client = [k \in Keys |-> 0] /\ lastUsed = [k \in Keys |-> 1]
  /\ active = [k \in Keys |-> 0]
  /\ clock = (IF Default = {} THEN 0 ELSE 1) /\ made = clock
  /\ held = {} /\ doomed = {} /\ closed = {}

Size == Cardinality(cached)

\* An entry the eviction loops may take, given the reference counts a.
Idle(k, a) == k \in cached \ pinned /\ a[k] = 0

\* The entry the eviction loops end with: the least recently used idle one.
IsVictim(k, a) == Idle(k, a) /\ \A j \in Keys : Idle(j, a) => lastUsed[k] <= lastUsed[j]

(* The map after one idle entry, if there is one, made room; added holds   *)
(* the key that comes in.                                                  *)
Evict(a, added) ==
  IF \E v \in Keys : Idle(v, a)
    THEN \E v \in Keys : /\ IsVictim(v, a)
                         /\ cached' = (cached \ {v}) \cup added
                         /\ doomed' = doomed \cup {client[v]}
    ELSE cached' = cached \cup added /\ UNCHANGED doomed

Held(k, x) == [id |-> clock + 1, key |-> k, client |-> x]

-----------------------------------------------------------------------------
\* Bug: a hit does not count as a use.
HitUncounted(k) ==
  /\ k \in cached /\ clock < MaxClock
  /\ clock' = clock + 1
  /\ lastUsed' = [lastUsed EXCEPT ![k] = clock + 1]
  /\ held' = held \cup {Held(k, client[k])}
  /\ UNCHANGED <<cached, client, pinned, active, made, doomed, closed>>

(* clientFor and clientForCandidates, the key is cached.                   *)
Hit(k) ==
  /\ k \in cached /\ clock < MaxClock
  /\ clock' = clock + 1
  /\ lastUsed' = [lastUsed EXCEPT ![k] = clock + 1]
  /\ active' = [active EXCEPT ![k] = @ + 1]
  /\ held' = held \cup {Held(k, client[k])}
  /\ UNCHANGED <<cached, client, pinned, made, doomed, closed>>

(* The same on a miss: build a client and cacheClientLocked.               *)
Build(k) ==
  /\ k \notin cached /\ clock < MaxClock
  /\ IF Size >= MaxClients THEN Evict(active, {k})
     ELSE cached' = cached \cup {k} /\ UNCHANGED doomed
  /\ client' = [client EXCEPT ![k] = made]
  /\ made' = made + 1
  /\ clock' = clock + 1
  /\ lastUsed' = [lastUsed EXCEPT ![k] = clock + 1]
  /\ active' = [active EXCEPT ![k] = 1]
  /\ held' = held \cup {Held(k, made)}
  /\ UNCHANGED <<pinned, closed>>

\* Bug: the entry is found by its key alone.
ReleasedByKey(h) ==
  IF h.key \in cached /\ active[h.key] > 0
    THEN [active EXCEPT ![h.key] = @ - 1]
    ELSE active

\* The reference counts once h is given back.
Released(h) ==
  IF h.key \in cached /\ client[h.key] = h.client /\ active[h.key] > 0
    THEN [active EXCEPT ![h.key] = @ - 1]
    ELSE active

\* Bug: nothing is trimmed on release.
ReleaseKeeps(h) ==
  /\ held' = held \ {h}
  /\ active' = Released(h)
  /\ UNCHANGED <<cached, client, lastUsed, pinned, clock, made, doomed, closed>>

(* releaseClient, run once: give the client back and trim one entry.       *)
Release(h) ==
  /\ held' = held \ {h}
  /\ active' = Released(h)
  /\ IF Size > MaxClients THEN Evict(Released(h), {}) ELSE UNCHANGED <<cached, doomed>>
  /\ UNCHANGED <<client, lastUsed, pinned, clock, made, closed>>

(* shutdownClient, after the mutex is released.                            *)
CloseVictim(x) ==
  /\ doomed' = doomed \ {x}
  /\ closed' = closed \cup {x}
  /\ UNCHANGED <<cached, client, lastUsed, pinned, active, clock, made, held>>

\* Bug: the entries stay in the map.
ShutdownKeepsEntries ==
  /\ cached # {}
  /\ closed' = closed \cup {client[k] : k \in cached}
  /\ UNCHANGED <<cached, client, lastUsed, pinned, active, clock, made, held, doomed>>

(* Adapter.Shutdown: close every cached client, whoever uses it.           *)
Shutdown ==
  /\ cached # {}
  /\ closed' = closed \cup {client[k] : k \in cached}
  /\ cached' = {} /\ pinned' = {}
  /\ UNCHANGED <<client, lastUsed, active, clock, made, held, doomed>>

Next ==
  \/ \E k \in Keys : Hit(k) \/ Build(k)
  \/ \E h \in held : Release(h)
  \/ \E x \in doomed : CloseVictim(x)
  \/ Shutdown

Spec == Init /\ [][Next]_vars

(* A call that has a client ends, and gives it back.                       *)
FairSpec == Spec /\ WF_vars(\E h \in held : Release(h))

-----------------------------------------------------------------------------
(* Properties.                                                             *)

Holders(k) == {h \in held : h.key = k /\ h.client = client[k]}

(* The reference count of a cached client is the number of calls that use  *)
(* it, also after Shutdown has replaced the client under the same key.     *)
CountsHolders == \A k \in cached : active[k] = Cardinality(Holders(k))

(* Eviction never takes a client that a call still uses ("releaseClient    *)
(* keeps eviction from shutting down a Bifrost worker pool while an        *)
(* HTTP/Realtime call still owns it").                                     *)
EvictionSparesHeld == \A h \in held : h.client \notin doomed

(* No client in the map has been evicted or shut down, so a hit returns a  *)
(* live one; and none is shut down twice.                                  *)
CachedAreOpen ==
  /\ \A k \in cached : client[k] \notin doomed \cup closed
  /\ doomed \cap closed = {}

(* The cache exceeds its bound only while every client that could be       *)
(* evicted is in use: no idle client outlives an overflow.                 *)
OverflowOnlyWhenBusy ==
  Size > MaxClients => \A k \in cached \ pinned : active[k] > 0

(* An overflow drains as the calls end.                                    *)
OverflowDrains == Size > MaxClients ~> Size <= MaxClients

-----------------------------------------------------------------------------
(* The inductive invariant.                                                *)

\* Clients are numbered in the order they are built, release functions too.
NumbersInv ==
  /\ \A k \in cached : client[k] < made
  /\ \A h \in held : h.client < made /\ h.id <= clock
  /\ \A x \in doomed \cup closed : x < made
  /\ \A h, i \in held : h.id = i.id => h = i
  /\ IsFiniteSet(held)

\* One client per entry, and a client handed out belongs to its key's entry
\* until Shutdown.
EntriesInv ==
  /\ \A j, k \in cached : client[j] = client[k] => j = k
  /\ \A h \in held, k \in cached : h.client = client[k] => h.key = k
  /\ \A h \in held : h.client \in closed \/ (h.key \in cached /\ client[h.key] = h.client)

CacheInv == /\ TypeOK /\ NumbersInv /\ EntriesInv
            /\ CountsHolders /\ EvictionSparesHeld /\ CachedAreOpen
            /\ OverflowOnlyWhenBusy
=============================================================================
