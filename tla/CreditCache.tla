----------------------------- MODULE CreditCache -----------------------------
(***************************************************************************)
(* Admission of AI calls that carry one Subscription Key: GizWay's cache   *)
(* of GizPay's Credit Check (admit, checkCredit, consumeLocalCredit,       *)
(* pruneCreditStates) with concurrent requests, and GizPay's answer        *)
(* (creditCheck) from a balance and a standing that change meanwhile.      *)
(* Entries of different keys share nothing but the mutex, so one key's     *)
(* entry is modelled.  A creditState object is named by the call that      *)
(* allocated it, and the wait channel of a load by the call that loads.    *)
(***************************************************************************)
EXTENDS Integers

CONSTANTS
  Calls,       \* the requests, each admitted at most once
  NoCall,      \* no object, no loader
  Cost,        \* Cost[c]: gross microcredits of the call
  Recheck,     \* recheck_after_seconds, in units of the clock
  Timeout,     \* HTTPClient.Timeout: the greatest age of an answer on arrival
  Skew,        \* how far GizPay's clock is ahead of GizWay's
  MinInt,      \* math.MinInt64
  Balances,    \* the balances GizPay may report
  MaxNow       \* bound: readings of the clock

ASSUME CallsAssumption == NoCall \notin Calls /\ Cost \in [Calls -> Nat]
ASSUME TimesAssumption ==
  Recheck \in Nat \ {0} /\ Timeout \in Nat /\ Skew \in Nat /\ MaxNow \in Nat
ASSUME IntAssumption ==
  /\ MinInt \in Int /\ MinInt < 0
  /\ Balances \subseteq {x \in Int : MinInt <= x /\ x < -MinInt}

VARIABLES
  \* GizWay
  entry,       \* the creditState in the map, or NoCall
  loader,      \* loader[s]: the call that is loading s (loading, wait), or NoCall
  available,   \* available[s]
  verdict,     \* admission.allowed of s: "allowed" or "denied"
  expires,     \* expires[s]
  \* the requests
  pc,          \* where each request stands in admit, or how it ended
  obj,         \* the state a loading request holds a pointer to
  on,          \* the load a waiting request waits for
  reply,       \* GizPay's answer to the request's Credit Check
  admittedAt,  \* history: when the request was admitted
  \* GizPay
  balance, standing, revokedAt,
  now

vars == <<entry, loader, available, verdict, expires, pc, obj, on, reply,
          admittedAt, balance, standing, revokedAt, now>>
stateVars  == <<entry, loader, available, verdict, expires>>
gizpayVars == <<balance, standing, revokedAt>>

Int64     == {x \in Int : MinInt <= x /\ x < -MinInt}
Objects   == Calls \cup {NoCall}
Verdicts  == {"allowed", "denied"}
Replies   == [kind : {"none", "invalid"} \cup Verdicts, available : Int64, at : Nat]
NoReply   == [kind |-> "none", available |-> 0, at |-> 0]

TypeOK ==
  /\ entry \in Objects
  /\ loader \in [Calls -> Objects]
  /\ available \in [Calls -> Int64]
  /\ verdict \in [Calls -> Verdicts]
  /\ expires \in [Calls -> Nat]
  /\ pc \in [Calls -> {"start", "waiting", "loading", "admitted", "denied", "failed", "done"}]
  /\ obj \in [Calls -> Objects] /\ on \in [Calls -> Objects]
  /\ reply \in [Calls -> Replies]
  /\ admittedAt \in [Calls -> Nat]
  /\ balance \in Int64 /\ standing \in {"active", "inactive", "revoked"}
  /\ revokedAt \in Nat /\ now \in Nat

Init ==
  /\ entry = NoCall
  /\ loader = [s \in Calls |-> NoCall]
  /\ available = [s \in Calls |-> 0] /\ verdict = [s \in Calls |-> "denied"]
  /\ expires = [s \in Calls |-> 0]
  /\ pc = [c \in Calls |-> "start"]
  /\ obj = [c \in Calls |-> NoCall] /\ on = [c \in Calls |-> NoCall]
  /\ reply = [c \in Calls |-> NoReply]
  /\ admittedAt = [c \in Calls |-> 0]
  /\ balance \in Balances /\ standing = "active" /\ revokedAt = 0
  /\ now = 0

Loading == entry # NoCall /\ loader[entry] # NoCall
Live    == entry # NoCall /\ loader[entry] = NoCall /\ now < expires[entry]

\* creditState.snapshot().allowed
Allowed(v, a) == v = "allowed" /\ a > 0

\* admit returns the snapshot; the handler goes on or answers credit_denied.
Answered(c, v, a) ==
  IF Allowed(v, a)
    THEN pc' = [pc EXCEPT ![c] = "admitted"] /\ admittedAt' = [admittedAt EXCEPT ![c] = now]
    ELSE pc' = [pc EXCEPT ![c] = "denied"] /\ UNCHANGED admittedAt

-----------------------------------------------------------------------------
(* admit.                                                                  *)

\* Bug: the entry is used whatever its age.
HitStale(c) ==
  /\ pc[c] = "start" /\ entry # NoCall /\ loader[entry] = NoCall
  /\ Answered(c, verdict[entry], available[entry])
  /\ UNCHANGED <<stateVars, obj, on, reply, gizpayVars, now>>

(* An entry that has not expired answers at once.                          *)
Hit(c) ==
  /\ pc[c] = "start" /\ Live
  /\ Answered(c, verdict[entry], available[entry])
  /\ UNCHANGED <<stateVars, obj, on, reply, gizpayVars, now>>

(* Another request is loading: wait for it.                                *)
Wait(c) ==
  /\ pc[c] = "start" /\ Loading
  /\ pc' = [pc EXCEPT ![c] = "waiting"]
  /\ on' = [on EXCEPT ![c] = loader[entry]]
  /\ UNCHANGED <<stateVars, obj, reply, admittedAt, gizpayVars, now>>

(* Allocate or reuse the state, mark it loading and ask GizPay.            *)
StartLoad(c) ==
  /\ pc[c] = "start" /\ ~Loading /\ ~Live
  /\ LET s == IF entry = NoCall THEN c ELSE entry IN
       /\ entry' = s
       /\ loader' = [loader EXCEPT ![s] = c]
       /\ obj' = [obj EXCEPT ![c] = s]
  /\ pc' = [pc EXCEPT ![c] = "loading"]
  /\ UNCHANGED <<available, verdict, expires, on, reply, admittedAt, gizpayVars, now>>

\* The wait channel is closed when its load has ended: look again.
Wake(c) ==
  /\ pc[c] = "waiting" /\ pc[on[c]] # "loading"
  /\ pc' = [pc EXCEPT ![c] = "start"]
  /\ on' = [on EXCEPT ![c] = NoCall]
  /\ UNCHANGED <<stateVars, obj, reply, admittedAt, gizpayVars, now>>

\* The waiting request is cancelled.
Cancel(c) ==
  /\ pc[c] = "waiting"
  /\ pc' = [pc EXCEPT ![c] = "failed"]
  /\ on' = [on EXCEPT ![c] = NoCall]
  /\ UNCHANGED <<stateVars, obj, reply, admittedAt, gizpayVars, now>>

(* GizPay's creditCheck: what it reads is the request's answer from then.  *)
Check(c) ==
  /\ pc[c] = "loading" /\ reply[c].kind = "none"
  /\ reply' = [reply EXCEPT ![c] =
       IF standing = "revoked" THEN [kind |-> "invalid", available |-> 0, at |-> now]
       ELSE IF standing = "active" /\ balance > 0
              THEN [kind |-> "allowed", available |-> balance, at |-> now]
              ELSE [kind |-> "denied", available |-> 0, at |-> now]]
  /\ UNCHANGED <<stateVars, pc, obj, on, admittedAt, gizpayVars, now>>

\* The request leaves checkCredit: its pointer and its answer are gone.
LoadEnded(c) == /\ obj' = [obj EXCEPT ![c] = NoCall]
                /\ reply' = [reply EXCEPT ![c] = NoReply]

(* The answer arrives in time: store it, release the waiters, and return   *)
(* the snapshot whether or not it has expired by now.  GizPay reads its    *)
(* clock (checked_at) some time after it has read the key and the balance. *)
FinishLoad(c) ==
  /\ pc[c] = "loading" /\ reply[c].kind \in Verdicts
  /\ now <= reply[c].at + Timeout
  /\ loader' = [loader EXCEPT ![obj[c]] = NoCall]
  /\ available' = [available EXCEPT ![obj[c]] = reply[c].available]
  /\ verdict' = [verdict EXCEPT ![obj[c]] = reply[c].kind]
  /\ \E stamp \in reply[c].at .. now :
       expires' = [expires EXCEPT ![obj[c]] = stamp + Skew + Recheck]
  /\ Answered(c, reply[c].kind, reply[c].available)
  /\ LoadEnded(c)
  /\ UNCHANGED <<entry, on, gizpayVars, now>>

\* Bug: the waiters are not released when the load fails.
LoadFailsSilently(c) ==
  /\ pc[c] = "loading" /\ reply[c].kind \notin Verdicts
  /\ pc' = [pc EXCEPT ![c] = "failed"]
  /\ UNCHANGED <<stateVars, obj, on, reply, admittedAt, gizpayVars, now>>

(* The check fails: an unknown or revoked key, a GizPay or network error,  *)
(* a timeout, or the loading request is itself cancelled.                  *)
LoadFails(c) ==
  /\ pc[c] = "loading"
  /\ loader' = [loader EXCEPT ![obj[c]] = NoCall]
  /\ entry' = IF entry = obj[c] THEN NoCall ELSE entry
  /\ pc' = [pc EXCEPT ![c] = "failed"]
  /\ LoadEnded(c)
  /\ UNCHANGED <<available, verdict, expires, on, admittedAt, gizpayVars, now>>

-----------------------------------------------------------------------------
(* After admission, and the cleanup worker.                                *)

\* Bug: the subtraction wraps around.
ConsumeWraps(c) ==
  /\ pc[c] = "admitted"
  /\ pc' = [pc EXCEPT ![c] = "done"]
  /\ IF entry # NoCall /\ Cost[c] > 0
       THEN LET left == ((available[entry] - Cost[c] - MinInt) % (-2 * MinInt)) + MinInt IN
            /\ available' = [available EXCEPT ![entry] = left]
            /\ verdict' = [verdict EXCEPT ![entry] = IF left <= 0 THEN "denied" ELSE @]
       ELSE UNCHANGED <<available, verdict>>
  /\ UNCHANGED <<entry, loader, expires, obj, on, reply, admittedAt, gizpayVars, now>>

(* consumeLocalCredit, once the call's gross is known.                     *)
Consume(c) ==
  /\ pc[c] = "admitted"
  /\ pc' = [pc EXCEPT ![c] = "done"]
  /\ IF entry # NoCall /\ Cost[c] > 0
       THEN LET left == IF available[entry] < MinInt + Cost[c] THEN MinInt
                        ELSE available[entry] - Cost[c] IN
            /\ available' = [available EXCEPT ![entry] = left]
            /\ verdict' = [verdict EXCEPT ![entry] = IF left <= 0 THEN "denied" ELSE @]
       ELSE UNCHANGED <<available, verdict>>
  /\ UNCHANGED <<entry, loader, expires, obj, on, reply, admittedAt, gizpayVars, now>>

\* The provider fails, or the usage cannot be rated: nothing is consumed.
NoUsage(c) ==
  /\ pc[c] = "admitted"
  /\ pc' = [pc EXCEPT ![c] = "done"]
  /\ UNCHANGED <<stateVars, obj, on, reply, admittedAt, gizpayVars, now>>

\* Bug: an entry that is being loaded is not spared.
PruneLoading ==
  /\ entry # NoCall /\ now >= expires[entry]
  /\ entry' = NoCall
  /\ UNCHANGED <<loader, available, verdict, expires, pc, obj, on, reply,
                 admittedAt, gizpayVars, now>>

(* pruneCreditStates.                                                      *)
Prune ==
  /\ entry # NoCall /\ loader[entry] = NoCall /\ now >= expires[entry]
  /\ entry' = NoCall
  /\ UNCHANGED <<loader, available, verdict, expires, pc, obj, on, reply,
                 admittedAt, gizpayVars, now>>

-----------------------------------------------------------------------------
(* GizPay: Charges and top-ups move the balance, the subscription or its   *)
(* product is switched off and on, the key is revoked for good.            *)

MoveBalance ==
  /\ balance' \in Balances \ {balance}
  /\ UNCHANGED <<stateVars, pc, obj, on, reply, admittedAt, standing, revokedAt, now>>

SwitchService ==
  /\ standing # "revoked"
  /\ standing' = IF standing = "active" THEN "inactive" ELSE "active"
  /\ UNCHANGED <<stateVars, pc, obj, on, reply, admittedAt, balance, revokedAt, now>>

Revoke ==
  /\ standing # "revoked"
  /\ standing' = "revoked" /\ revokedAt' = now
  /\ UNCHANGED <<stateVars, pc, obj, on, reply, admittedAt, balance, now>>

AdvanceClock ==
  /\ now < MaxNow
  /\ now' = now + 1
  /\ UNCHANGED <<stateVars, pc, obj, on, reply, admittedAt, gizpayVars>>

Admit(c)   == Hit(c) \/ Wait(c) \/ StartLoad(c)
EndLoad(c) == FinishLoad(c) \/ LoadFails(c)

Next ==
  \/ \E c \in Calls : \/ Admit(c) \/ Wake(c) \/ Cancel(c)
                      \/ Check(c) \/ EndLoad(c)
                      \/ Consume(c) \/ NoUsage(c)
  \/ Prune \/ MoveBalance \/ SwitchService \/ Revoke \/ AdvanceClock

Spec == Init /\ [][Next]_vars

(* A request's goroutine goes on when it can, and its Credit Check ends:   *)
(* HTTPClient has a timeout.  GizPay need not answer.                      *)
FairSpec == Spec /\ \A c \in Calls : /\ WF_vars(Admit(c)) /\ WF_vars(Wake(c))
                                     /\ WF_vars(EndLoad(c))

-----------------------------------------------------------------------------
(* Properties.                                                             *)

(* One Credit Check at a time: whatever expires, fails, is cancelled or is *)
(* pruned meanwhile, concurrent requests share the one in flight.          *)
SingleFlight ==
  \A c, d \in Calls : pc[c] = "loading" /\ pc[d] = "loading" => c = d

(* The request that loads holds the entry that is in the map: its answer   *)
(* is never stored into a state nobody can find.                           *)
LoaderOwnsEntry ==
  \A c \in Calls : pc[c] = "loading" =>
                     entry # NoCall /\ obj[c] = entry /\ loader[entry] = c

(* A revoked key is admitted only for as long as an answer may be on its   *)
(* way and then be cached: the timeout, the recheck interval and the skew. *)
RevocationBites ==
  standing = "revoked" =>
    \A c \in Calls : admittedAt[c] < revokedAt + Timeout + Skew + Recheck

(* Quota is given only by a Credit Check: consuming it, in any number of   *)
(* calls and down to the smallest integer, never makes it positive again   *)
(* nor lifts a denial.                                                     *)
QuotaOnlyShrinks ==
  [][\A s \in Calls :
       available'[s] > available[s] \/ (verdict[s] = "denied" /\ verdict'[s] = "allowed")
         => loader[s] # NoCall /\ loader'[s] = NoCall]_vars

(* Every request gets an answer: no failed, cancelled or superseded load   *)
(* leaves its waiters behind.                                              *)
EveryCallReturns ==
  \A c \in Calls : pc[c] = "start" ~> pc[c] \in {"admitted", "denied", "failed", "done"}

-----------------------------------------------------------------------------
(* The inductive invariant.                                                *)

\* A state's loader and the entry; an object exists only once its allocator ran.
LoadInv ==
  /\ LoaderOwnsEntry
  /\ \A s \in Calls : loader[s] # NoCall => pc[loader[s]] = "loading" /\ entry = s
  /\ \A c \in Calls : pc[c] \in {"start", "waiting"} => entry # c

\* What the cache and the answers on their way know of a revoked key.
FreshInv ==
  /\ \A c \in Calls : admittedAt[c] <= now /\ reply[c].at <= now
  /\ \A s \in Calls : expires[s] <= now + Skew + Recheck
  /\ revokedAt <= now
  /\ standing = "revoked" =>
       /\ \A s \in Calls : Allowed(verdict[s], available[s]) =>
                             expires[s] <= revokedAt + Timeout + Skew + Recheck
       /\ \A c \in Calls : reply[c].kind \in Verdicts => reply[c].at <= revokedAt
  /\ RevocationBites

AdmissionInv == TypeOK /\ LoadInv /\ FreshInv
=============================================================================
