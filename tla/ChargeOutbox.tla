---------------------------- MODULE ChargeOutbox ----------------------------
(***************************************************************************)
(* GizWay's billing of finished AI calls: the transaction that writes the  *)
(* AI Order and its Charge Outbox row (completeCall), the background       *)
(* worker that reports each row to GizPay (runOutbox, reportOutbox,        *)
(* markOutboxReported), a crash and restart of the process (New), and      *)
(* GizPay's Charge endpoint as the worker meets it over HTTP (createCharge *)
(* and getCharge), where a request may be lost, late, or answered with an  *)
(* error.                                                                  *)
(*                                                                         *)
(* An order stands for its ai_orders row, its charge_outbox row and its    *)
(* external_order_id; the amounts play no part in the control and are      *)
(* left to the Ledger module.                                              *)
(***************************************************************************)
EXTENDS Naturals, FiniteSets

CONSTANTS
  Orders,           \* the AI calls of the run, by external_order_id
  NoOrder,          \* the worker's order while it handles none
  Free,             \* calls rated at gross = 0
  OverCommission,   \* calls whose commission exceeds their gross
  Foreign,          \* external IDs that GizPay already holds a Charge for
  Rejected,         \* Charges GizPay never accepts (revoked key, inactive Merchant)
  BatchSize,        \* OutboxBatchSize
  AbandonAfter,     \* OutboxAbandonAfter, in units of the clock
  AmbiguousRemote,  \* may GizPay answer 5xx to a Charge it has committed?
  AmbiguousLocal,   \* may GizWay's own Commit fail although it took effect?
  MaxNow,           \* bound: readings of the clock
  MaxFaults         \* bound: failures injected in a behaviour

ASSUME OrdersAssumption ==
  /\ NoOrder \notin Orders
  /\ Free \subseteq Orders /\ OverCommission \subseteq Orders
  /\ Foreign \subseteq Orders /\ Rejected \subseteq Orders
ASSUME BoundsAssumption ==
  /\ BatchSize \in Nat \ {0} /\ AbandonAfter \in Nat
  /\ MaxNow \in Nat /\ MaxFaults \in Nat
ASSUME FlagsAssumption ==
  AmbiguousRemote \in BOOLEAN /\ AmbiguousLocal \in BOOLEAN

VARIABLES
  \* GizWay's database
  order,      \* ai_orders.status; "none" before the call, "unbilled" if no row
  outbox,     \* charge_outbox.status, or "none"
  recover,    \* charge_outbox.recover_duplicate: "uncertain" is true, "fresh" false
  createdAt,  \* charge_outbox.created_at
  credited,   \* times the commission was added to both earned_microcredits
  \* GizWay's worker
  pc,         \* where the worker stands; "down" when the process is not running
  todo,       \* the rest of the batch selected at the start of the tick
  cur,        \* the order being reported
  rec,        \* reportOutbox's local recoverDuplicate
  attempt,    \* the POST it last sent
  \* the network and GizPay
  posts,      \* POSTs that GizPay may still act on, or whose answer is awaited
  debits,     \* payg_charges rows per external_order_id
  \* the environment
  now, faults

localVars  == <<todo, cur, rec>>
rowVars    == <<order, outbox, recover, createdAt, credited>>
vars == <<order, outbox, recover, createdAt, credited, pc, todo, cur, rec,
          attempt, posts, debits, now, faults>>

OrderStatus  == {"none", "unbilled", "pending", "charged", "billing_failed"}
OutboxStatus == {"none", "pending", "sending", "reported", "abandoned"}
Bit          == {"fresh", "uncertain"}
Answers      == {"201", "409", "other"}
Stages       == {"sent", "checked"} \cup Answers
Post         == [n : Nat, order : Orders, stage : Stages]

TypeOK ==
  /\ order \in [Orders -> OrderStatus]
  /\ outbox \in [Orders -> OutboxStatus]
  /\ recover \in [Orders -> Bit]
  /\ createdAt \in [Orders -> Nat]
  /\ credited \in [Orders -> Nat]
  /\ pc \in {"down", "idle", "loop", "read", "await", "get", "mark"}
  /\ todo \in SUBSET Orders
  /\ cur \in Orders \cup {NoOrder}
  /\ pc \in {"read", "await", "get", "mark"} => cur \in Orders
  /\ rec \in Bit
  /\ attempt \in Nat
  /\ posts \in SUBSET Post
  /\ debits \in [Orders -> Nat]
  /\ now \in Nat
  /\ faults \in Nat

Init ==
  /\ order = [o \in Orders |-> "none"]
  /\ outbox = [o \in Orders |-> "none"]
  /\ recover = [o \in Orders |-> "fresh"]
  /\ createdAt = [o \in Orders |-> 0]
  /\ credited = [o \in Orders |-> 0]
  /\ pc = "idle"
  /\ todo = {} /\ cur = NoOrder /\ rec = "fresh"
  /\ attempt = 0
  /\ posts = {}
  /\ debits = [o \in Orders |-> IF o \in Foreign THEN 1 ELSE 0]
  /\ now = 0 /\ faults = 0

\* The environment injects one failure out of its budget.
Fault == faults < MaxFaults /\ faults' = faults + 1

\* A row the worker selects: status IN ('pending','sending').
Open(o) == outbox[o] \in {"pending", "sending"}

-----------------------------------------------------------------------------
(* The end of a billable call, in a request's own goroutine.               *)

(* completeCall, from a call that gross = 0 keeps out of billing to the    *)
(* commit of the AI Order with its Outbox row.                             *)
CompleteCall(o) ==
  /\ pc # "down" /\ order[o] = "none"
  /\ order' = [order EXCEPT ![o] =
       IF o \in Free THEN "unbilled"
       ELSE IF o \in OverCommission THEN "billing_failed" ELSE "pending"]
  /\ IF o \in Free \cup OverCommission
       THEN UNCHANGED <<outbox, createdAt>>
       ELSE /\ outbox' = [outbox EXCEPT ![o] = "pending"]
            /\ createdAt' = [createdAt EXCEPT ![o] = now]
  /\ UNCHANGED <<recover, credited, pc, localVars, attempt, posts, debits,
                 now, faults>>

(* Any write of completeCall's transaction fails: nothing is billed.       *)
CompleteCallFails(o) ==
  /\ pc # "down" /\ order[o] = "none" /\ o \notin Free
  /\ Fault
  /\ order' = [order EXCEPT ![o] = "unbilled"]
  /\ UNCHANGED <<outbox, recover, createdAt, credited, pc, localVars, attempt,
                 posts, debits, now>>

-----------------------------------------------------------------------------
(* The worker.                                                             *)

\* Bug: the abandoning UPDATE forgets the row's status.
ExpiredAnyStatus(o) == outbox[o] # "none" /\ createdAt[o] + AbandonAfter < now

Expired(o) == outbox[o] = "pending" /\ createdAt[o] + AbandonAfter < now

\* ORDER BY created_at LIMIT BatchSize, over the open rows S.
IsBatch(B, S) ==
  /\ B \subseteq S
  /\ \A b \in B, o \in S \ B : createdAt[b] <= createdAt[o]
  /\ B = S \/ Cardinality(B) = BatchSize
  /\ Cardinality(B) <= BatchSize

\* Bug: only 'pending' rows are selected.
TickPendingOnly ==
  /\ pc = "idle"
  /\ outbox' = [o \in Orders |-> IF Expired(o) THEN "abandoned" ELSE outbox[o]]
  /\ \E B \in SUBSET Orders :
       /\ IsBatch(B, {o \in Orders : outbox'[o] = "pending"})
       /\ todo' = B
       /\ pc' = IF B = {} THEN "idle" ELSE "loop"
  /\ UNCHANGED <<order, recover, createdAt, credited, cur, rec, attempt, posts,
                 debits, now, faults>>

(* One tick of runOutbox: give up on the old pending rows, then select the *)
(* oldest open ones.                                                       *)
Tick ==
  /\ pc = "idle"
  /\ outbox' = [o \in Orders |-> IF Expired(o) THEN "abandoned" ELSE outbox[o]]
  /\ \E B \in SUBSET Orders :
       /\ IsBatch(B, {o \in Orders : outbox'[o] \in {"pending", "sending"}})
       /\ todo' = B
       /\ pc' = IF B = {} THEN "idle" ELSE "loop"
  /\ UNCHANGED <<order, recover, createdAt, credited, cur, rec, attempt, posts,
                 debits, now, faults>>

(* The abandoning UPDATE fails, its error is ignored, the SELECT succeeds. *)
TickAbandonFails ==
  /\ pc = "idle" /\ Fault
  /\ \E B \in SUBSET Orders :
       /\ IsBatch(B, {o \in Orders : Open(o)})
       /\ todo' = B
       /\ pc' = IF B = {} THEN "idle" ELSE "loop"
  /\ UNCHANGED <<rowVars, cur, rec, attempt, posts, debits, now>>

(* The SELECT fails: nothing is reported until the next tick.              *)
TickSelectFails ==
  /\ pc = "idle" /\ Fault
  /\ outbox' = [o \in Orders |-> IF Expired(o) THEN "abandoned" ELSE outbox[o]]
  /\ UNCHANGED <<order, recover, createdAt, credited, pc, localVars, attempt,
                 posts, debits, now>>

(* reportOutbox up to the service token: pick the next row of the batch    *)
(* and keep a private copy of its recover_duplicate bit.                   *)
ReadRow(o) ==
  /\ pc = "loop" /\ o \in todo
  /\ \A q \in todo : createdAt[o] <= createdAt[q]
  /\ todo' = todo \ {o}
  /\ IF Open(o)
       THEN pc' = "read" /\ cur' = o /\ rec' = recover[o]
       ELSE UNCHANGED <<pc, cur, rec>>
  /\ UNCHANGED <<rowVars, attempt, posts, debits, now, faults>>

\* The batch is done: wait for the next tick.
EndBatch ==
  /\ pc = "loop" /\ todo = {}
  /\ pc' = "idle"
  /\ UNCHANGED <<rowVars, localVars, attempt, posts, debits, now, faults>>

\* reportOutbox returns.
Return == pc' = "loop" /\ cur' = NoOrder /\ rec' = "fresh" /\ UNCHANGED todo

\* Bug: the uncertainty is not persisted before the POST.
SendingForgetsBit == outbox' = [outbox EXCEPT ![cur] = "sending"] /\ UNCHANGED recover

\* status = 'sending', recover_duplicate = true for the row being reported.
Sending == /\ outbox' = [outbox EXCEPT ![cur] = "sending"]
           /\ recover' = [recover EXCEPT ![cur] = "uncertain"]

\* status = 'pending', recover_duplicate = bit, whatever the row's status.
Requeue(bit) == /\ outbox' = [outbox EXCEPT ![cur] = "pending"]
                /\ recover' = [recover EXCEPT ![cur] = bit]

PostIds == 1 .. MaxFaults + 1

\* The least number that no POST in flight has.
FreshPost(n) == /\ \A p \in posts : p.n # n
                /\ \A m \in 1 .. n - 1 : \E p \in posts : p.n = m

(* Persist the uncertainty, then send the POST.                            *)
SendPost(n) ==
  /\ pc = "read" /\ FreshPost(n)
  /\ IF Open(cur)
       THEN /\ Sending
            /\ posts' = posts \cup {[n |-> n, order |-> cur, stage |-> "sent"]}
            /\ attempt' = n
            /\ pc' = "await" /\ UNCHANGED localVars
       ELSE Return /\ UNCHANGED <<outbox, recover, posts, attempt>>
  /\ UNCHANGED <<order, createdAt, credited, debits, now, faults>>

(* No service token, or the UPDATE to 'sending' reports an error: nothing  *)
(* is sent.                                                                *)
SendFails ==
  /\ pc = "read" /\ Fault
  /\ UNCHANGED <<outbox, recover>> \/ (AmbiguousLocal /\ Sending)
  /\ Return
  /\ UNCHANGED <<order, createdAt, credited, attempt, posts, debits, now>>

\* The POST the worker is waiting for.
Waiting(p) == pc = "await" /\ p.n = attempt

\* Bug: a transport error is taken for a definitive failure.
TransportErrorForgets ==
  /\ pc = "await"
  /\ \/ (\A p \in posts : p.n # attempt) /\ Requeue("fresh") /\ UNCHANGED faults
     \/ Fault /\ (Requeue("fresh") \/ UNCHANGED <<outbox, recover>>)
  /\ posts' = {p \in posts : ~(p.n = attempt /\ p.stage \in Answers)}
  /\ Return
  /\ UNCHANGED <<order, createdAt, credited, attempt, debits, now>>

(* HTTPClient.Do fails: the request was lost, or it is too late to answer  *)
(* and GizPay may still act on it.                                         *)
TransportError ==
  /\ pc = "await"
  /\ \/ (\A p \in posts : p.n # attempt) /\ Requeue("uncertain") /\ UNCHANGED faults
     \/ Fault /\ (Requeue("uncertain") \/ UNCHANGED <<outbox, recover>>)
  /\ posts' = {p \in posts : ~(p.n = attempt /\ p.stage \in Answers)}
  /\ Return
  /\ UNCHANGED <<order, createdAt, credited, attempt, debits, now>>

\* The worker takes the answer a to its POST.
Receive(a) == \E p \in posts : /\ Waiting(p) /\ p.stage = a
                               /\ posts' = posts \ {p}

(* 201: GizPay created the Charge.                                         *)
OnCreated ==
  /\ Receive("201")
  /\ pc' = "mark"
  /\ UNCHANGED <<rowVars, localVars, attempt, debits, now, faults>>

(* 409 to a row that had no earlier POST in doubt: one statement abandons  *)
(* the row and fails the order.                                            *)
FailOrder == /\ outbox' = [outbox EXCEPT ![cur] = "abandoned"]
             /\ recover' = [recover EXCEPT ![cur] = "fresh"]
             /\ order' = [order EXCEPT ![cur] = "billing_failed"]

OnFreshConflict ==
  /\ rec = "fresh" /\ Receive("409")
  /\ \/ FailOrder /\ UNCHANGED faults
     \/ /\ Fault
        /\ \/ Requeue("fresh") /\ UNCHANGED order
           \/ UNCHANGED <<outbox, recover, order>>
           \/ /\ AmbiguousLocal /\ Requeue("fresh")
              /\ order' = [order EXCEPT ![cur] = "billing_failed"]
  /\ Return
  /\ UNCHANGED <<createdAt, credited, attempt, debits, now>>

(* 409 to a row whose earlier POST may have committed: ask GizPay for it.  *)
OnRecoveryConflict ==
  /\ rec = "uncertain" /\ Receive("409")
  /\ pc' = "get"
  /\ UNCHANGED <<rowVars, localVars, attempt, debits, now, faults>>

\* Bug: any answer counts as success.
OnRejectedReports ==
  /\ Receive("other")
  /\ pc' = "mark"
  /\ UNCHANGED <<rowVars, localVars, attempt, debits, now, faults>>

(* Any other status: retry later with the bit as it was read.              *)
OnRejected ==
  /\ Receive("other")
  /\ \/ Requeue(rec) /\ UNCHANGED faults
     \/ UNCHANGED <<outbox, recover>> /\ Fault
  /\ Return
  /\ UNCHANGED <<order, createdAt, credited, attempt, debits, now>>

(* The recovery GET answers 200.                                           *)
GetFound ==
  /\ pc = "get" /\ debits[cur] > 0
  /\ pc' = "mark"
  /\ UNCHANGED <<rowVars, localVars, attempt, posts, debits, now, faults>>

(* The recovery GET fails, or answers anything but 200.                    *)
GetFails ==
  /\ pc = "get"
  /\ IF debits[cur] > 0 THEN Fault ELSE UNCHANGED faults
  /\ Requeue("uncertain") \/ Requeue(rec) \/ UNCHANGED <<outbox, recover>>
  /\ Return
  /\ UNCHANGED <<order, createdAt, credited, attempt, posts, debits, now>>

\* markOutboxReported's writes other than the outbox row's.
ChargeOrder == /\ order' = [order EXCEPT ![cur] = "charged"]
               /\ credited' = [credited EXCEPT ![cur] = @ + 1]

(* markOutboxReported commits: the row is reported, the order charged, the *)
(* commission added to both earned totals.                                 *)
MarkReported ==
  /\ pc = "mark" /\ Open(cur)
  /\ outbox' = [outbox EXCEPT ![cur] = "reported"]
  /\ recover' = [recover EXCEPT ![cur] = "fresh"]
  /\ ChargeOrder
  /\ Return
  /\ UNCHANGED <<createdAt, attempt, posts, debits, now, faults>>

\* Bug: the writes of markOutboxReported are not one transaction.
MarkFailsHalfway ==
  /\ pc = "mark" /\ Fault
  /\ credited' = [credited EXCEPT ![cur] = @ + 1]
  /\ Requeue("uncertain") /\ UNCHANGED order
  /\ Return
  /\ UNCHANGED <<createdAt, attempt, posts, debits, now>>

(* markOutboxReported returns an error: the row goes back to 'pending'     *)
(* with the recovery bit, whether or not the transaction took effect.      *)
MarkFails ==
  /\ pc = "mark"
  /\ IF Open(cur) THEN Fault ELSE UNCHANGED faults
  /\ \/ /\ Requeue("uncertain") \/ UNCHANGED <<outbox, recover>>
        /\ UNCHANGED <<order, credited>>
     \/ AmbiguousLocal /\ Open(cur) /\ ChargeOrder /\ Requeue("uncertain")
  /\ Return
  /\ UNCHANGED <<createdAt, attempt, posts, debits, now>>

-----------------------------------------------------------------------------
(* GizPay's POST /service/v1/payg-charges, as a function of what it        *)
(* answers; nobody reads the answer to a POST the worker gave up on.       *)

Answer(p, a) ==
  posts' = (posts \ {p}) \cup (IF Waiting(p) THEN {[p EXCEPT !.stage = a]} ELSE {})

gizwayVars == <<rowVars, pc, localVars, attempt>>

(* createCharge's first look for a duplicate, whose error is ignored.      *)
Precheck(p) ==
  /\ p.stage = "sent"
  /\ \/ debits[p.order] > 0 /\ Answer(p, "409") /\ UNCHANGED faults
     \/ /\ IF debits[p.order] = 0 THEN UNCHANGED faults ELSE Fault
        /\ posts' = (posts \ {p}) \cup {[p EXCEPT !.stage = "checked"]}
  /\ UNCHANGED <<gizwayVars, debits, now>>

(* createCharge returns 4xx or 5xx and its transaction rolls back.         *)
Reject(p) ==
  /\ p.stage \in {"sent", "checked"}
  /\ Answer(p, "other")
  /\ IF p.order \in Rejected THEN p.stage = "checked" /\ UNCHANGED faults ELSE Fault
  /\ UNCHANGED <<gizwayVars, debits, now>>

\* Bug: external_order_id is not UNIQUE; only the first look guards it.
CommitChargeNotUnique(p) ==
  /\ p.stage = "checked" /\ p.order \notin Rejected
  /\ debits' = [debits EXCEPT ![p.order] = @ + 1]
  /\ Answer(p, "201")
  /\ UNCHANGED <<gizwayVars, faults, now>>

(* createCharge inserts the Charge, UNIQUE (external_order_id), and        *)
(* commits; when Commit reports an error the Charge may exist all the same.*)
CommitCharge(p) ==
  /\ p.stage = "checked" /\ p.order \notin Rejected
  /\ IF debits[p.order] > 0
       THEN Answer(p, "409") /\ UNCHANGED <<debits, faults>>
       ELSE /\ debits' = [debits EXCEPT ![p.order] = @ + 1]
            /\ \/ Answer(p, "201") /\ UNCHANGED faults
               \/ AmbiguousRemote /\ Fault /\ Answer(p, "other")
  /\ UNCHANGED <<gizwayVars, now>>

(* The POST never arrives, or GizPay stops on it when the client is gone.  *)
Lose(p) ==
  /\ p.stage \in {"sent", "checked"}
  /\ Fault
  /\ posts' = posts \ {p}
  /\ UNCHANGED <<gizwayVars, debits, now>>

-----------------------------------------------------------------------------
(* The process and the clock.                                              *)

Crash ==
  /\ pc # "down" /\ Fault
  /\ pc' = "down" /\ todo' = {} /\ cur' = NoOrder /\ rec' = "fresh"
  /\ posts' = {p \in posts : p.stage \notin Answers}
  /\ UNCHANGED <<rowVars, attempt, debits, now>>

(* New: rows left 'sending' may have been charged.                         *)
Restart ==
  /\ pc = "down"
  /\ outbox' = [o \in Orders |-> IF outbox[o] = "sending" THEN "pending" ELSE outbox[o]]
  /\ recover' = [o \in Orders |-> IF outbox[o] = "sending" THEN "uncertain" ELSE recover[o]]
  /\ pc' = "idle"
  /\ UNCHANGED <<order, createdAt, credited, localVars, attempt, posts, debits,
                 now, faults>>

\* New's UPDATE fails; its error is ignored.
RestartUpdateFails ==
  /\ pc = "down" /\ Fault
  /\ pc' = "idle"
  /\ UNCHANGED <<rowVars, localVars, attempt, posts, debits, now>>

AdvanceClock ==
  /\ now < MaxNow
  /\ now' = now + 1
  /\ UNCHANGED <<gizwayVars, posts, debits, faults>>

-----------------------------------------------------------------------------
Calls == \E o \in Orders : CompleteCall(o) \/ CompleteCallFails(o)

Worker ==
  \/ Tick \/ TickAbandonFails \/ TickSelectFails \/ EndBatch
  \/ \E o \in Orders : ReadRow(o)
  \/ \E n \in PostIds : SendPost(n)
  \/ SendFails \/ TransportError
  \/ OnCreated \/ OnFreshConflict \/ OnRecoveryConflict \/ OnRejected
  \/ GetFound \/ GetFails \/ MarkReported \/ MarkFails

GizPay == \E p \in posts : Precheck(p) \/ Reject(p) \/ CommitCharge(p)

Process == Crash \/ Restart \/ RestartUpdateFails

Next == Calls \/ Worker \/ GizPay \/ (\E p \in posts : Lose(p)) \/ Process
        \/ AdvanceClock

Spec == Init /\ [][Next]_vars

(* The worker's goroutine is never blocked for good, GizPay answers what   *)
(* it received, a crashed process is started again and time passes.  No    *)
(* fairness is asked of calls, losses, crashes or any other failure.       *)
Fairness == /\ WF_vars(Worker) /\ WF_vars(GizPay)
            /\ WF_vars(Restart \/ RestartUpdateFails)
            /\ WF_vars(AdvanceClock)

FairSpec == Spec /\ Fairness

-----------------------------------------------------------------------------
(* Properties.                                                             *)

(* The payer is debited at most once for an order, however many POSTs of   *)
(* it reach GizPay and in whatever order they overlap.                     *)
ChargedAtMostOnce == \A o \in Orders : debits[o] <= 1

(* An order marked charged, or an Outbox row marked reported, has a Charge *)
(* in GizPay: neither a retry nor a recovery reports one that is missing.  *)
ReportedIsCharged ==
  \A o \in Orders :
    outbox[o] = "reported" \/ order[o] = "charged" => debits[o] = 1

(* The provider key earns the commission exactly once for a charged order  *)
(* and never for another: markOutboxReported is neither skipped nor        *)
(* repeated by the retries around it.                                      *)
EarnedOncePerCharge ==
  \A o \in Orders : credited[o] = (IF order[o] = "charged" THEN 1 ELSE 0)

(* While GizPay may have charged an order, or may still charge it, an open *)
(* Outbox row carries the recovery bit, so that no later 409 is taken for  *)
(* a fresh business conflict.                                              *)
MayBeCharged(o) ==
  \/ debits[o] > 0 /\ o \notin Foreign
  \/ \E p \in posts : p.order = o /\ p.stage \in {"sent", "checked"}

UncertaintyPersisted ==
  \A o \in Orders : Open(o) /\ MayBeCharged(o) => recover[o] = "uncertain"

(* An order that ends billing_failed was not paid for under its own ID.    *)
FailedIsNotCharged ==
  \A o \in Orders \ Foreign : order[o] = "billing_failed" => debits[o] = 0

(* Reported and abandoned rows are never opened again, and a charged or    *)
(* failed order keeps its status.                                          *)
SettledIsFinal ==
  [][\A o \in Orders :
       /\ outbox[o] \in {"reported", "abandoned"} => outbox'[o] = outbox[o]
       /\ order[o] \in {"charged", "billing_failed"} => order'[o] = order[o]]_vars

(* The provider, the worker and GizPay implement the abstract Billing.     *)
BillingSpec == INSTANCE Billing
                 WITH Orders <- Orders, debits <- debits, credited <- credited
ImplementsBilling == BillingSpec!Spec

(* When fewer rows that GizPay never accepts are queued than a batch holds *)
(* and none gets old, every other order is eventually charged: the         *)
(* oldest-first batch does not starve it, and neither crashes nor lost     *)
(* answers strand it.  An ambiguous Commit of GizPay may still fail it.    *)
HealthyOrdersAreCharged ==
  \A o \in Orders \ (Rejected \cup Foreign \cup OverCommission) :
    order[o] = "pending" ~>
      order[o] = "charged" \/ (AmbiguousRemote /\ order[o] = "billing_failed" /\ debits[o] = 1)

-----------------------------------------------------------------------------
(* The inductive invariant behind the safety properties, in parts.         *)

\* POSTs have distinct numbers; only the one waited for has been answered.
PostsInv ==
  /\ \A p, q \in posts : p.n = q.n => p = q
  /\ \A p \in posts : p.stage \in Answers => Waiting(p)
  /\ \A p \in posts : Waiting(p) => p.order = cur

\* What the worker knows of the row it handles, and that no row comes early.
WorkerInv ==
  /\ \A o \in Orders : order[o] \in {"none", "unbilled"} => outbox[o] = "none"
  /\ pc = "read" => Open(cur) /\ recover[cur] = rec
  /\ pc \in {"await", "get", "mark"} => outbox[cur] = "sending" /\ recover[cur] = "uncertain"
  /\ pc = "get" => rec = "uncertain"

\* Every sign of success the worker can see comes from a Charge.
ChargeInv ==
  /\ \A o \in Orders : debits[o] \in {0, 1}
  /\ \A p \in posts : p.stage \in {"201", "409"} => debits[p.order] = 1
  /\ pc \in {"get", "mark"} => debits[cur] = 1
  /\ ReportedIsCharged

SafetyInv == TypeOK /\ PostsInv /\ WorkerInv /\ ChargeInv

\* The Outbox row and the order agree, when a failed Commit has no effect.
RowsInv ==
  /\ EarnedOncePerCharge
  /\ \A o \in Orders :
       /\ Open(o) => order[o] = "pending"
       /\ outbox[o] = "reported" <=> order[o] = "charged"

\* The recovery bit, when an error answer means that nothing was charged.
UncertaintyInv ==
  /\ UncertaintyPersisted
  /\ \A o \in Orders : outbox[o] = "none" => ~MayBeCharged(o)
  /\ \A o \in Orders \ Foreign : order[o] = "billing_failed" => outbox[o] = "none"
  /\ pc = "await" /\ rec = "fresh" =>
       /\ \A p \in posts : p.order = cur => p.n = attempt
       /\ cur \notin Foreign /\ debits[cur] > 0 =>
            \E p \in posts : p.n = attempt /\ p.stage = "201"

\* The parts together, for the runs where neither Commit is ambiguous.
InductiveInv == SafetyInv /\ RowsInv /\ UncertaintyInv
=============================================================================
