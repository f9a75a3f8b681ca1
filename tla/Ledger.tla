------------------------------- MODULE Ledger -------------------------------
(***************************************************************************)
(* GizPay's ledger under concurrent requests: Charges (createCharge),      *)
(* top-ups (accountTopups), merchants switched off and on, and keys        *)
(* revoked.  Every request runs one PostgreSQL transaction, READ           *)
(* COMMITTED, that takes its locks one after the other, writes the ledger  *)
(* entries and the balances the clients see, and commits or rolls back.    *)
(*                                                                         *)
(* A transaction is the sequence of its steps that wait for a lock or read *)
(* what others write.  What it inserts and nobody can wait for (entries,   *)
(* commissions, transaction projections) becomes visible when it commits.  *)
(***************************************************************************)
EXTENDS Integers, Sequences, FiniteSets, SequencesExt, FiniteSetsExt

CONSTANTS
  Requests,    \* the requests, each sent once; a retry is another one
  Scenarios,   \* bound: the sets of requests that are sent together
  Req,         \* Req[r]: the body of r, validated but for its commissions
  Accounts,    \* owned accounts
  Merchants, Settle,      \* merchants, and their settlement accounts
  Keys, Payer, Main,      \* subscription keys, their payers, their products' merchants
  PlatformFeeBPS,         \* basis points of a Charge's gross
  Switchable,  \* bound: the merchants that are switched
  Revocable,   \* bound: the keys that are revoked
  MaxNow       \* bound: readings of the clock

(* A Charge names its commissions in the order of the request.             *)
ASSUME RequestsAssumption ==
  \A r \in Requests :
    \/ /\ Req[r].kind = "charge" /\ Req[r].key \in Keys
       /\ Req[r].gross \in Nat \ {0}
       /\ Req[r].commissions \in Seq([merchant : Merchants, amount : Nat])
    \/ /\ Req[r].kind = "topup" /\ Req[r].account \in Accounts
       /\ Req[r].amount \in Nat \ {0}
ASSUME OwnersAssumption ==
  /\ Settle \in [Merchants -> Accounts]
  /\ Payer \in [Keys -> Accounts] /\ Main \in [Keys -> Merchants]
\* led_clearing and led_platform_fee are nobody's.
ASSUME SystemAssumption == "clearing" \notin Accounts /\ "platform_fee" \notin Accounts
ASSUME BoundsAssumption ==
  /\ PlatformFeeBPS \in 0 .. 10000 /\ MaxNow \in Nat
  /\ Switchable \subseteq Merchants /\ Revocable \subseteq Keys

VARIABLES
  pc,         \* where a request stands: "new", "resolve", "work", "done"
  at,         \* at[r]: the steps its transaction has taken, with their locks
  written,    \* written[r]: the balances its transaction has written
  started,    \* service_started_at of a Charge
  result,     \* how the request was answered
  committed,  \* the requests whose transaction has committed
  balance,    \* client_sync.account_balances, as committed
  active,     \* the merchants whose status is active
  key,        \* status of a key; "revoking": its revoked_at is chosen, not written
  revokedAt,  \* revoked_at of a key
  writtenAt,  \* history: when the revocation was written
  now

vars == <<pc, at, written, started, result, committed, balance, active, key,
          revokedAt, writtenAt, now>>
requestVars == <<pc, at, written, started, result>>
keyVars     == <<key, revokedAt, writtenAt>>

Charges == {r \in Requests : Req[r].kind = "charge"}
Topups  == {r \in Requests : Req[r].kind = "topup"}

-----------------------------------------------------------------------------
(* The money of a request.                                                 *)

CommissionSum(r) ==
  SumFunction([i \in DOMAIN Req[r].commissions |-> Req[r].commissions[i].amount])

\* commission validation: no beneficiary twice, never more than the gross.
ValidCommissions(r) ==
  LET cs == Req[r].commissions IN
  /\ \A i, j \in DOMAIN cs : cs[i].merchant = cs[j].merchant => i = j
  /\ CommissionSum(r) <= Req[r].gross

PlatformFee(gross, basisPoints) ==
  (gross \div 10000) * basisPoints + ((gross % 10000) * basisPoints + 9999) \div 10000

Fee(r) == PlatformFee(Req[r].gross, PlatformFeeBPS)

\* What is left to the product's merchant; it may be negative.
MainNet(r) == Req[r].gross - CommissionSum(r) - Fee(r)

Entry(account, amount) == [account |-> account, amount |-> amount]

\* Credits (positive) and debits (negative) per account, as projected to balances.
Projected(r) ==
  IF r \in Topups THEN <<Entry(Req[r].account, Req[r].amount)>>
  ELSE LET k == Req[r].key
           cs == Req[r].commissions IN
       <<Entry(Payer[k], -Req[r].gross), Entry(Settle[Main[k]], MainNet(r))>>
       \o [i \in DOMAIN cs |-> Entry(Settle[cs[i].merchant], cs[i].amount)]

\* Bug: a negative net of the main merchant is not posted.
LedgerEntriesNoDebit(r) ==
  IF r \in Topups
    THEN <<Entry("clearing", -Req[r].amount), Entry(Req[r].account, Req[r].amount)>>
    ELSE SelectSeq(Projected(r), LAMBDA e : e.amount > 0 \/ e.amount = -Req[r].gross)
         \o <<Entry("platform_fee", Fee(r))>>

\* What postLedger, and a top-up, hand to insertEntry, in order.
HandedIn(r) ==
  IF r \in Topups THEN <<Entry("clearing", -Req[r].amount)>> \o Projected(r)
  ELSE Projected(r) \o <<Entry("platform_fee", Fee(r))>>

\* insertEntry skips a zero: the entries, by their place in that order.
LedgerEntries(r) ==
  LET es == HandedIn(r) IN [i \in {j \in DOMAIN es : es[j].amount # 0} |-> es[i]]

Net(entries, a) ==
  SumFunction([i \in DOMAIN entries |-> IF entries[i].account = a THEN entries[i].amount ELSE 0])

\* The view account_balances: what the posted entries say of account a.
NetOf == [r \in Requests |-> [a \in Accounts |-> Net(LedgerEntries(r), a)]]
Posted(a) == SumFunctionOnSet([r \in Requests |-> NetOf[r][a]], committed)

-----------------------------------------------------------------------------
(* The steps of a transaction.                                             *)

Step(kind, locks) == [kind |-> kind, locks |-> locks, account |-> "none", amount |-> 0]

\* Bug: the balance is read, and written back later, without the row's lock.
BalanceStepUnlocked(e) == [kind |-> "balance", locks |-> {},
                           account |-> e.account, amount |-> e.amount]

\* UPDATE account_balances SET balance = balance + amount.
BalanceStep(e) == [kind |-> "balance", locks |-> {<<"balance", e.account>>},
                   account |-> e.account, amount |-> e.amount]

BalanceSteps(r) == LET es == Projected(r) IN [i \in DOMAIN es |-> BalanceStep(es[i])]

\* createCharge from the payer's advisory lock on.
ChargeSteps(r) ==
  <<Step("lock", {<<"payer", Payer[Req[r].key]>>}),
    Step("merchants", {}),
    Step("insert", {<<"order", Req[r].id>>}),
    Step("last_used", {<<"key", Req[r].key>>})>>
  \o BalanceSteps(r)

\* Bug: no advisory locks, only the UNIQUE constraints.
TopupStepsUnlocked(r) ==
  <<Step("lookup", {}),
    Step("insert", {<<"topup", Req[r].id>>, <<"reference", Req[r].ref>>})>>
  \o BalanceSteps(r)

\* accountTopups from its first advisory lock on.
TopupSteps(r) ==
  <<Step("lock", {<<"topup-id", Req[r].id>>}),
    Step("lock", {<<"topup-ref", Req[r].ref>>}),
    Step("lookup", {}),
    Step("insert", {<<"topup", Req[r].id>>, <<"reference", Req[r].ref>>})>>
  \o BalanceSteps(r)

Steps == [r \in Requests |-> IF r \in Charges THEN ChargeSteps(r) ELSE TopupSteps(r)]

\* Locks last until the transaction ends: those r has after n steps.
LocksAfter == [r \in Requests |-> [n \in 0 .. Len(Steps[r]) |->
                                     UNION {Steps[r][i].locks : i \in 1 .. n}]]
Locks(r) == LocksAfter[r][at[r]]

CanStep(r) == pc[r] = "work" /\ at[r] < Len(Steps[r])
NextStep(r) == Steps[r][at[r] + 1]

\* The requests r waits for.
Blockers(r) == IF CanStep(r) THEN {q \in Requests \ {r} : Locks(q) \cap NextStep(r).locks # {}}
               ELSE {}

-----------------------------------------------------------------------------
TypeOK ==
  /\ pc \in [Requests -> {"new", "resolve", "work", "done"}]
  /\ \A r \in Requests : at[r] \in 0 .. Len(Steps[r]) /\ (at[r] > 0 => pc[r] = "work")
  /\ \A r \in Requests : /\ DOMAIN written[r] \subseteq Accounts
                         /\ \A a \in DOMAIN written[r] : written[r][a] \in Int
  /\ started \in [Requests -> 0 .. MaxNow]
  /\ result \in [Requests -> {"none", "created", "repeated", "conflict", "rejected", "error"}]
  /\ committed \subseteq Requests
  /\ balance \in [Accounts -> Int]
  /\ active \subseteq Merchants
  /\ key \in [Keys -> {"active", "revoking", "revoked"}]
  /\ revokedAt \in [Keys -> 0 .. MaxNow] /\ writtenAt \in [Keys -> 0 .. MaxNow]
  /\ now \in 0 .. MaxNow

NothingWritten == [a \in {} |-> 0]

Init ==
  /\ \E sent \in Scenarios : pc = [r \in Requests |-> IF r \in sent THEN "new" ELSE "done"]
  /\ at = [r \in Requests |-> 0]
  /\ written = [r \in Requests |-> NothingWritten]
  /\ started = [r \in Requests |-> 0]
  /\ result = [r \in Requests |-> "none"]
  /\ committed = {}
  /\ balance = [a \in Accounts |-> 0]
  /\ active = Merchants
  /\ key = [k \in Keys |-> "active"]
  /\ revokedAt = [k \in Keys |-> 0] /\ writtenAt = [k \in Keys |-> 0]
  /\ now = 0

\* Bug: the transaction is left open when the request is answered.
EndLeaky(r, how) == /\ pc' = [pc EXCEPT ![r] = "done"]
                    /\ result' = [result EXCEPT ![r] = how]
                    /\ UNCHANGED <<at, written>>

\* The request is answered; Commit, or the deferred Rollback, ends its transaction.
End(r, how) == /\ pc' = [pc EXCEPT ![r] = "done"]
               /\ result' = [result EXCEPT ![r] = how]
               /\ at' = [at EXCEPT ![r] = 0]
               /\ written' = [written EXCEPT ![r] = NothingWritten]

\* The request goes on to its next step.
Go(r) == at' = [at EXCEPT ![r] = @ + 1] /\ UNCHANGED <<pc, result>>

SameId(r)  == {q \in committed : Req[q].kind = Req[r].kind /\ Req[q].id = Req[r].id}
SameRef(r) == {q \in committed : q \in Topups /\ Req[q].ref = Req[r].ref}

-----------------------------------------------------------------------------
(* A Charge arrives for a service that has run; the commissions are        *)
(* validated and the order ID is looked up, an error of which is ignored.  *)
BeginCharge(r) ==
  /\ r \in Charges /\ pc[r] = "new"
  /\ \E s \in 0 .. now : started' = [started EXCEPT ![r] = s]
  /\ \/ ~ValidCommissions(r) /\ End(r, "rejected")
     \/ ValidCommissions(r) /\ SameId(r) # {} /\ End(r, "conflict")
     \/ /\ ValidCommissions(r)
        /\ pc' = [pc EXCEPT ![r] = "resolve"] /\ UNCHANGED <<at, written, result>>
  /\ UNCHANGED <<committed, balance, active, keyVars, now>>

\* Bug: a revoked key is accepted whenever the service ran.
ResolveAnyTime(r) ==
  /\ pc[r] = "resolve"
  /\ IF Main[Req[r].key] \in active
       THEN pc' = [pc EXCEPT ![r] = "work"] /\ UNCHANGED <<at, written, result>>
       ELSE End(r, "rejected")
  /\ UNCHANGED <<started, committed, balance, active, keyVars, now>>

(* The transaction begins: the key must be active, or have been when the   *)
(* service started; the product's merchant must be active and is locked    *)
(* FOR SHARE from here on.                                                 *)
Resolve(r) ==
  /\ pc[r] = "resolve"
  /\ LET k == Req[r].key IN
     IF /\ key[k] # "revoked" \/ started[r] <= revokedAt[k]
        /\ Main[k] \in active
       THEN pc' = [pc EXCEPT ![r] = "work"] /\ UNCHANGED <<at, written, result>>
       ELSE End(r, "rejected")
  /\ UNCHANGED <<started, committed, balance, active, keyVars, now>>

\* Answer to a top-up whose ID exists: a repetition or a conflict.
Repeated(r) == IF \E q \in SameId(r) : Req[q] = Req[r] THEN "repeated" ELSE "conflict"

(* A top-up arrives; its ID is looked up before and inside the transaction.*)
BeginTopup(r) ==
  /\ r \in Topups /\ pc[r] = "new"
  /\ IF SameId(r) # {} THEN End(r, Repeated(r))
     ELSE pc' = [pc EXCEPT ![r] = "work"] /\ UNCHANGED <<at, written, result>>
  /\ UNCHANGED <<started, committed, balance, active, keyVars, now>>

-----------------------------------------------------------------------------
(* The steps, each once its locks are free.                                *)

Ready(r, kind) == CanStep(r) /\ NextStep(r).kind = kind /\ Blockers(r) = {}
unstepped == <<started, committed, balance, active, keyVars, now>>

\* An advisory lock, and the key's row for last_used_at.
TakeLock(r) ==
  /\ Ready(r, "lock") \/ Ready(r, "last_used")
  /\ Go(r)
  /\ UNCHANGED <<written, unstepped>>

(* The commissions' merchants are read, and not locked.                    *)
ReadMerchants(r) ==
  /\ Ready(r, "merchants")
  /\ LET cs == Req[r].commissions IN
     IF \A i \in DOMAIN cs : cs[i].merchant \in active
       THEN Go(r) /\ UNCHANGED written
       ELSE End(r, "rejected")
  /\ UNCHANGED unstepped

(* The second lookup of a top-up.                                          *)
Lookup(r) ==
  /\ Ready(r, "lookup")
  /\ IF SameId(r) # {} THEN End(r, Repeated(r))
     ELSE IF SameRef(r) # {} THEN End(r, "conflict") ELSE Go(r) /\ UNCHANGED written
  /\ UNCHANGED unstepped

(* The row with the UNIQUE external order ID, top-up ID or reference; the  *)
(* INSERT has waited for other transactions that insert the same.          *)
Insert(r) ==
  /\ Ready(r, "insert")
  /\ IF SameId(r) # {} \/ (r \in Topups /\ SameRef(r) # {})
       THEN End(r, "conflict")
       ELSE Go(r) /\ UNCHANGED written
  /\ UNCHANGED unstepped

(* One balance is updated, from what is committed or written here before.  *)
UpdateBalance(r) ==
  /\ Ready(r, "balance")
  /\ LET a   == NextStep(r).account
         old == IF a \in DOMAIN written[r] THEN written[r][a] ELSE balance[a] IN
     written' = [written EXCEPT ![r] =
       [b \in DOMAIN @ \cup {a} |-> IF b = a THEN old + NextStep(r).amount ELSE @[b]]]
  /\ Go(r)
  /\ UNCHANGED unstepped

\* assert_ledger_transaction_balanced.
Balanced(r) == LET es == LedgerEntries(r) IN SumFunction([i \in DOMAIN es |-> es[i].amount]) = 0

AtCommit(r) == pc[r] = "work" /\ at[r] = Len(Steps[r])

(* Commit, which the deferred triggers allow for balanced entries only.    *)
(* The answer may be an error although it took effect.                     *)
Commit(r) ==
  /\ AtCommit(r) /\ Balanced(r)
  /\ committed' = committed \cup {r}
  /\ balance' = [a \in Accounts |-> IF a \in DOMAIN written[r] THEN written[r][a] ELSE balance[a]]
  /\ End(r, "created") \/ End(r, "error")
  /\ UNCHANGED <<started, active, keyVars, now>>

(* Any statement fails, or the client is gone: the transaction rolls back. *)
Abort(r) ==
  /\ pc[r] \in {"resolve", "work"}
  /\ End(r, "error")
  /\ UNCHANGED unstepped

(* PostgreSQL's deadlock detector makes a statement of one transaction in  *)
(* a cycle fail.                                                           *)
InCycle(r) ==
  /\ Blockers(r) # {}
  /\ \E S \in SUBSET {q \in Requests : Blockers(q) # {}} :
       /\ r \in S
       /\ \A q \in S : Blockers(q) \cap S # {} /\ \E p \in S : q \in Blockers(p)

BreakDeadlock(r) == InCycle(r) /\ Abort(r)

-----------------------------------------------------------------------------
(* Merchants, keys and the clock.                                          *)

\* Bug: the merchant's row is not locked by the Charges that rely on it.
SwitchMerchantUnlocked(m) ==
  /\ active' = IF m \in active THEN active \ {m} ELSE active \cup {m}
  /\ UNCHANGED <<requestVars, committed, balance, keyVars, now>>

(* PATCH of a merchant's status waits for the Charges that hold it FOR     *)
(* SHARE.                                                                  *)
SwitchMerchant(m) ==
  /\ \A r \in Charges : pc[r] = "work" => Main[Req[r].key] # m
  /\ active' = IF m \in active THEN active \ {m} ELSE active \cup {m}
  /\ UNCHANGED <<requestVars, committed, balance, keyVars, now>>

(* Revocation reads the clock, then updates the key's row once it is free. *)
StartRevoke(k) ==
  /\ key[k] = "active"
  /\ key' = [key EXCEPT ![k] = "revoking"]
  /\ revokedAt' = [revokedAt EXCEPT ![k] = now]
  /\ UNCHANGED <<requestVars, committed, balance, active, writtenAt, now>>

WriteRevoke(k) ==
  /\ key[k] = "revoking" /\ \A r \in Requests : <<"key", k>> \notin Locks(r)
  /\ key' = [key EXCEPT ![k] = "revoked"]
  /\ writtenAt' = [writtenAt EXCEPT ![k] = now]
  /\ UNCHANGED <<requestVars, committed, balance, active, revokedAt, now>>

AdvanceClock ==
  /\ now < MaxNow
  /\ now' = now + 1
  /\ UNCHANGED <<requestVars, committed, balance, active, keyVars>>

Progress(r) ==
  \/ Resolve(r) \/ TakeLock(r) \/ ReadMerchants(r) \/ Lookup(r) \/ Insert(r)
  \/ UpdateBalance(r) \/ Commit(r)

Next ==
  \/ \E r \in Requests : \/ BeginCharge(r) \/ BeginTopup(r) \/ Progress(r)
                         \/ Abort(r) \/ BreakDeadlock(r)
  \/ \E m \in Switchable : SwitchMerchant(m)
  \/ \E k \in Revocable : StartRevoke(k) \/ WriteRevoke(k)
  \/ AdvanceClock

Spec == Init /\ [][Next]_vars

(* Some handler goes on when its statement returns, and PostgreSQL breaks  *)
(* every deadlock.                                                         *)
FairSpec == Spec /\ WF_vars(\E r \in Requests : Progress(r))
                 /\ WF_vars(\E r \in Requests : BreakDeadlock(r))

-----------------------------------------------------------------------------
(* Properties.                                                             *)

(* What a client sees as its balance is what the posted entries add up to, *)
(* whatever Charges and top-ups of the same accounts overlap, also when    *)
(* one account is payer, merchant and beneficiary of a Charge.             *)
ProjectionMatchesLedger == \A a \in Accounts : balance[a] = Posted(a)

(* No Charge or top-up that gets as far as its Commit is refused by the    *)
(* deferred balance triggers, also when the merchant's net is negative.    *)
EntriesBalance == \A r \in Requests : AtCommit(r) => Balanced(r)

(* An order ID is charged once, a top-up ID and a payment reference are    *)
(* credited once, however requests with the same one overlap.              *)
IdsAreUnique ==
  \A q, r \in committed : q # r /\ Req[q].kind = Req[r].kind =>
    /\ Req[q].id # Req[r].id
    /\ r \in Topups => Req[q].ref # Req[r].ref

(* A top-up is answered as a conflict only with another top-up that took   *)
(* its ID or its reference: never with an earlier sending of itself, even  *)
(* one that is still running.                                              *)
ConflictIsReal ==
  \A r \in Topups : result[r] = "conflict" =>
    \E q \in committed \cap Topups :
      Req[q] # Req[r] /\ (Req[q].id = Req[r].id \/ Req[q].ref = Req[r].ref)

(* Requests with the same ID or reference settle: one takes it, and only   *)
(* another request than itself turns a top-up away.                        *)
IdsSettle == IdsAreUnique /\ ConflictIsReal

(* A Charge accepted for a key that is now revoked is for a service that   *)
(* started before the revocation was written.                              *)
RevokedKeysStopped ==
  \A r \in committed \cap Charges :
    key[Req[r].key] = "revoked" => started[r] <= writtenAt[Req[r].key]

(* A Charge never commits after its product's merchant was switched off.   *)
MainMerchantIsActive ==
  [][\A r \in Charges \ committed : r \in committed' => Main[Req[r].key] \in active]_vars

(* The inductive invariant of the two properties above: what a request     *)
(* whose transaction is open, or has committed, knows of its key and of    *)
(* its product's merchant.                                                 *)
StandingInv ==
  /\ pc \in [Requests -> {"new", "resolve", "work", "done"}]
  /\ started \in [Requests -> Int] /\ now \in Int
  /\ key \in [Keys -> {"active", "revoking", "revoked"}]
  /\ revokedAt \in [Keys -> Int] /\ writtenAt \in [Keys -> Int]
  /\ committed \subseteq Requests /\ \A r \in committed : pc[r] = "done"
  /\ \A r \in Charges : started[r] <= now
  /\ \A k \in Keys : revokedAt[k] <= now /\ (key[k] = "revoked" => revokedAt[k] <= writtenAt[k])
  /\ \A r \in Charges : pc[r] = "work" => Main[Req[r].key] \in active
  /\ \A r \in Charges : pc[r] = "work" \/ r \in committed =>
       (key[Req[r].key] = "revoked" => started[r] <= writtenAt[Req[r].key])

(* Whatever has begun is answered, again and again: lock waits end, and    *)
(* deadlocks between Charges that pay each other are broken.               *)
EveryRequestEnds == []<>(\A r \in Requests : pc[r] \in {"new", "done"})
=============================================================================
