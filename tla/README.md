# A formal model of GizPay and GizWay

GizPay keeps accounts, subscriptions and a double-entry ledger. GizWay sells AI
calls against GizPay's subscription keys and bills them back to GizPay. This
directory holds TLA+ modules that model the two programs, and the upload queue of
their web SDK, from the Go, SQL and TypeScript sources; TLC configurations that
check them on small instances; and TLAPS proofs of the results that matter most for
every instance. `PROJECT.json` maps each definition to the lines it models and lists
components, runs, mutants, hazards and theorems.

## 1. The system

| Part | State | Operations | What must be right |
|---|---|---|---|
| GizWay call pipeline (`gizway/protocol.go`) | handlers in progress, realtime sessions, `last_used_at` of keys | chat, stream, realtime socket with its relay goroutine, client secrets | one execution log per call, an order only for what was consumed, a secret works once, no goroutine is left behind |
| Credit admission cache (`admit`, `checkCredit`, `consumeLocalCredit`) | one `creditState` per key HMAC under `creditMu` | hit, wait, load, consume, prune | one Credit Check in flight per key, no waiter left behind, a revoked key is remembered for a bounded time |
| Pricing (`resolveCall`, `cheapestTargets`, `rate`, `ceilMulDiv`) | prices read at the start of a call | choose keys, rate the usage | rounding up, saturation, a consistent order of price lists |
| Charge outbox (`completeCall`, `runOutbox`, `reportOutbox`) | `ai_orders`, `charge_outbox`, one worker | commit order and row, POST, recover, report, abandon, restart | each order debited at most once, its commission credited exactly once, uncertainty never forgotten |
| Provider client cache (`adapter/bifrost/adapter.go`) | clients by key and target with reference counts | get, build, release, evict, shut down | a client in use is never closed, the cache shrinks back |
| GizWay catalog and provider keys (`gizway/admin.go`, `handler.go`, `bifrost/store.go`) | a key in Bifrost's tables, `provider_key_billing`, `client_sync.provider_keys`; providers twice; models, listings, price lists | create, patch, delete, rotate, price, disable, resolve a call | the copies agree, a repeated POST is no conflict, a price list is one request's, a disabled key is not offered |
| GizPay ledger (`createCharge`, `accountTopups`) | ledger, Charges, top-ups, balance projections | charge, top up | books balance, projections match the ledger, IDs settle |
| GizPay directory (`gizpay/handler.go`, `admin.go`) | users, merchants, products, listings, subscriptions, keys, service principals | webhook, PATCHes, POSTs, revocations | one default merchant per account, revocation is final at both ends |
| Upload queue of the web SDK (`sdk/web/src/powersync`) | PowerSync's CRUD queue, `MutationCoordinator`'s waiters | mutate, upload, close, abort, reconnect | mutations reach the service in order and none is lost, callers learn the outcome of their own mutation |
| Tokens (`catalogtoken`, `identity`) | a cached token or key set with its expiry | refresh, verify | not modelled, see section 6 |
| Storage migrations (`storage`) | the migration history | apply | not modelled, see section 6 |

How they meet. GizWay asks GizPay over HTTP for Credit Checks, which fill the
admission cache, for an owner's merchants when a key is created, and posts Charges
from the outbox; each keeps a PostgreSQL database of its own and they share no
transaction. GizPay in turn creates and revokes credentials at an identity provider.
Instances of a request handler run concurrently and meet in the in-memory caches
(under a mutex) and in the database (under row, index and advisory locks). The hard
behaviours are lost and late answers between programs, crashes between a
remote effect and its local record, caches that are stale by design, transactions
that take locks in different orders, handlers that read, decide and write in separate
statements, and integer limits.

## 2. Modules

| Module | Models | State and actions |
|---|---|---|
| `Billing` | the promise about an order's money, abstract | `debits`, `credited`; Charge, Credit |
| `ChargeOutbox` | `completeCall`'s transaction, the outbox worker, restart, GizPay's Charge endpoint, the network | tables as functions from orders; `pc` is the worker's place in `reportOutbox`; `posts` are the POSTs in flight, which outlive the worker's interest in them |
| `ClientCache` | the cache of provider clients | clients have an identity of their own, so a replaced entry and its old client differ; one action per critical section of `a.mu` |
| `CreditCache` | `admit` for one key, GizPay's `creditCheck` | states and wait channels are named by the request that made them; one action per critical section of `creditMu`; the Credit Check's read and the arrival of its answer are two actions |
| `Calls` | `chat`, `streamChat`, `realtimeSocket` and its relay, client secrets, `markProviderKeyUsed`, `completeCall`, `recordExecution` | `pc[c]` is the place of call `c` in its handler; a client may leave and the process may stop at any point |
| `Pricing` | choice of keys and rating | one call: resolve, select, rate; words of `Word` values |
| `Ledger` | `createCharge`, `accountTopups`, `merchantResource`, key revocation | a transaction is the sequence `Steps[r]` of the statements that wait for a lock or read shared rows; `written[r]` are its uncommitted balances |
| `Rows` | what the administration handlers of both services share: POST, PATCH and DELETE as sequences of statements | `body[r]` is a request, `pc[r]` its next statement, `mem[r]` the rows it has read, `rows[t]` a table |
| `Catalog` (EXTENDS `Rows`) | providers, models, listings and the replacement of price lists, with the row locks of DELETE | `lists[o]` holds each price row with the request that wrote it |
| `Directory` (EXTENDS `Rows`) | GizPay's webhook, merchants, products, subscriptions, keys, service principals; the identity provider | `alive` are the credentials the identity provider accepts |
| `ProviderKeys` (EXTENDS `Catalog`, `Directory`) | keys in three tables, Bifrost's record inside GizWay's transactions, `resolveCall` | `offered[r]` are the keys a call gets |
| `Administration` (EXTENDS `ProviderKeys`) | both services together | `Step(r)` is one statement of one request |
| `Uploads` | `MutationCoordinator`, `uploadData`, close and reconnection | `queue` survives a reload, `waiters` do not; `wire` are the requests that may still arrive |
| `MC*` | constants for TLC | definitions only, nothing is replaced |
| `*_proofs` | TLAPS proofs about the module they extend | |

Composition: `ChargeOutbox` is the worker and GizPay together, and implements
`Billing` (`ImplementsBilling`, with the variables mapped to themselves); `Administration`
composes the two services, which meet where an owner's first key needs the owner's merchant.
`Calls` hands its orders to `ChargeOutbox` through the two tables that both describe;
`CreditCache` and `Pricing` model what precedes and rates a call.

An action stands for a whole handler or for the part of one between two points where
another actor may step in: a statement on the database, a critical section, a
message. A definition with the comment "Bug:" is not part of the model: it is a
variant of the definition named in `PROJECT.json` under "mutants", and shows that a
property can fail.

### What is abstracted

- Amounts are left out of `ChargeOutbox`: `Free` and `OverCommission` name the calls whose
  amounts change its control. `Calls` has a few amounts, `Ledger` and `Pricing` have them all.
- One credit entry is modelled: entries of different keys share only the mutex.
- `checkCredit` answers of every malformed kind are one failure (`LoadFails`).
- bifrost.Init and closing a client are single steps without failures of their own
  state; a failed Init leaves the cache untouched.
- In `Ledger` the statements that nobody can observe before the Commit take effect
  with it. An advisory lock is keyed by what it hashes; collisions only add waiting.
- In `Pricing` the result of sorting and cutting the candidates is defined as the
  candidates that no other one precedes. That needs the order to be consistent, which
  `SomeKeyIsOffered` checks.
- In `Rows` and its extensions a row keeps the columns that some handler changes or
  compares. An upload of the web SDK and an HTTP request of an administrator arrive at the
  same handlers. Lists and single reads are left out: they change nothing.
  What a handler must look up, lock or insert before its main statement may fail in any
  place (`ReadFails`), with one answer for an internal error and for a handler that takes the failure
  for a missing row; a key whose billing row cannot be read is passed over by a call.
- In `Calls` the translation between provider and client protocols is data: an event is a
  delta, a terminal one with usage, or one without; a session has one secret.
- `Uploads` has one service and one connection at a time. PowerSync and the network are
  external: `uploadData` runs once at a time, a local write is atomic, and a request whose
  answer was lost may still arrive at any later time.

## 3. Runs

| Run | What it explores and shows |
|---|---|
| `outbox_safety` | Two orders and one whose commission exceeds its gross, three failures (lost POST, lost answer, crash, failed write) and a clock that lets rows grow old: billing is exactly-once, uncertainty is persisted, settled rows stay, and `Billing` is implemented |
| `outbox_eventually` | Commits on either side that may take effect and report an error; one order GizPay never accepts, one whose ID is taken, one healthy: what is reported was charged, and the healthy order is charged in the end |
| `clients` | Three keys, one of them pinned, on a cache of one: reference counts, eviction, overflow that drains |
| `credit` | Three requests with one key against a balance, a standing and a clock that move: single flight, bounded memory of a revoked key, quota that only shrinks, every request returns |
| `ledger` | A Charge, its retry and one the other way round; a top-up, its retry, one that reuses its reference and a Charge that is refused; both kinds at once; a merchant is switched and a key revoked meanwhile |
| `pricing_rates` | Every price list over two metrics and three rows for a customer and three keys |
| `administration` | Every three requests, repetitions included, of groups of requests that concern each other: webhooks, PATCHes, POSTs and revocations in GizPay; providers, models, listings, price lists, keys and calls in GizWay; an owner's first key while the account is set up. Any look-up, lock, INSERT or update may fail |
| `calls` | Every two of a chat, a stream and two sockets that compete for a client secret, with clients that leave, an expiring secret, failing stores, costs whose commission exceeds the gross, and a crash |
| `uploads` | Three local mutations of two rows, one lost, late or temporary answer, one connection closed or aborted or page reloaded, and one row the connector refuses: uploads keep their order, callers learn the outcome of their own mutation, and those whom `close` cancels or the service answers hear of it |
| `outbox_ambiguous_remote`, `pricing_saturates`, `directory_false_conflict` | Disagreements with the comments and tests, section 5 |

Bounds. `MaxFaults` bounds the failures of a behaviour: three are needed for the
longest known story (a POST in doubt, a second failure while recovering, a third
while recording it). `MaxNow` bounds the clock: in `outbox_safety` it exceeds
`AbandonAfter`, in `credit` it reaches recheck plus timeout. A batch of one with two
orders, or of two with three, makes the batch a limit. Three requests allow a loader,
a waiter and a late comer. `MaxClock` bounds how often a client is taken, which is
enough for each of three keys to be built, hit and evicted. `MinInt` is -4 with a
cost of 4 and a balance of 3, so that saturation occurs at once. `Scenarios` in `Ledger`,
`Calls` and `Rows` is the set of groups of requests that run together: three Charges
give a retry and a deadlock; three administrative requests give a request, its repetition and
one that disturbs both, or two writers and a reader; a group holds the requests that
share rows, and requests of different groups share none. Five-bit words
have products of every kind: below one word, above it, and one that rounds up to exactly
`Word`. The gross of 10003 exercises both parts of `PlatformFee`, and its commission
leaves a negative net. In `calls` two calls are enough for a property of a call and of
whatever it shares (a key, a secret); `MaxTime` lets a secret expire. In `uploads` three
mutations of two rows allow one mutation of a row behind another of the same row with
a third between or after them; one break (a close, an abort or a reload) separates two
sessions on one queue, one failure makes one request late or repeated, and one refused row
is enough to block the queue for all that follow.

`CHECK_DEADLOCK FALSE` appears where the modelled program really stops: when the
call of the pricing run has been rated, each request of `ledger` answered, the client
cache shut down and its calls over, or the upload queue empty or stuck.

Fairness. The outbox worker is a goroutine on a timer and every wait in it ends (its
HTTP client has a timeout), so its steps are weakly fair; GizPay answers what it
received; a crashed process is restarted; time passes. No failure is fair and none
is required. In `CreditCache` a request's goroutine goes on and its Credit Check ends
by an answer or by the timeout; GizPay need not answer. In `ClientCache` calls end.
In `Ledger` some statement that is not blocked returns, and PostgreSQL aborts one
transaction of a deadlock; without that last assumption Charges in opposite
directions wait for ever. In `Calls` only the relay goroutine is fair: it is a loop
whose read returns once its context is cancelled, and sending to a channel with room does
not block. In `Uploads` PowerSync calls `uploadData` again as long as the queue is
not empty, and a request is answered or fails; nobody has to write, close or connect.

`HealthyOrdersAreCharged` is checked with fewer permanently rejected rows than a batch
holds (a row whose ID is taken is failed and leaves the queue) and a clock that lets no
row expire: with a full batch of rejected rows, younger rows do wait until those are
abandoned.

Conditions that properties state, because the code promises no more. `UpdatesAddUp` and
`CopiesAgreeUnlessOverlapped` except rows that were written from a stale copy: PATCH
handlers read a row and write every column back. `ListsAreWhole` excepts the owner's
PUT of prices, which takes no lock. `CallersLearnTheirOutcome` and `CallersHear` except
mutations begun while an earlier one of their row was unfinished. `CallersHear` also leaves out
whoever still waits in a connection that is being closed: only `close` cancels waiters, the
listener of an aborted signal does not, and a repository that was reading the database when
`close` ran sets its waiter afterwards. `PostsSettle` excuses a conflict after the
request's own INSERT or look-up failed (`failed`), since handlers answer 409 for both. What
happens in those cases is listed in section 5.

## 4. Proofs

| Module | Results | Argument |
|---|---|---|
| `ChargeOutbox_proofs` | `TypeCorrect`, `AtMostOneCharge`, `ReportedImpliesCharge`, and, with neither Commit ambiguous as stated, `EarnedOnce`, `UncertaintyIsPersisted`, `FailedOrdersUncharged`, `SettledStays`, `Refinement` | `SafetyInv` adds to the types what the worker knows of its row (`WorkerInv`), which POSTs may be answered (`PostsInv`), and that each sign of success comes from a Charge (`ChargeInv`). `RowsInv` ties order, row and credit together; it needs a failed local Commit to have no effect. `UncertaintyInv` says that a fresh row has no POST elsewhere; it needs an error answer to mean that nothing was committed |
| `ClientCache_proofs` | `CacheInvariant`, `CountsAreExact`, `HeldAreSpared`, `CachedStayOpen`, `OverflowIsBusy` | `CacheInv`: counts equal the holders of the cached client, held clients are not closed, an overflowing cache has no idle victim |
| `CreditCache_proofs` | `AdmissionInvariant`, `OneCheckInFlight`, `RevocationIsBounded`, `QuotaShrinks` | `LoadInv`: the loading request owns the entry in the map. `FreshInv`: what the cache, and answers on their way, may still say of a revoked key |
| `Calls_proofs` | `OrdersPaidFor`, `LoggedOnce`, `SecretsOnce`, `LatestIsKept` | `CallInv` says for each place of a handler what has been consumed, stored and logged so far; a lemma lifts a step of one call to all. `SecretInv`: an open session is unused, and one that is gone before its time was used or lost with the process. `UsedInv`: both tables hold the latest time |
| `Ledger_proofs` | `StandingIsKnown`, `RevocationStopsCharges`, `ActiveAtCommit`, `IdsAlwaysSettle`, `FeeIsRoundedUp`, `EntriesAlwaysBalance`, `ProjectionAlwaysMatches` | `StandingInv`: what an open or committed transaction knows of its key and merchant, which the share lock keeps true. `IdInv`: no two requests share a lock, and from its INSERT or second lookup on a request knows its ID to be free, since whoever could take it would need a lock it holds; the fee by division with remainder. The entries of each single request sum up to zero, for every list of commissions. `MoneyInv` (with `IdInv` and `StandingInv`): an open transaction has written the committed balance plus its own entries of every account it has met, and holds that account's lock, so its Commit adds exactly its entries |
| `Pricing_proofs` | `CeilMulDivExact`, `RatesAreExact`, `CoveredModelsAreOffered`, `SelectedIsCheapest` | the high word reaches the divisor exactly when the quotient leaves the word. `SaleInv`: a call's key comes from the candidates of its own price lists. `comparePrices` is a total preorder on price lists, so a finite set of candidates has a least one, and with one metric the smaller price per unit has the smaller rounded cost |
| `Administration_proofs` | `DisabledKeysStayOff`, `ListsStayWhole`, `RevocationsStayHeld`, `IdentitiesStaySettled`, `CopiesStayAgreed`, `UpdatesStayAddedUp`, `PostsAlwaysSettle` | see below |
| `Uploads_proofs` | `UploadsKeepOrder`, `CallersAreToldTheTruth` | `QueueInv`: the queue is the end of what was written, what precedes it is settled, at most its head has been sent, and `uploadData` works on the head until it is settled. `HeardInv` (with `QueueInv`): the batch that is about to be told of has had the answer in `reply`, and a waiter that did not begin behind another mutation of its row is the only one of the row that may still be told of |

Every safety property that a passing run checks, invariant or action property, is stated by a theorem.

`Administration_proofs`. Its theorems hold for any number of requests, any mixture of
handlers and any content of the tables. They share what any step of any handler
does: it moves its own request on and no other (`MovesOn`), stores rows only in the tables of its
request and deletes none (`Writes`), and changes rows in one of four ways (`Effect`: not at all, a new
row in all of its tables, an UPDATE, the webhook's Commit). On top of that:

- `OfferInv`: the keys that have been off since a call began are off in
  `provider_key_billing` and not offered; a step adds a key only if its billing row is on.
- `ListInv`: administrators' transactions on one list exclude each other, the rows that a
  DELETE has found were committed by requests that write no more, and at its Commit an administrator's
  transaction has claimed all that it found.
- `RevokeInv`: between the provider's answer and the UPDATE the credential is dead, nothing
  takes "revoked" back, and IDs that GizPay has not chosen yet name nothing.
- `IdentityInv`: one transaction per identity holds the users row; what it has inserted exists
  nowhere else; the merchant it has chosen is the only default, committed or its own.
- `CopyInv`: a row that no stale update has touched is what the updates, each in one step,
  would have left, in all of its copies; a request that is about to write has read
  its row, which is still there. `DefaultInv` (with it and `IdentityInv`): a PATCH that may switch a
  merchant off has seen that it is not the default one, which never changes.
- `PostInv` (with `CopyInv`): every row has been held, every price list and JSON has been listed,
  a POST that looks again after its INSERT has a reason in the database's history, and a row that
  two POSTs want is created by the one that found it missing.

What the proofs assume are the named assumptions on the constants, and nothing else; TLC evaluates
each on the runs. They say what the code or the schema fixes:

| Assumption | Why the code justifies it |
|---|---|
| `SystemAssumption` (`Ledger`) | `led_clearing` and `led_platform_fee` are the system's; an account's ledger account has a generated ID |
| `OwnersAssumption`, `RequestsAssumption` (`Ledger`) | foreign keys, and the checks of amounts with which both handlers begin |
| `KeysAssumption` (`ClientCache`), `InputsAssumption` (`Pricing`) | finitely many keys; a price row belongs to a metric |
| `WordAssumption` (`Pricing`) | a word holds an even number of values, at least four: 2^64 |
| `SeedListsAssumption`, `PricesAssumption` (price lists) | each list in the tables was written by one request; models and keys have price tables of their own, and a request sends each price once |
| `NewIDAssumption` | IDs that GizPay makes are UUIDs: unused, distinct, and not guessed by a request |
| `IdentitiesAssumption` | the columns and the UNIQUE default of the schema; `gizpay/handler.go` makes a user together with an active default merchant, and POSTs of merchants insert `is_default` false |
| `CredentialsAssumption` | the INSERTs of keys and principals write `active`, a revocation writes `revoked`. A principal that is revoked at the start has no live credential: its owner revoked it; one that an administrator deleted before the requests run is left out |
| `RequestsAssumption` (`Rows`), `CatalogAssumption`, `DirectoryAssumption`, `KeysAssumption` (`ProviderKeys`) | the typed JSON bodies have no other columns, statuses are checked, and POSTs write all copies of a row and its price list in one transaction |

The invariants proved by `Refinement` and its neighbours carry the ambiguity of Commits as an
explicit hypothesis.

Sums over finite sets (`SumFunctionOnSet`) are reasoned about without the library's
induction theorems, which take an operator: `SubsetInduction` is about a set of sets, and picks
a least counterexample by well-foundedness.

Only model-checked: everything that needs fairness, since the prover has neither ENABLED nor
liveness (`HealthyOrdersAreCharged`, `OverflowDrains`, `EveryCallReturns`, `EveryRequestEnds`,
`RelaysEnd`, `CallersHear`). For these the runs' bounds count.

What "repeated" and "conflict" mean in `PostsSettle`: "repeated" compares what was sent, so the status
of a subscription or of its key counts for nothing; of a provider key the prices count as content,
as rows for the administrator's POST and as `prices_json` for the owner's, and both are remembered in
`everListed`.

## 5. Disagreements and observations

Runs that TLC refutes, each against a text of the repository:

1. `outbox_ambiguous_remote`: GizPay may answer 500 to a Charge that it committed. The
   worker then keeps `recover_duplicate` false, and the retry's 409 fails a paid order.
2. `pricing_saturates`: `ceilMulDiv` returns 0 for a quotient that rounds up to 2^64.
3. `directory_false_conflict`: of two overlapping webhook deliveries for one human and one
   merchant ID the second may be told that its own default merchant is a conflict.

Observations made while modelling; they contradict no text that a run could quote, or
are conditions of a property above:

- `protocol.go:1257`: the requeue after a failed `markOutboxReported` does not look at the
  row's status. After a Commit whose answer was lost it reopens a reported row and the
  commission is credited twice; `EarnedOnce` therefore assumes that this does not happen.
- `handler.go:176`: the abandoning UPDATE also takes rows whose `recover_duplicate` is set,
  although `protocol.go:1240` wants that state preserved until recovery succeeds.
- A key's `revoked_at` is read before the row is updated, so a Charge on the still active key may
  carry a service start after `revoked_at`; `RevokedKeysStopped` compares with the time at
  which the revocation was written.
- An owner's PUT of prices that overlaps another replacement leaves the union of both lists
  while `prices_json` holds the last one.
- A PATCH that read a key before it was disabled enables it again; a rotation from a stale
  copy enables it in Bifrost only, where `resolveCall`'s look at the billing row still stops it.
- An admin POST answers 409 for any failing INSERT. It looks again first, but when that
  look-up fails too (`getErr` at `gizway/admin.go:165`, `:273`, `:455`, `:634` and
  `gizpay/admin.go:136`, `:251`, `:380`) a repetition with the same content is told of a
  conflict; so is one whose prices cannot be read (`gizway/admin.go:588`) and a repeated
  subscription (`gizpay/handler.go:903`).
- An administrator's DELETE of a service principal does not revoke its credential at the
  identity provider, and when the INSERT of a new principal and the best-effort revocation after it
  fail, a credential without a row remains.
- A chat whose client has left is consumed from the local quota but its order and its error
  log are written under the cancelled request and may be lost. A socket is admitted
  with the snapshot taken when its secret was made and not checked again.
- `MutationCoordinator` is keyed by row: a mutation queued by an earlier session may resolve
  or reject the caller of a later one, and a failing local write removes whichever waiter
  its row has. An UPDATE that finds no row queues nothing, and its caller waits until the
  connection is closed. A queued row that `mapEntry` refuses blocks the queue. A late copy
  of a request that was retried can apply an older mutation after a newer one.
- An aborted signal closes the databases of an authenticated connection but leaves its coordinator
  alone (`client.ts:84`): promises of `run` may stay pending for ever, unless `close` is called as well.
  The same happens to a caller whose repository awaited a read of the database while `close`
  cancelled the waiters and whose write then still succeeds.

## 6. Not modelled

- Tokens and the verifier: `catalogtoken.Manager`, the machine token and the key set are
  refreshed under a mutex that is held until the answer is there. No interleaving is left
  to explore; what remains is the content of signed tokens. (`Current` may return a token
  that expired while a slow refresh failed.)
- Storage migrations: one transaction under an advisory lock at start-up.
- HTTP routing, configuration, start-up, the HMAC of keys, the text form of times: sequential
  and without shared state. What the configuration sets are constants of the modules.
- Generated clients, fakes, test helpers and end-to-end tests.
- Of `bifrost/store.go`: opening, migrating, seeding and reading logs. Of `sdk/web`:
  sign-in, configuration, opening the pair of databases and watching queries.
- The sorting of unknown metrics (`rate` refuses them), the failpoints of the tests, and
  several GizWay processes on one database: `protocol.go:1148` relies on a single worker.
- In the administration handlers, a COMMIT that takes effect and reports an error, and the read-back
  after an INSERT: the row is there and the client is told of an error.
- Two behaviours that are by design: a full batch of permanently rejected rows delays newer
  ones, and a Credit Check's answer overwrites what was consumed while it was on its way.
