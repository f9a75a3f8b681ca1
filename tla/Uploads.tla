------------------------------- MODULE Uploads --------------------------------
(***************************************************************************)
(* Local mutations of the web SDK on their way to a service: a caller      *)
(* writes a row and waits with MutationCoordinator.run, PowerSync queues   *)
(* the row in the local database, and uploadData of the connector sends    *)
(* the head of the queue until the service answers it.                     *)
(*                                                                         *)
(* The queue outlives the connection; the coordinator does not.  While the *)
(* databases of a connection are closing, writes and an upload that have   *)
(* begun go on, and repositories begin others.  PowerSync and the network  *)
(* are modelled from how the SDK uses them: uploadData runs once at a      *)
(* time, a write of the local database is atomic, and a request whose      *)
(* answer was lost may still arrive, at any later time.                    *)
(***************************************************************************)
EXTENDS Naturals, FiniteSets, Sequences, SequencesExt

CONSTANTS
  Rows,           \* table:id
  MaxMutations,   \* bound: local mutations
  MaxFailures,    \* bound: answers lost or temporary
  MaxBreaks,      \* bound: connections closed or aborted, and pages reloaded
  MaxUnmapped     \* bound: rows written that mapEntry refuses

ASSUME BoundsAreNumbers ==
  /\ MaxMutations \in Nat /\ MaxFailures \in Nat
  /\ MaxBreaks \in Nat /\ MaxUnmapped \in Nat

Mutations == 1..MaxMutations
None == 0

VARIABLES
  row,        \* row[m]: the row that mutation m writes
  stage,      \* stage[m]: "new", "writing", "written" or "failed"
  promise,    \* promise[m]: what the caller of m gets when its write is over
  waiters,    \* waiters[r]: MutationCoordinator's waiter for r, or None
  queue,      \* the local CRUD queue
  connection, \* the authenticated connection: "open", "closing" or "closed"
  up,         \* where uploadData stands
  batch,      \* its CRUD batch
  entry,      \* the index of the entry it is working on
  reply,      \* the answer it has
  wire,       \* the requests that may still reach the service
  failures, breaks,
  \* history
  applied, refused,   \* the mutations the service has accepted, and rejected
  sent,               \* the mutations that have been sent
  written,            \* the queued mutations, in order
  unmapped,           \* those that mapEntry refuses
  behind              \* those begun with an earlier one of their row unfinished

callerVars == <<row, stage, promise, unmapped, behind>>
upVars     == <<up, batch, entry, reply>>
serverVars == <<wire, applied, refused, sent>>
vars == <<callerVars, upVars, serverVars, waiters, queue, written, connection,
          failures, breaks>>

Init ==
  /\ row \in [Mutations -> {CHOOSE r \in Rows : TRUE}]
  /\ stage = [m \in Mutations |-> "new"] /\ promise = [m \in Mutations |-> "pending"]
  /\ waiters = [r \in Rows |-> None] /\ queue = <<>> /\ written = <<>>
  /\ connection = "open"
  /\ up = "idle" /\ batch = <<>> /\ entry = 1 /\ reply = "none"
  /\ wire = {} /\ applied = {} /\ refused = {} /\ sent = {}
  /\ unmapped = {} /\ behind = {}
  /\ failures = 0 /\ breaks = 0

-----------------------------------------------------------------------------
(* The callers.                                                            *)

Current == batch[entry]

\* The coordinator of the connection holds the promise of m's caller.
Waits(m) == stage[m] # "new" /\ waiters[row[m]] = m

\* A mutation of row r whose outcome nobody has been told yet.
Unfinished(r) ==
  \E m \in Mutations :
    /\ row[m] = r
    /\ \/ stage[m] = "writing" \/ Contains(queue, m)
       \/ up = "notify" /\ Contains(batch, m)

\* run: the waiter is set before the row is written.  With a waiter for r it throws.
\* A repository may have read the database first, and the connection be closing by
\* now; close has cancelled the waiters there were, and not this one.
Run(m, r) ==
  /\ connection # "closed" /\ waiters[r] = None
  /\ stage[m] = "new" /\ \A n \in 1..(m - 1) : stage[n] # "new"
  /\ row' = [row EXCEPT ![m] = r] /\ stage' = [stage EXCEPT ![m] = "writing"]
  /\ waiters' = [waiters EXCEPT ![r] = m]
  /\ behind' = (IF Unfinished(r) THEN behind \cup {m} ELSE behind)
  /\ UNCHANGED <<promise, unmapped, upVars, serverVars, queue, written,
                 connection, failures, breaks>>

\* The row is queued, in a form that mapEntry supports or not.
Write(m) ==
  /\ stage[m] = "writing"
  /\ stage' = [stage EXCEPT ![m] = "written"]
  /\ queue' = Append(queue, m) /\ written' = Append(written, m)
  /\ \/ UNCHANGED unmapped
     \/ Cardinality(unmapped) < MaxUnmapped /\ unmapped' = unmapped \cup {m}
  /\ UNCHANGED <<row, promise, behind, upVars, serverVars, waiters, connection,
                 failures, breaks>>

\* An UPDATE that finds no row queues nothing, and its caller keeps waiting.
WriteNothing(m) ==
  /\ stage[m] = "writing"
  /\ stage' = [stage EXCEPT ![m] = "written"]
  /\ UNCHANGED <<row, promise, unmapped, behind, upVars, serverVars, waiters,
                 queue, written, connection, failures, breaks>>

\* The write throws: run deletes whatever waiter its row has by now.
WriteFails(m) ==
  /\ stage[m] = "writing"
  /\ stage' = [stage EXCEPT ![m] = "failed"]
  /\ waiters' = [waiters EXCEPT ![row[m]] = None]
  /\ UNCHANGED <<row, promise, unmapped, behind, upVars, serverVars, queue,
                 written, connection, failures, breaks>>

-----------------------------------------------------------------------------
(* uploadData.                                                             *)

\* Bug: the batch takes more than one entry.
BatchOfTwo(entries) == SubSeq(entries, 1, IF Len(entries) < 2 THEN Len(entries) ELSE 2)

\* getCrudBatch(1)
Batch(entries) == SubSeq(entries, 1, 1)

TakeBatch ==
  /\ connection = "open" /\ up = "idle" /\ queue # <<>>
  /\ batch' = Batch(queue) /\ entry' = 1 /\ up' = "map" /\ reply' = "none"
  /\ UNCHANGED <<callerVars, serverVars, waiters, queue, written, connection,
                 failures, breaks>>

\* uploadData returns, or throws: PowerSync calls it again later.
Return == up' = "idle" /\ batch' = <<>> /\ entry' = 1 /\ reply' = "none"

MapEntry ==
  /\ up = "map"
  /\ IF Current \in unmapped
       THEN Return /\ UNCHANGED serverVars
       ELSE /\ up' = "fetch" /\ wire' = wire \cup {Current} /\ sent' = sent \cup {Current}
            /\ UNCHANGED <<batch, entry, reply, applied, refused>>
  /\ UNCHANGED <<callerVars, waiters, queue, written, connection, failures, breaks>>

\* The service handles a request; "busy" stands for 429, 5xx and an answer
\* that is no ErrorResponse, after which the mutation may be applied or not.
Handle(m) ==
  /\ m \in wire /\ wire' = wire \ {m}
  /\ \E answer \in {"ok", "rejected", "busy"} :
       /\ IF answer = "busy"
            THEN failures < MaxFailures /\ failures' = failures + 1
            ELSE UNCHANGED failures
       /\ \/ answer # "rejected" /\ applied' = applied \cup {m} /\ UNCHANGED refused
          \/ answer = "rejected" /\ refused' = refused \cup {m} /\ UNCHANGED applied
          \/ answer = "busy" /\ UNCHANGED <<applied, refused>>
       /\ IF up = "fetch" /\ Current = m
            THEN up' = "answer" /\ reply' = answer /\ UNCHANGED <<batch, entry>>
            ELSE UNCHANGED upVars
  /\ UNCHANGED <<callerVars, sent, waiters, queue, written, connection, breaks>>

\* fetch throws; the request may never arrive, or arrive later.
NetworkFails ==
  /\ up = "fetch" /\ failures < MaxFailures
  /\ failures' = failures + 1 /\ Return
  /\ wire' \in {wire, wire \ {Current}}
  /\ UNCHANGED <<callerVars, applied, refused, sent, waiters, queue, written,
                 connection, breaks>>

Retry == /\ up = "answer" /\ reply = "busy" /\ Return

\* An entry was accepted: the next one, or the end of the batch.
Accepted ==
  /\ up = "answer" /\ reply = "ok"
  /\ IF entry < Len(batch) THEN up' = "map" /\ entry' = entry + 1
                           ELSE up' = "complete" /\ UNCHANGED entry
  /\ UNCHANGED <<batch, reply>>

\* A valid ErrorResponse ends the batch.
Rejected ==
  /\ up = "answer" /\ reply = "rejected"
  /\ up' = "complete" /\ UNCHANGED <<batch, entry, reply>>

Answer ==
  /\ Retry \/ Accepted \/ Rejected
  /\ UNCHANGED <<callerVars, serverVars, waiters, queue, written, connection,
                 failures, breaks>>

\* batch.complete: the whole batch, the head of the queue, leaves it.
Complete ==
  /\ up = "complete" /\ up' = "notify"
  /\ queue' = SubSeq(queue, Len(batch) + 1, Len(queue))
  /\ UNCHANGED <<callerVars, batch, entry, reply, serverVars, waiters, written,
                 connection, failures, breaks>>

\* Bug: an entry counts as a success before its answer is looked at.
SuccessesAll == {batch[i] : i \in 1..entry}

\* The entries accepted, and the one rejected if there is one.
Successes == {batch[i] : i \in 1..(IF reply = "rejected" THEN entry - 1 ELSE entry)}
Failure   == IF reply = "rejected" THEN {Current} ELSE {}

\* onMutationSuccess and onMutationError: the waiters of the rows are taken.
Notify ==
  /\ up = "notify" /\ Return
  /\ LET Of(S) == {row[m] : m \in S}
         told == Of(Successes \cup Failure)
     IN /\ waiters' = [r \in Rows |-> IF r \in told THEN None ELSE waiters[r]]
        /\ promise' = [m \in Mutations |->
                         IF row[m] \notin told \/ waiters[row[m]] # m THEN promise[m]
                         ELSE IF row[m] \in Of(Successes) THEN "resolved"
                         ELSE "rejected"]
  /\ UNCHANGED <<row, stage, unmapped, behind, serverVars,
                 queue, written, connection, failures, breaks>>

-----------------------------------------------------------------------------
(* Connections.                                                            *)

\* Bug: close leaves the waiters alone.
CancelNone(m) == FALSE

Cancelled(m) == Waits(m)

\* The closer of the two databases, which is called once or more.
CloseDatabases ==
  IF connection = "open"
    THEN connection' = "closing" /\ breaks < MaxBreaks /\ breaks' = breaks + 1
    ELSE UNCHANGED <<connection, breaks>>

\* close: cancelAll, and the databases begin to close.  A connection whose signal
\* was aborted may be closed as well.
Close ==
  /\ CloseDatabases
  /\ promise' = [m \in Mutations |->
                   IF Cancelled(m) THEN "cancelled" ELSE promise[m]]
  /\ waiters' = [r \in Rows |-> None]
  /\ UNCHANGED <<row, stage, unmapped, behind, upVars, serverVars, queue,
                 written, failures>>

\* The signal given to connectAuthenticated: its listener closes the databases and
\* leaves the coordinator alone.
Abort ==
  /\ connection = "open" /\ CloseDatabases
  /\ UNCHANGED <<callerVars, upVars, serverVars, waiters, queue, written, failures>>

\* The databases have closed, under uploadData's feet and after the writes in
\* progress; what follows batch.complete needs no database.
Closed ==
  /\ connection = "closing" /\ connection' = "closed"
  /\ up # "notify" /\ \A m \in Mutations : stage[m] # "writing"
  /\ Return
  /\ UNCHANGED <<callerVars, serverVars, waiters, queue, written, failures, breaks>>

\* The page is reloaded and the callers are gone; a write in progress has either
\* succeeded or failed by then.
Reload ==
  /\ breaks < MaxBreaks /\ breaks' = breaks + 1
  /\ \A m \in Mutations : stage[m] # "writing"
  /\ connection' = "closed"
  /\ promise' = [m \in Mutations |->
                   IF stage[m] # "new" /\ promise[m] = "pending" THEN "gone" ELSE promise[m]]
  /\ waiters' = [r \in Rows |-> None]
  /\ Return
  /\ UNCHANGED <<row, stage, unmapped, behind, serverVars, queue, written,
                 failures>>

\* connectAuthenticated: a new MutationCoordinator on the same databases.  Who waits
\* in the old one is never told.
Connect ==
  /\ connection = "closed" /\ connection' = "open"
  /\ waiters' = [r \in Rows |-> None]
  /\ UNCHANGED <<callerVars, upVars, serverVars, queue, written, failures, breaks>>

-----------------------------------------------------------------------------
Upload == TakeBatch \/ MapEntry \/ Answer \/ Complete \/ Notify

Next ==
  \/ \E m \in Mutations : \/ \E r \in Rows : Run(m, r)
                          \/ Write(m) \/ WriteNothing(m) \/ WriteFails(m)
                          \/ Handle(m)
  \/ Upload \/ NetworkFails
  \/ Close \/ Abort \/ Closed \/ Reload \/ Connect

(* PowerSync calls uploadData as long as the queue is not empty, and a     *)
(* request is answered or fails.  Nobody has to write, close or connect.   *)
Fairness ==
  /\ WF_vars(Upload)
  /\ WF_vars(up = "fetch" /\ (NetworkFails \/ Handle(Current)))

Spec == Init /\ [][Next]_vars /\ Fairness

-----------------------------------------------------------------------------
(* A mutation leaves the queue only when the service has accepted or       *)
(* rejected it, and none is sent before every earlier one has had such an  *)
(* answer: neither a rejected upload, a retry, a reload nor a request that *)
(* arrives late makes uploadData discard or overtake a mutation.           *)
UploadsInOrder ==
  \A i \in DOMAIN written :
    LET settled == written[i] \in applied \cup refused IN
    /\ ~Contains(queue, written[i]) => settled
    /\ \A j \in DOMAIN written : i < j /\ written[j] \in sent => settled

(* A caller whose promise is resolved had its mutation accepted, and one   *)
(* whose promise is rejected had it rejected, unless it began while an     *)
(* earlier mutation of its row was unfinished: the coordinator knows rows  *)
(* and not mutations, and a queue outlives its connection.                 *)
CallersLearnTheirOutcome ==
  \A m \in Mutations \ behind :
    /\ promise[m] = "resolved" => m \in applied
    /\ promise[m] = "rejected" => m \in refused

(* The caller that waits for a queued mutation hears of it, from the       *)
(* service or from close, as long as no row is queued that the connector   *)
(* cannot map.  Only who waits in a connection that is closing without     *)
(* close having cancelled it, because it was aborted or the caller began   *)
(* to wait later, may be left alone.                                       *)
CallersHear ==
  [](unmapped = {}) =>
    \A m \in Mutations :
      Waits(m) /\ Contains(queue, m) /\ m \notin behind
        ~> promise[m] # "pending" \/ (connection # "open" /\ Waits(m))
==============================================================================
