-------------------------------- MODULE Rows --------------------------------
(***************************************************************************)
(* What the administration handlers of GizWay and GizPay have in common.   *)
(* A handler is a sequence of database statements; most handlers run each  *)
(* statement in a transaction of its own, so the statements of concurrent  *)
(* requests interleave:                                                    *)
(*   POST    look the ID up; look the parent up; INSERT; look up again     *)
(*   PATCH   read the row, change it in memory, write its columns back     *)
(*   DELETE  read the row; switch it off unless it is off                  *)
(* A handler of a component is an action that says which table and which   *)
(* columns the steps below are about.                                      *)
(***************************************************************************)
EXTENDS Naturals, FiniteSets

CONSTANTS
  Scenarios,  \* the requests that run together: sequences of bodies, see body
  Seed        \* Seed[t]: the rows of table t at the start, by ID

Tables == DOMAIN Seed

\* The bodies of these requests have no other columns.
Sends(op, t, columns) ==
  \A requests \in Scenarios : \A r \in DOMAIN requests :
    requests[r].op = op /\ requests[r].table = t => DOMAIN requests[r].set \subseteq columns

ASSUME RequestsAssumption ==
  /\ \A requests \in Scenarios : \A r \in DOMAIN requests : requests[r].table \in Tables
  /\ \A t \in Tables : Sends("delete", t, {"status"})

VARIABLES
  body,       \* body[r]: op, table and id of request r, and "row" (POST) or "set"
              \* (PATCH, DELETE); a repetition is another request with this body
  pc,         \* where a request stands
  mem,        \* mem[r]: the rows r has read to change them, by table
  answer,     \* how a request was answered
  rows,       \* the database: rows[t] is a function from IDs to rows
  \* history
  ideal,      \* the rows, had every update read and written in one step
  overlapped, \* the rows written from a copy that another write had made stale
  everHeld,   \* everHeld[t]: every <<ID, row>> the table has held
  failed      \* the POSTs of which the INSERT failed for another reason than a conflict,
              \* or a look-up that compares the row

rowVars == <<body, pc, mem, answer, rows, ideal, overlapped, everHeld, failed>>
historyVars == <<ideal, overlapped, everHeld>>

Requests == DOMAIN body

Nothing == [t \in {} |-> 0]
StayRows == UNCHANGED <<rows, historyVars, failed>>

RowsInit ==
  /\ body \in Scenarios
  /\ pc = [r \in Requests |-> "sent"]
  /\ mem = [r \in Requests |-> Nothing]
  /\ answer = [r \in Requests |-> "none"]
  /\ rows = Seed /\ ideal = Seed
  /\ overlapped = {} /\ failed = {}
  /\ everHeld = [t \in Tables |-> {<<id, Seed[t][id]>> : id \in DOMAIN Seed[t]}]

Is(r, op, t)  == body[r].op = op /\ body[r].table = t
Exists(t, id) == id \in DOMAIN rows[t]
There(r)      == Exists(body[r].table, body[r].id)
Row(r)        == rows[body[r].table][body[r].id]
Same(r)       == There(r) /\ Row(r) = body[r].row

Goto(r, at)   == pc' = [pc EXCEPT ![r] = at] /\ UNCHANGED <<mem, answer>>
Reply(r, how) == /\ pc' = [pc EXCEPT ![r] = "done"]
                 /\ answer' = [answer EXCEPT ![r] = how]
                 /\ UNCHANGED mem
Read(r, what, at) == /\ mem' = [mem EXCEPT ![r] = what]
                     /\ pc' = [pc EXCEPT ![r] = at]
                     /\ UNCHANGED answer

\* The function that maps x to v, and f with the value v at x.
Only(x, v)    == [y \in {x} |-> v]
With(f, x, v) == [y \in {x} \cup DOMAIN f |-> IF y = x THEN v ELSE f[y]]

(* One transaction stores the rows new[t] under an ID.                     *)
StoreAt(id, new) ==
  /\ rows' = [t \in Tables |-> IF t \in DOMAIN new THEN With(rows[t], id, new[t]) ELSE rows[t]]
  /\ everHeld' = [t \in Tables |-> IF t \in DOMAIN new THEN everHeld[t] \cup {<<id, new[t]>>}
                                   ELSE everHeld[t]]

\* New rows are what they should be.
AddAt(id, new) ==
  /\ StoreAt(id, new)
  /\ ideal' = [t \in Tables |-> IF t \in DOMAIN new THEN With(ideal[t], id, new[t]) ELSE ideal[t]]
  /\ UNCHANGED overlapped

\* The columns of row that set names take its values.
Overlay(row, set) == [f \in DOMAIN row |-> IF f \in DOMAIN set THEN set[f] ELSE row[f]]

-----------------------------------------------------------------------------
(* POST.                                                                   *)

(* The ID exists: a repetition, or a conflict.                             *)
LookUp(r, next) ==
  /\ pc[r] = "sent"
  /\ IF There(r) THEN Reply(r, IF Same(r) THEN "repeated" ELSE "conflict")
     ELSE Goto(r, next)
  /\ StayRows

\* The row that the new one depends on is looked up.
CheckParent(r, parentIsThere) ==
  /\ pc[r] = "parent"
  /\ IF parentIsThere THEN Goto(r, "insert") ELSE Reply(r, "missing")
  /\ StayRows

(* The INSERT into every table of new; taken: a UNIQUE column holds the    *)
(* value already.                                                          *)
Insert(r, new, taken) ==
  /\ pc[r] = "insert"
  /\ IF There(r) \/ taken
       THEN Goto(r, "again") /\ UNCHANGED <<rows, historyVars>>
       ELSE AddAt(body[r].id, new) /\ Reply(r, "created")
  /\ UNCHANGED failed

\* The INSERT fails: a cancelled request, a lost connection.
InsertFails(r) ==
  /\ pc[r] = "insert"
  /\ failed' = failed \cup {r}
  /\ Goto(r, "again")
  /\ UNCHANGED <<rows, historyVars>>

\* Bug: a failed INSERT is a conflict, whoever has inserted the row.
LookAgainNever(r) ==
  /\ pc[r] = "again"
  /\ Reply(r, "conflict")
  /\ StayRows

\* A look-up that fails counts as a conflict, whatever the row holds.
LookUpFails(r) ==
  /\ Reply(r, "conflict")
  /\ failed' = failed \cup {r}
  /\ UNCHANGED <<rows, historyVars>>

\* After a failed INSERT: the row may be there because the request was repeated.
LookAgain(r) ==
  /\ pc[r] = "again"
  /\ \/ Reply(r, IF Same(r) THEN "repeated" ELSE "conflict") /\ StayRows
     \/ LookUpFails(r)

Create(r, t, new, parentIsThere, taken) ==
  /\ Is(r, "create", t)
  /\ \/ LookUp(r, "parent")
     \/ CheckParent(r, parentIsThere)
     \/ Insert(r, new, taken)
     \/ InsertFails(r)
     \/ LookAgain(r)

-----------------------------------------------------------------------------
(* PATCH and DELETE.                                                       *)

(* Read the row; a DELETE of a row that is off has nothing to do.          *)
ReadRow(r, next) ==
  /\ pc[r] = "sent"
  /\ CASE ~There(r) -> Reply(r, "missing")
       [] There(r) /\ body[r].op = "delete" /\ Row(r).status = body[r].set.status ->
            Reply(r, "ok")
       [] OTHER -> Read(r, Only(body[r].table, Row(r)), next)
  /\ StayRows

\* Bug: a column that the body does not name is reset.
ChangedOrBlank(r, row, columns) ==
  [f \in DOMAIN row |->
     IF f \notin columns THEN row[f]
     ELSE IF f \in DOMAIN body[r].set THEN body[r].set[f] ELSE "blank"]

(* The row that the UPDATE leaves: its columns come from the copy read     *)
(* before and the body, the others stay.                                   *)
Changed(r, row, columns) ==
  [f \in DOMAIN row |->
     IF f \notin columns THEN row[f]
     ELSE IF f \in DOMAIN body[r].set THEN body[r].set[f] ELSE mem[r][body[r].table][f]]

\* r writes from a copy that is no longer what the tables hold.
IsStale(r) == \E t \in DOMAIN mem[r] : rows[t][body[r].id] # mem[r][t]

(* The UPDATE of the tables of new, by one transaction.                    *)
Update(r, new) ==
  /\ StoreAt(body[r].id, new)
  /\ ideal' = [t \in Tables |->
                 IF t \in DOMAIN new
                   THEN With(ideal[t], body[r].id, Overlay(ideal[t][body[r].id], body[r].set))
                   ELSE ideal[t]]
  /\ overlapped' = (IF IsStale(r) THEN overlapped \cup {body[r].id} ELSE overlapped)
  /\ Reply(r, "ok")
  /\ UNCHANGED failed

WriteRow(r, columns) ==
  /\ pc[r] = "write"
  /\ Update(r, Only(body[r].table, Changed(r, Row(r), columns)))

\* A statement fails, its transaction is rolled back, the client learns it.
WriteFails(r) ==
  /\ pc[r] = "write"
  /\ Reply(r, "error")
  /\ StayRows

Resource(r, t, columns) ==
  /\ body[r].op \in {"patch", "delete"} /\ body[r].table = t
  /\ \/ ReadRow(r, "write")
     \/ WriteRow(r, IF body[r].op = "delete" THEN {"status"} ELSE columns)
     \/ WriteFails(r)

\* Every request that was sent has been answered.
AllAnswered == \A r \in Requests : pc[r] = "done"

-----------------------------------------------------------------------------
(* Properties.                                                             *)

RowsTypeOK ==
  /\ DOMAIN pc = Requests /\ DOMAIN mem = Requests
  /\ \A r \in Requests : (answer[r] = "none") = (pc[r] # "done")
  /\ DOMAIN rows = Tables /\ \A t \in Tables : DOMAIN rows[t] = DOMAIN ideal[t]
  /\ failed \subseteq Requests

Creates(t, id) == {r \in Requests : /\ body[r].op \in {"create", "ownerCreate"}
                                   /\ body[r].table = t /\ body[r].id = id}

\* A row has the content of a POST's row; subscriptions and keys are made active
\* whatever is sent.
SameSent(t, held, row) ==
  IF t \in {"subscriptions", "keys"} THEN \A f \in DOMAIN held \ {"status"} : held[f] = row[f]
  ELSE held = row

(* A POST may be repeated, also while its first attempt is still running:  *)
(* at most one of the two creates the row, "repeated" means that the row   *)
(* had the content that was sent, and a conflict means that it had other   *)
(* content, that another row held a unique column, or that the INSERT or   *)
(* the look-up of this very request failed; Rival(r, id, row): <<id, row>> *)
(* excludes the row of r.                                                  *)
CreatesSettle(Rival(_, _, _)) ==
  \A t \in Tables : \A id \in {body[r].id : r \in Requests} :
    /\ Cardinality({r \in Creates(t, id) : answer[r] = "created"}) <= 1
    /\ \A r \in Creates(t, id) :
         /\ answer[r] = "repeated" =>
              \E h \in everHeld[t] : h[1] = id /\ SameSent(t, h[2], body[r].row)
         /\ answer[r] = "conflict" =>
              \/ r \in failed
              \/ \E h \in everHeld[t] : \/ h[1] = id /\ ~SameSent(t, h[2], body[r].row)
                                        \/ Rival(r, h[1], h[2])

(* Updates of a row that do not overlap leave what they would leave if     *)
(* each of them were one step: no PATCH resets what it does not name.      *)
SerialUnlessOverlapped ==
  \A t \in Tables : \A id \in DOMAIN rows[t] :
    id \in overlapped \/ rows[t][id] = ideal[t][id]
=============================================================================
