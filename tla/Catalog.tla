------------------------------ MODULE Catalog -------------------------------
(***************************************************************************)
(* GizWay's catalog under concurrent administration: providers (a row of   *)
(* Bifrost's config store and one of client_sync, written together),       *)
(* models, model listings and price lists.  A price list is replaced as a  *)
(* whole, DELETE and INSERT in one READ COMMITTED transaction, which the   *)
(* administration handlers guard by an advisory lock.                      *)
(*                                                                         *)
(* body[r].prices is the set of the [item, price] sent by a request on the *)
(* price list body[r].id, an item being a model and a metric.              *)
(***************************************************************************)
EXTENDS Rows

CONSTANT SeedLists   \* SeedLists[o]: the rows of price list o at the start

(* A list was written by one request before those that run.                *)
ASSUME SeedListsAssumption ==
  /\ \A o \in DOMAIN SeedLists : \A p, q \in SeedLists[o] : p.by = q.by
  /\ \A requests \in Scenarios : \A o \in DOMAIN SeedLists : \A p \in SeedLists[o] :
       p.by \notin DOMAIN requests

(* What a PATCH may change; a provider is created in both of its tables.   *)
ASSUME CatalogAssumption ==
  /\ \A t \in {"providers", "models", "model_listings"} : Sends("patch", t, {"name", "status"})
  /\ {"providers", "sync_providers"} \subseteq Tables /\ Seed.sync_providers = Seed.providers

VARIABLES
  lists,       \* model_customer_prices and provider_key_prices: lists[o] by owner o
  seen,        \* seen[r]: the rows that the DELETE of r has found
  claimed,     \* claimed[r]: the rows that r has deleted and not committed
  \* history
  overtaken,   \* the lists committed by a request that another one had overtaken
  everListed   \* every <<owner, prices>> there has been, as rows or as JSON

listVars == <<lists, seen, claimed, overtaken, everListed>>

\* The prices of a list, without the row each of them is stored in.
Prices(list) == {[item |-> p.item, price |-> p.price] : p \in list}
ListOf(r)    == {[item |-> p.item, price |-> p.price, by |-> r] : p \in body[r].prices}

CatalogInit ==
  /\ lists = SeedLists
  /\ seen = [r \in Requests |-> {}] /\ claimed = [r \in Requests |-> {}]
  /\ overtaken = {}
  /\ everListed = {<<o, Prices(SeedLists[o])>> : o \in DOMAIN SeedLists}

\* The rows of a list; nobody has priced a new model yet.
ListAt(o) == IF o \in DOMAIN lists THEN lists[o] ELSE {}

IsOn(t, id) == Exists(t, id) /\ rows[t][id].status = "on"

-----------------------------------------------------------------------------
(* Providers, models and listings.                                         *)

BothProviderRows(row) == [providers |-> row, sync_providers |-> row]

AdminProviders(r) ==
  /\ Is(r, "create", "providers")
  /\ \/ LookUp(r, "insert")
     \/ Insert(r, BothProviderRows(body[r].row), FALSE)
     \/ InsertFails(r)
     \/ LookAgain(r)

\* updateAdminProvider: the whole record goes to both tables.
UpdateAdminProvider(r) ==
  /\ pc[r] = "write"
  /\ Update(r, BothProviderRows(Changed(r, Row(r), {"name", "status"})))

AdminProviderResource(r) ==
  /\ body[r].op \in {"patch", "delete"} /\ body[r].table = "providers"
  /\ ReadRow(r, "write") \/ UpdateAdminProvider(r) \/ WriteFails(r)

AdminModels(r) ==
  Create(r, "models", [models |-> body[r].row], Exists("providers", body[r].row.parent), FALSE)

AdminModelResource(r) == Resource(r, "models", {"name", "status"})

\* model_listings has UNIQUE(model_id).
ListingTaken(r) == \E id \in DOMAIN rows.model_listings :
                     rows.model_listings[id].parent = body[r].row.parent

AdminModelListings(r) ==
  Create(r, "model_listings", [model_listings |-> body[r].row],
         Exists("models", body[r].row.parent), ListingTaken(r))

AdminModelListingResource(r) == Resource(r, "model_listings", {"name", "status"})

-----------------------------------------------------------------------------
(* Replacing a price list.                                                 *)

InTransaction == {"check", "delete", "deleting", "commit"}
IsPut(r) == body[r].op \in {"put", "ownerPut"}

\* The handlers other than r that are replacing the same list.
Rivals(r) == {q \in Requests \ {r} : IsPut(q) /\ pc[q] \in InTransaction /\ body[q].id = body[r].id}

End(r, how) == Reply(r, how) /\ claimed' = [claimed EXCEPT ![r] = {}]

\* Bug: the list's advisory lock is not taken.
TakeLockNot(r) ==
  /\ pc[r] = "lock"
  /\ Goto(r, "check")
  /\ StayRows /\ UNCHANGED listVars

\* pg_advisory_xact_lock of the list: held by the administration's handlers only.
TakeLock(r) ==
  /\ pc[r] = "lock"
  /\ \A q \in Rivals(r) : body[q].op # "put"
  /\ Goto(r, "check")
  /\ StayRows /\ UNCHANGED listVars

\* What the list belongs to, and the models it names, are looked up.
CheckList(r, valid) ==
  /\ pc[r] = "check"
  /\ IF valid THEN Goto(r, "delete") ELSE Reply(r, "missing")
  /\ StayRows /\ UNCHANGED listVars

\* The DELETE finds the rows committed when it starts ...
StartDelete(r) ==
  /\ pc[r] = "delete"
  /\ seen' = [seen EXCEPT ![r] = ListAt(body[r].id)]
  /\ Goto(r, "deleting")
  /\ StayRows /\ UNCHANGED <<lists, claimed, overtaken, everListed>>

\* ... waits for the transactions that are deleting some of them, and deletes
\* those that are left.
FinishDelete(r) ==
  /\ pc[r] = "deleting"
  /\ \A q \in Rivals(r) : claimed[q] \cap seen[r] = {}
  /\ claimed' = [claimed EXCEPT ![r] = seen[r] \cap ListAt(body[r].id)]
  /\ Goto(r, "commit")
  /\ StayRows /\ UNCHANGED <<lists, seen, overtaken, everListed>>

\* The rows of others whose primary key a row of r's list has.
Clashes(r) == {p \in ListAt(body[r].id) \ claimed[r] :
                 \E new \in body[r].prices : new.item = p.item}

Replaced(r) == (ListAt(body[r].id) \ claimed[r]) \cup ListOf(r)

\* The INSERTs and the Commit.
CommitList(r) ==
  /\ pc[r] = "commit" /\ Clashes(r) = {}
  /\ lists' = With(lists, body[r].id, Replaced(r))
  /\ everListed' = everListed \cup {<<body[r].id, Prices(Replaced(r))>>,
                                   <<body[r].id, body[r].prices>>}
  /\ overtaken' = (IF seen[r] # ListAt(body[r].id) THEN overtaken \cup {body[r].id}
                   ELSE overtaken)
  /\ End(r, "ok")
  /\ StayRows /\ UNCHANGED <<seen>>

\* An INSERT meets a row of another list, or any statement fails: rolled back.
ListFails(r) ==
  /\ pc[r] \in InTransaction
  /\ End(r, "error")
  /\ StayRows /\ UNCHANGED <<lists, seen, overtaken, everListed>>

Replace(r, valid) ==
  TakeLock(r) \/ CheckList(r, valid) \/ StartDelete(r) \/ FinishDelete(r) \/ ListFails(r)

AdminModelCustomerPrices(r) ==
  /\ Is(r, "put", "models")
  /\ \/ /\ pc[r] = "sent"
        /\ IF There(r) THEN Goto(r, "lock") ELSE Reply(r, "missing")
        /\ StayRows /\ UNCHANGED listVars
     \/ Replace(r, There(r))
     \/ CommitList(r)

CatalogNext(r) ==
  \/ /\ \/ AdminProviders(r) \/ AdminProviderResource(r)
        \/ AdminModels(r) \/ AdminModelResource(r)
        \/ AdminModelListings(r) \/ AdminModelListingResource(r)
     /\ UNCHANGED listVars
  \/ AdminModelCustomerPrices(r)
=============================================================================
