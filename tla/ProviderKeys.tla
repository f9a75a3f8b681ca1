----------------------------- MODULE ProviderKeys -----------------------------
(***************************************************************************)
(* GizWay's provider keys.  A key lives in three tables: Bifrost's config  *)
(* store ("bifrost": name, status, secret), provider_key_billing           *)
(* ("billing": owner, name, status) and client_sync.provider_keys ("sync": *)
(* all of them, and the price list as JSON).  Administrators create,       *)
(* change, rotate, price and delete keys, owners create, price and disable *)
(* theirs, and calls pick the keys to use (resolveCall) meanwhile.         *)
(*                                                                         *)
(* An update reads client_sync, then the record in Bifrost, and writes the *)
(* record back as a whole in the transaction that updates the other two.   *)
(***************************************************************************)
EXTENDS Catalog, Directory

(* Models and keys have their prices in tables of their own, and requests  *)
(* send prices of items.                                                   *)
ASSUME PricesAssumption ==
  /\ {"bifrost", "billing", "sync"} \subseteq DOMAIN Seed
  /\ \A requests \in Scenarios : \A r \in DOMAIN requests :
       /\ requests[r].op = "put" /\ requests[r].table = "models" =>
            /\ requests[r].id \notin DOMAIN Seed.sync
            /\ \A q \in DOMAIN requests : requests[q].table = "sync" => requests[q].id # requests[r].id
       /\ \/ requests[r].op \in {"put", "ownerPut"}
          \/ requests[r].op \in {"create", "ownerCreate"} /\ requests[r].table = "sync"
          => \A p \in requests[r].prices : p = [item |-> p.item, price |-> p.price]

VARIABLES
  json,       \* json[k]: prices_json of client_sync.provider_keys
  merchants,  \* gizway_user_merchants: the merchant of an owner, once asked for
  offered,    \* offered[r]: the keys that a call has found usable so far
  \* history
  offSince    \* offSince[r]: the keys that have been off since call r began

keyVars == <<json, merchants, offered>>
KeyTables == {"bifrost", "billing", "sync"}
OffKeys == {k \in DOMAIN rows.billing : rows.billing[k].status = "off"}

KeysInit ==
  /\ json = [k \in DOMAIN Seed.sync |-> Prices(SeedLists[k])]
  /\ merchants = Nothing
  /\ offered = [r \in Requests |-> {}]
  /\ offSince = [r \in Requests |-> {}]

-----------------------------------------------------------------------------
(* Creating a key.                                                         *)

\* The three rows of a key with the content of a client_sync row.
BifrostRow(row) == [parent |-> row.parent, name |-> row.name, status |-> row.status,
                    secret |-> row.secret]
BillingRow(row) == [owner |-> row.owner, name |-> row.name, status |-> row.status]
KeyRows(row) == [bifrost |-> BifrostRow(row), billing |-> BillingRow(row), sync |-> row]
KeyColumns == {"parent", "owner", "name", "status", "secret"}

(* What a change of a key may change; a key is created in its three tables.*)
ASSUME KeysAssumption ==
  /\ Sends("patch", "sync", {"name", "status"}) /\ Sends("rotate", "sync", {"secret"})
  /\ Sends("disable", "sync", {"status"})
  /\ DOMAIN Seed.bifrost = DOMAIN Seed.sync /\ DOMAIN Seed.billing = DOMAIN Seed.sync
  /\ DOMAIN Seed.sync \subseteq DOMAIN SeedLists
  /\ \A k \in DOMAIN Seed.sync : /\ KeyColumns \subseteq DOMAIN Seed.sync[k]
                                 /\ Seed.bifrost[k] = BifrostRow(Seed.sync[k])
                                 /\ Seed.billing[k] = BillingRow(Seed.sync[k])
  /\ \A requests \in Scenarios : \A r \in DOMAIN requests :
       requests[r].op \in {"create", "ownerCreate"} /\ requests[r].table = "sync" =>
         KeyColumns \subseteq DOMAIN requests[r].row

\* Every priced model is active and belongs to the key's provider.
ModelsUsable(r, provider) ==
  \A p \in body[r].prices : /\ IsOn("models", p.item[1])
                            /\ rows.models[p.item[1]].parent = provider

ReplySame(r, same) == Reply(r, IF same THEN "repeated" ELSE "conflict")

\* sameAdminProviderKey compares the price rows, read after the key; the
\* owner's POST compares the JSON.  If the prices, or a second time the key,
\* cannot be read, the administrator learns of a conflict.
CompareKey(r) == IF Same(r) THEN Goto(r, "prices") ELSE Reply(r, "conflict")
SameAdminPrices(r) == Prices(ListAt(body[r].id)) = body[r].prices
SameOwnerKey(r) == Same(r) /\ json[body[r].id] = body[r].prices

Stay == StayRows /\ UNCHANGED <<listVars, keyVars>>

\* The transaction: the models are validated, then rows, prices and JSON inserted.
InsertKey(r) ==
  LET k == body[r].id IN
  /\ pc[r] = "insert" /\ ModelsUsable(r, body[r].row.parent)
  /\ Insert(r, KeyRows(body[r].row), FALSE)
  /\ IF There(r) THEN UNCHANGED <<listVars, keyVars>>
     ELSE /\ lists' = With(lists, k, ListOf(r))
          /\ json' = With(json, k, body[r].prices)
          /\ everListed' = everListed \cup {<<k, body[r].prices>>}
          /\ UNCHANGED <<seen, claimed, overtaken, merchants, offered>>

\* errUnavailableProviderModel: the owner's POST still looks for the key.
ModelUnusable(r) ==
  /\ pc[r] = "insert" /\ ~ModelsUsable(r, body[r].row.parent)
  /\ IF body[r].op = "create" THEN Reply(r, "missing") ELSE Goto(r, "again")
  /\ Stay

InsertKeyFails(r) == InsertFails(r) /\ UNCHANGED <<listVars, keyVars>>

AdminProviderKeys(r) ==
  /\ Is(r, "create", "sync")
  /\ \/ /\ pc[r] = "sent"
        /\ IF There(r) THEN CompareKey(r) ELSE Goto(r, "parent")
        /\ Stay
     \/ /\ pc[r] = "parent"
        /\ IF IsOn("providers", body[r].row.parent) THEN Goto(r, "insert")
           ELSE Reply(r, "missing")
        /\ Stay
     \/ InsertKey(r) \/ ModelUnusable(r) \/ InsertKeyFails(r)
     \/ pc[r] = "again" /\ CompareKey(r) /\ Stay
     \/ pc[r] = "prices" /\ ReplySame(r, SameAdminPrices(r)) /\ Stay
     \/ /\ pc[r] \in {"again", "prices"} /\ LookUpFails(r)
        /\ UNCHANGED <<listVars, keyVars>>

\* GET /account/v1/merchants of GizPay, which may fail: the owner must have
\* one default merchant.
AskMerchant(r) ==
  LET owner == body[r].row.owner IN
  \/ \E m \in Defaults(owner) : /\ Defaults(owner) = {m}
                                /\ Goto(r, "insert") /\ merchants' = With(merchants, owner, m)
  \/ Reply(r, "error") /\ UNCHANGED merchants

OwnerMerchant(r) ==
  /\ pc[r] = "merchant"
  /\ IF body[r].row.owner \in DOMAIN merchants THEN Goto(r, "insert") /\ UNCHANGED merchants
     ELSE AskMerchant(r)
  /\ StayRows /\ UNCHANGED <<listVars, json, offered>>

CreateProviderKey(r) ==
  /\ Is(r, "ownerCreate", "sync")
  /\ \/ /\ pc[r] = "sent"
        /\ IF IsOn("providers", body[r].row.parent) THEN Goto(r, "lookup")
           ELSE Reply(r, "missing")
        /\ Stay
     \/ /\ pc[r] = "lookup"
        /\ IF There(r) THEN ReplySame(r, SameOwnerKey(r)) ELSE Goto(r, "merchant")
        /\ Stay
     \/ OwnerMerchant(r)
     \/ InsertKey(r) \/ ModelUnusable(r) \/ InsertKeyFails(r)
     \/ /\ pc[r] = "again"
        /\ \/ There(r) /\ ReplySame(r, SameOwnerKey(r))
           \/ Reply(r, "error")
        /\ Stay

-----------------------------------------------------------------------------
(* Changing a key.                                                         *)

Owns(r) == There(r) /\ rows.billing[body[r].id].owner = body[r].owner

\* Stores.Key: the record in Bifrost, read outside the transaction.
ReadRecord(r) ==
  /\ pc[r] = "record"
  /\ Read(r, With(mem[r], "bifrost", rows.bifrost[body[r].id]), "write")
  /\ Stay

UpdateKey(r, new) == pc[r] = "write" /\ Update(r, new) /\ UNCHANGED <<listVars, keyVars>>
KeyFails(r) == /\ pc[r] \in {"record", "write"} /\ Reply(r, "error") /\ Stay

\* Bug: the billing row is forgotten.
UpdateAdminProviderKeyTwo(r) ==
  LET k == body[r].id
      change == Overlay([name |-> mem[r].sync.name, status |-> mem[r].sync.status], body[r].set)
  IN UpdateKey(r, [bifrost |-> Overlay(mem[r].bifrost, change),
                   sync    |-> Overlay(rows.sync[k], change)])

\* updateAdminProviderKey: name and status, as read from client_sync and changed.
UpdateAdminProviderKey(r) ==
  LET k == body[r].id
      change == Overlay([name |-> mem[r].sync.name, status |-> mem[r].sync.status], body[r].set)
  IN UpdateKey(r, [bifrost |-> Overlay(mem[r].bifrost, change),
                   billing |-> Overlay(rows.billing[k], change),
                   sync    |-> Overlay(rows.sync[k], change)])

AdminProviderKeyResource(r) ==
  /\ body[r].op \in {"patch", "delete"} /\ body[r].table = "sync"
  /\ \/ ReadRow(r, "record") /\ UNCHANGED <<listVars, keyVars>>
     \/ ReadRecord(r) \/ UpdateAdminProviderKey(r) \/ KeyFails(r)

AdminProviderKeyRotateSecret(r) ==
  /\ Is(r, "rotate", "sync")
  /\ \/ ReadRow(r, "record") /\ UNCHANGED <<listVars, keyVars>>
     \/ ReadRecord(r)
     \/ UpdateKey(r, [bifrost |-> Overlay(mem[r].bifrost, body[r].set),
                      sync    |-> Overlay(rows.sync[body[r].id], body[r].set)])
     \/ KeyFails(r)

DisableProviderKey(r) ==
  /\ Is(r, "disable", "sync")
  /\ \/ /\ pc[r] = "sent"
        /\ IF Owns(r) THEN Goto(r, "record") ELSE Reply(r, "missing")
        /\ Stay
     \/ ReadRecord(r)
     \/ UpdateKey(r, [bifrost |-> Overlay(mem[r].bifrost, body[r].set),
                      billing |-> Overlay(rows.billing[body[r].id], body[r].set),
                      sync    |-> Overlay(rows.sync[body[r].id], body[r].set)])
     \/ KeyFails(r)

-----------------------------------------------------------------------------
(* Pricing a key.                                                          *)

\* Commit of a key's list: its JSON is written by the same transaction.
CommitKeyList(r) ==
  /\ CommitList(r)
  /\ json' = With(json, body[r].id, body[r].prices)
  /\ UNCHANGED <<merchants, offered>>

KeyListUsable(r) == There(r) /\ ModelsUsable(r, rows.sync[body[r].id].parent)

AdminProviderKeyPrices(r) ==
  /\ Is(r, "put", "sync")
  /\ \/ /\ pc[r] = "sent"
        /\ IF There(r) THEN Goto(r, "lock") ELSE Reply(r, "missing")
        /\ Stay
     \/ Replace(r, KeyListUsable(r)) /\ UNCHANGED keyVars
     \/ CommitKeyList(r)

\* The owner's handler takes no lock.
PutProviderKeyPrices(r) ==
  /\ Is(r, "ownerPut", "sync")
  /\ \/ pc[r] = "sent" /\ Goto(r, "check") /\ Stay
     \/ Replace(r, Owns(r) /\ KeyListUsable(r)) /\ UNCHANGED keyVars
     \/ CommitKeyList(r)

-----------------------------------------------------------------------------
(* resolveCall: a call picks the keys it may use.                          *)

\* The model and the metrics its customers pay for.
ResolveModel(r) ==
  /\ pc[r] = "sent"
  /\ IF IsOn("models", body[r].id)
       THEN Read(r, [items |-> {p.item : p \in ListAt(body[r].id)}], "keys")
       ELSE Reply(r, "missing")
  /\ Stay

\* The provider is active: the keys that Bifrost has enabled.
ResolveKeys(r) ==
  /\ pc[r] = "keys"
  /\ LET provider == rows.models[body[r].id].parent IN
     IF IsOn("providers", provider)
       THEN Read(r, With(mem[r], "keys",
                         {k \in DOMAIN rows.bifrost : /\ rows.bifrost[k].parent = provider
                                                      /\ rows.bifrost[k].status = "on"}), "each")
       ELSE Reply(r, "missing")
  /\ Stay

\* Bug: what Bifrost says of the key is enough.
UsableByBifrost(k, items) == items # {} /\ items \subseteq {p.item : p \in ListAt(k)}

\* The key's billing row is active and its prices cover the customers' metrics.
Usable(k, items) ==
  /\ rows.billing[k].status = "on"
  /\ items # {} /\ items \subseteq {p.item : p \in ListAt(k)}

\* A key of which the billing row cannot be read is passed over as well.
ResolveKey(r) ==
  /\ pc[r] = "each"
  /\ \E k \in mem[r].keys :
       /\ Read(r, With(mem[r], "keys", mem[r].keys \ {k}), "each")
       /\ \/ Usable(k, mem[r].items) /\ offered' = [offered EXCEPT ![r] = @ \cup {k}]
          \/ UNCHANGED offered
  /\ StayRows /\ UNCHANGED <<listVars, json, merchants>>

ResolveCall(r) ==
  /\ Is(r, "resolve", "models")
  /\ \/ ResolveModel(r) \/ ResolveKeys(r) \/ ResolveKey(r)
     \/ /\ pc[r] = "each" /\ mem[r].keys = {}
        /\ Reply(r, IF offered[r] = {} THEN "missing" ELSE "ok") /\ Stay

-----------------------------------------------------------------------------
KeyNext(r) ==
  \/ CatalogNext(r) /\ UNCHANGED keyVars
  \/ AdminProviderKeys(r) \/ CreateProviderKey(r)
  \/ AdminProviderKeyResource(r) \/ AdminProviderKeyRotateSecret(r) \/ DisableProviderKey(r)
  \/ AdminProviderKeyPrices(r) \/ PutProviderKeyPrices(r)
  \/ ResolveCall(r)

\* Keys off since a call began: those off at its first step, until they are on.
WatchKeys(r) ==
  offSince' = [q \in Requests |->
                 (IF q = r /\ pc[r] = "sent" THEN OffKeys ELSE offSince[q]) \cap OffKeys']

-----------------------------------------------------------------------------
(* Properties.                                                             *)

\* A listing's rival is one of the same model; of a key the prices count as
\* content.
GizWayRival(r, id, row) ==
  \/ body[r].table = "model_listings" /\ row.parent = body[r].row.parent
  \/ /\ body[r].table = "sync" /\ id = body[r].id
     /\ \E prices \in {e[2] : e \in {f \in everListed : f[1] = id}} : prices # body[r].prices

(* Unless an update was written from a stale copy, the copies of a row     *)
(* agree: Bifrost's and client_sync's row of a provider, and the three     *)
(* rows of a key.                                                          *)
CopiesAgreeUnlessOverlapped ==
  /\ \A p \in DOMAIN rows.providers :
       p \in overlapped \/ rows.sync_providers[p] = rows.providers[p]
  /\ \A k \in DOMAIN rows.sync :
       \/ k \in overlapped
       \/ /\ rows.bifrost[k] = BifrostRow(rows.sync[k])
          /\ rows.billing[k] = BillingRow(rows.sync[k])

(* A price list is the list of one request, and a key's JSON says the      *)
(* same; only the owner's PUT, which takes no advisory lock, may mix its   *)
(* prices with those of a request it overlaps.                             *)
ListsAreWhole ==
  /\ \A o \in DOMAIN lists \ overtaken :
       /\ \A p, q \in lists[o] : p.by = q.by
       /\ o \in DOMAIN json => json[o] = Prices(lists[o])
  /\ \A o \in overtaken : \E r \in Requests : /\ body[r].op = "ownerPut" /\ body[r].id = o

(* A call is never offered a key that was disabled before the call began   *)
(* and has not been switched on since, even when a secret rotated from a   *)
(* stale copy has enabled the key in Bifrost again.                        *)
DisabledKeyIsNotOffered == \A r \in Requests : offered[r] \cap offSince[r] = {}
=============================================================================
