------------------------------ MODULE Directory ------------------------------
(***************************************************************************)
(* GizPay's identities, merchants, products, listings, subscriptions, keys *)
(* and service principals under concurrent requests of owners, of the      *)
(* administration and of the identity provider's webhook.                  *)
(*                                                                         *)
(* initializeIdentity runs in one READ COMMITTED transaction, and so does  *)
(* revokeServiceAccount, which calls the identity provider while it holds  *)
(* the principal's row; the other handlers run statement by statement.     *)
(*                                                                         *)
(* An identity stands for its user, account, ledger account and balance    *)
(* row, which are created with it.                                         *)
(***************************************************************************)
EXTENDS Rows

CONSTANT NewID   \* NewID[r]: the ID that GizPay chooses for what r creates

(* It is a UUID: nobody has used it, and no request names it.              *)
ASSUME NewIDAssumption ==
  \A requests \in Scenarios : \A r \in DOMAIN requests :
    /\ NewID[r] \notin DOMAIN Seed.merchants \cup DOMAIN Seed.principals
    /\ \A p \in DOMAIN Seed.principals : Seed.principals[p].key # NewID[r]
    /\ \A q \in DOMAIN requests :
         /\ NewID[q] = NewID[r] => q = r
         /\ requests[q].op = "initialize" => requests[q].want # NewID[r]
         /\ requests[q].op = "create" /\ requests[q].table = "principals" =>
              requests[q].id # NewID[r] /\ requests[q].row.key # NewID[r]

(* The columns that the database's schema requires, and the default        *)
(* merchant of each user, which initializeIdentity has made.               *)
ASSUME IdentitiesAssumption ==
  /\ {"users", "profiles", "merchants"} \subseteq DOMAIN Seed
  /\ \A m \in DOMAIN Seed.merchants :
       /\ {"owner", "status", "default"} \subseteq DOMAIN Seed.merchants[m]
       /\ Seed.merchants[m].default => /\ Seed.merchants[m].owner \in DOMAIN Seed.users
                                       /\ Seed.merchants[m].status = "on"
  /\ \A i \in DOMAIN Seed.users :
       /\ i \in DOMAIN Seed.profiles
       /\ {m \in DOMAIN Seed.merchants : Seed.merchants[m].owner = i /\ Seed.merchants[m].default}
            = {Seed.profiles[i].merchant}
  /\ \A requests \in Scenarios : \A r \in DOMAIN requests :
       requests[r].op = "post" /\ requests[r].table = "merchants" =>
         {"owner", "default"} \subseteq DOMAIN requests[r].row /\ ~requests[r].row.default

(* Keys and principals are made active, and a revocation revokes; what was *)
(* revoked before has no credential left.                                  *)
ASSUME CredentialsAssumption ==
  /\ {"keys", "principals"} \subseteq DOMAIN Seed
  /\ \A k \in DOMAIN Seed.keys : /\ "status" \in DOMAIN Seed.keys[k]
                                 /\ Seed.keys[k].status \in {"on", "revoked"}
  /\ \A p \in DOMAIN Seed.principals :
       /\ {"status", "key"} \subseteq DOMAIN Seed.principals[p]
       /\ Seed.principals[p].status = "revoked" => Seed.principals[p].key = "none"
  /\ \A requests \in Scenarios : \A r \in DOMAIN requests :
       /\ requests[r].op = "revoke" => requests[r].set = [status |-> "revoked"]
       /\ requests[r].op \in {"create", "post"} /\ requests[r].table \in {"keys", "principals"} =>
            /\ "status" \in DOMAIN requests[r].row /\ requests[r].row.status = "on"
            /\ requests[r].table = "principals" => "key" \in DOMAIN requests[r].row

(* What a PATCH may change.                                                *)
ASSUME DirectoryAssumption ==
  /\ \A t \in {"merchants", "products"} : Sends("ownerPatch", t, {"name", "status"})
  /\ Sends("patch", "products", {"name", "status", "published", "terms"})
  /\ Sends("patch", "product_listings", {"name", "status"})
  /\ Sends("patch", "principals", {"name", "roles"})
  /\ \A requests \in Scenarios : \A r \in DOMAIN requests :
       /\ requests[r].op = "ownerPatch" /\ requests[r].table = "merchants"
       /\ "status" \in DOMAIN requests[r].set
       => requests[r].set.status \in {"on", "off"}

VARIABLE alive   \* the credentials that the identity provider accepts

DirectoryInit ==
  alive = {Seed.principals[p].key : p \in DOMAIN Seed.principals} \ {"none"}

-----------------------------------------------------------------------------
(* initializeIdentity: body[r].id is the identity, want the merchant ID    *)
(* that the webhook asks for, or "any".                                    *)

Wants(r) == body[r].want # "any"
Defaults(i) == {m \in DOMAIN rows.merchants : /\ rows.merchants[m].owner = i
                                              /\ rows.merchants[m].default}

\* The requests that hold the users row of an identity.
Holding(i) == {q \in Requests : Is(q, "initialize", "users") /\ body[q].id = i
                                /\ pc[q] \in {"merchant", "default", "commit"}}
\* The merchants that transactions have inserted and not committed.
Pending(q) == IF Is(q, "initialize", "users") /\ pc[q] \in {"default", "commit"}
                THEN mem[q].inserted ELSE {}

InitializeLookUp(r) ==
  /\ pc[r] = "sent"
  /\ IF Wants(r) /\ Defaults(body[r].id) \notin {{}, {body[r].want}} THEN Reply(r, "conflict")
     ELSE Goto(r, IF Wants(r) /\ Defaults(body[r].id) = {} THEN "requested" ELSE "user")
  /\ StayRows

\* The ID asked for is taken.
InitializeRequested(r) ==
  /\ pc[r] = "requested"
  /\ IF Exists("merchants", body[r].want) THEN Reply(r, "conflict") ELSE Goto(r, "user")
  /\ StayRows

\* The upsert waits for the transactions of the same identity.
UpsertUser(r) ==
  /\ pc[r] = "user" /\ Holding(body[r].id) = {}
  /\ Goto(r, "merchant") /\ StayRows

\* INSERT ... ON CONFLICT DO NOTHING waits for who has inserted the same ID.
InsertMerchant(r) ==
  LET m == IF Wants(r) THEN body[r].want ELSE NewID[r] IN
  /\ pc[r] = "merchant"
  /\ \A q \in Requests \ {r} : m \notin Pending(q)
  /\ Read(r, [inserted |-> IF Exists("merchants", m) \/ Defaults(body[r].id) # {} THEN {}
                           ELSE {m}], "default")
  /\ StayRows

\* Bug: the default found is not compared with the merchant asked for.
CheckDefaultNot(r) ==
  LET found == Defaults(body[r].id) \cup mem[r].inserted IN
  /\ pc[r] = "default"
  /\ IF found = {} THEN Reply(r, IF Wants(r) THEN "conflict" ELSE "error")
     ELSE Read(r, [inserted |-> mem[r].inserted, merchant |-> CHOOSE m \in found : TRUE], "commit")
  /\ StayRows

\* The default merchant is there, and it is the one asked for.
CheckDefault(r) ==
  LET found == Defaults(body[r].id) \cup mem[r].inserted IN
  /\ pc[r] = "default"
  /\ IF found = {} \/ (Wants(r) /\ found # {body[r].want})
       THEN Reply(r, IF Wants(r) THEN "conflict" ELSE "error")
     ELSE Read(r, [inserted |-> mem[r].inserted, merchant |-> CHOOSE m \in found : TRUE], "commit")
  /\ StayRows

\* The user's profile is upserted, and the transaction commits.
CommitIdentity(r) ==
  LET i == body[r].id
      user == [users |-> [name |-> body[r].name],
               profiles |-> [name |-> body[r].name, merchant |-> mem[r].merchant]]
      added == [m \in mem[r].inserted |->
                  [owner |-> i, name |-> body[r].name, status |-> "on", default |-> TRUE]]
      Add(table, t) == IF t \in DOMAIN user THEN With(table[t], i, user[t])
                       ELSE IF t = "merchants" THEN [m \in DOMAIN added \cup DOMAIN table[t] |->
                                                IF m \in DOMAIN added THEN added[m] ELSE table[t][m]]
                       ELSE table[t]
  IN
  /\ pc[r] = "commit"
  /\ rows' = [t \in Tables |-> Add(rows, t)] /\ ideal' = [t \in Tables |-> Add(ideal, t)]
  /\ everHeld' = [everHeld EXCEPT !.merchants = @ \cup {<<m, added[m]>> : m \in DOMAIN added}]
  /\ Reply(r, "ok")
  /\ UNCHANGED <<overlapped, failed>>

\* A statement or the Commit fails; everything is rolled back.
InitializeFails(r) == pc[r] \in {"merchant", "default", "commit"} /\ Reply(r, "error") /\ StayRows

InitializeIdentity(r) ==
  /\ Is(r, "initialize", "users")
  /\ \/ InitializeLookUp(r) \/ InitializeRequested(r) \/ UpsertUser(r) \/ InsertMerchant(r)
     \/ CheckDefault(r) \/ CommitIdentity(r) \/ InitializeFails(r)

-----------------------------------------------------------------------------
(* Merchants and products.  An owner is an identity.                       *)

\* The INSERT of a row under an ID that GizPay chooses.
InsertFresh(r, ownerIsThere) ==
  /\ pc[r] = "sent"
  /\ IF ownerIsThere THEN Goto(r, "insertFresh") ELSE Reply(r, "missing")
  /\ StayRows

Merchants(r) ==
  /\ Is(r, "post", "merchants")
  /\ \/ InsertFresh(r, Exists("users", body[r].row.owner))
     \/ /\ pc[r] = "insertFresh"
        /\ AddAt(NewID[r], [merchants |-> body[r].row]) /\ Reply(r, "created")
        /\ UNCHANGED failed

OwnsMerchant(r, m) == Exists("merchants", m) /\ rows.merchants[m].owner = body[r].owner

MerchantProducts(r) ==
  /\ Is(r, "post", "products")
  /\ \/ InsertFresh(r, OwnsMerchant(r, body[r].row.parent))
     \/ /\ pc[r] = "insertFresh"
        /\ AddAt(NewID[r], [products |-> body[r].row]) /\ Reply(r, "created")
        /\ UNCHANGED failed

\* A PATCH of an owner: rows of others are not there.
OwnerResource(r, t, owns, columns) ==
  /\ Is(r, "ownerPatch", t)
  /\ \/ owns /\ ReadRow(r, "write")
     \/ pc[r] = "sent" /\ ~owns /\ Reply(r, "missing") /\ StayRows
     \/ WriteRow(r, columns)
     \/ WriteFails(r)

\* The default merchant cannot be switched off.
KeepsDefault(r) ==
  ~ (Row(r).default /\ "status" \in DOMAIN body[r].set /\ body[r].set.status = "off")

MerchantResource(r) ==
  \/ /\ Is(r, "ownerPatch", "merchants")
     /\ OwnsMerchant(r, body[r].id) => KeepsDefault(r)
     /\ OwnerResource(r, "merchants", OwnsMerchant(r, body[r].id), {"name", "status"})
  \/ /\ Is(r, "ownerPatch", "merchants") /\ pc[r] = "sent"
     /\ OwnsMerchant(r, body[r].id) /\ ~KeepsDefault(r)
     /\ Reply(r, "in use") /\ StayRows

OwnsProduct(r) == There(r) /\ OwnsMerchant(r, Row(r).parent)

ProductResource(r) == OwnerResource(r, "products", OwnsProduct(r), {"name", "status"})

AdminProducts(r) ==
  Create(r, "products", [products |-> body[r].row], Exists("merchants", body[r].row.parent), FALSE)

AdminProductResource(r) == Resource(r, "products", {"name", "status", "published", "terms"})

\* UNIQUE(product_id, site).
ProductListingTaken(r) ==
  \E l \in DOMAIN rows.product_listings : /\ rows.product_listings[l].parent = body[r].row.parent
                                  /\ rows.product_listings[l].site = body[r].row.site

AdminProductListings(r) ==
  Create(r, "product_listings", [product_listings |-> body[r].row], Exists("products", body[r].row.parent),
         ProductListingTaken(r))

AdminProductListingResource(r) == Resource(r, "product_listings", {"name", "status"})

-----------------------------------------------------------------------------
(* Subscriptions and their keys.                                           *)

\* The row has the content of r, its status aside.
SameContent(r) == There(r) /\ \A f \in DOMAIN Row(r) \ {"status"} : Row(r)[f] = body[r].row[f]

LookUpContent(r, next) ==
  IF There(r) THEN Reply(r, IF SameContent(r) THEN "repeated" ELSE "conflict")
  ELSE Goto(r, next)

Subscribed(r) == {s \in DOMAIN rows.subscriptions :
                    /\ rows.subscriptions[s].owner = body[r].row.owner
                    /\ rows.subscriptions[s].parent = body[r].row.parent}

\* INSERT ... ON CONFLICT DO NOTHING; any other failure ends the request.
InsertOrAgain(r, taken) ==
  /\ pc[r] = "insert"
  /\ IF There(r) \/ taken THEN Goto(r, "again") /\ UNCHANGED <<rows, historyVars>>
     ELSE AddAt(body[r].id, Only(body[r].table, body[r].row)) /\ Reply(r, "created")
  /\ UNCHANGED failed

InsertErrors(r) == pc[r] = "insert" /\ Reply(r, "error") /\ StayRows

\* Nothing was inserted: the same request, or another row, was first.  A look-up
\* that fails counts as a conflict of subscriptions, and is an error of keys.
InsertedByOther(r) ==
  /\ pc[r] = "again"
  /\ \/ Reply(r, IF SameContent(r) THEN "repeated" ELSE "conflict") /\ StayRows
     \/ body[r].table = "subscriptions" /\ LookUpFails(r)
     \/ body[r].table = "keys" /\ Reply(r, "error") /\ StayRows

CreateSubscription(r) ==
  /\ Is(r, "create", "subscriptions")
  /\ \/ pc[r] = "sent" /\ LookUpContent(r, "terms") /\ StayRows
     \/ /\ pc[r] = "terms"
        /\ LET p == body[r].row.parent IN
           IF ~ (/\ Exists("products", p)
                 /\ rows.products[p].status = "on" /\ rows.products[p].published)
             THEN Reply(r, "missing")
           ELSE IF rows.products[p].terms # body[r].row.terms THEN Reply(r, "other terms")
           ELSE Goto(r, "other")
        /\ StayRows
     \/ /\ pc[r] = "other"
        /\ IF Subscribed(r) \subseteq {body[r].id} THEN LookUpContent(r, "insert")
           ELSE Reply(r, "conflict")
        /\ StayRows
     \/ InsertOrAgain(r, Subscribed(r) # {})
     \/ InsertErrors(r) \/ InsertedByOther(r)

OwnsSubscription(r, s) ==
  Exists("subscriptions", s) /\ rows.subscriptions[s].owner = body[r].owner

\* One UPDATE sets the status.
SubscriptionResource(r) ==
  /\ Is(r, "ownerPatch", "subscriptions")
  /\ \/ /\ pc[r] = "sent"
        /\ IF OwnsSubscription(r, body[r].id) THEN Goto(r, "write") ELSE Reply(r, "missing")
        /\ StayRows
     \/ pc[r] = "write" /\ Update(r, [subscriptions |-> Overlay(Row(r), body[r].set)])
     \/ WriteFails(r)

SubscriptionKeys(r) ==
  /\ Is(r, "create", "keys")
  /\ \/ /\ pc[r] = "sent"
        /\ IF OwnsSubscription(r, body[r].row.parent) THEN Goto(r, "lookup")
           ELSE Reply(r, "missing")
        /\ StayRows
     \/ pc[r] = "lookup" /\ LookUpContent(r, "insert") /\ StayRows
     \/ InsertOrAgain(r, FALSE) \/ InsertErrors(r) \/ InsertedByOther(r)

\* UPDATE ... WHERE status='active'; a key that was revoked before is shown.
RevokeSubscriptionKey(r) ==
  /\ Is(r, "revoke", "keys")
  /\ \/ /\ pc[r] = "sent"
        /\ IF There(r) /\ OwnsSubscription(r, Row(r).parent) THEN Goto(r, "write")
           ELSE Reply(r, "missing")
        /\ StayRows
     \/ /\ pc[r] = "write" /\ Row(r).status = "on"
        /\ Update(r, [keys |-> Overlay(Row(r), body[r].set)])
     \/ pc[r] = "write" /\ Row(r).status # "on" /\ Reply(r, "ok") /\ StayRows
     \/ WriteFails(r)

-----------------------------------------------------------------------------
(* Service principals and their credentials.                               *)

\* The request that holds a principal's row while it calls the provider.
Revoking(p) == {q \in Requests : /\ Is(q, "revoke", "principals") /\ body[q].id = p
                                 /\ pc[q] \in {"provider", "update"}}

StayAlive == UNCHANGED alive

\* The provider makes a credential, then GizPay's row is inserted; if the
\* INSERT fails, the credential is revoked as far as the provider answers.
ServiceAccounts(r) ==
  /\ Is(r, "post", "principals")
  /\ \/ /\ pc[r] = "sent"
        /\ \/ Goto(r, "store") /\ alive' = alive \cup {NewID[r]}
           \/ Reply(r, "error") /\ StayAlive
        /\ StayRows
     \/ /\ pc[r] = "store"
        /\ AddAt(NewID[r], [principals |-> [body[r].row EXCEPT !.key = NewID[r]]])
        /\ Reply(r, "created")
        /\ UNCHANGED <<failed, alive>>
     \/ /\ pc[r] = "store" /\ alive' \in {alive, alive \ {NewID[r]}}
        /\ Reply(r, "error") /\ StayRows

\* SELECT ... FOR UPDATE of an active principal of the owner.
LockPrincipal(r) ==
  /\ pc[r] = "sent" /\ Revoking(body[r].id) = {}
  /\ IF There(r) /\ Row(r).owner = body[r].owner /\ Row(r).status = "on"
       THEN Goto(r, "provider") ELSE Reply(r, "missing")
  /\ StayRows /\ StayAlive

\* Bug: the row is changed whatever the provider answers.
RevokeCredentialAnyhow(r) ==
  /\ pc[r] = "provider"
  /\ \/ Row(r).key # "none" /\ alive' = alive \ {Row(r).key} /\ Goto(r, "update")
     \/ alive' \in {alive, alive \ {Row(r).key}} /\ Goto(r, "update")
  /\ StayRows

\* RevokeCredential: a credential that is gone counts as revoked; a call that
\* fails may have revoked it.
RevokeCredential(r) ==
  /\ pc[r] = "provider"
  /\ \/ Row(r).key # "none" /\ alive' = alive \ {Row(r).key} /\ Goto(r, "update")
     \/ alive' \in {alive, alive \ {Row(r).key}} /\ Reply(r, "error")
  /\ StayRows

\* The UPDATE and the Commit.
CommitRevocation(r) ==
  /\ pc[r] = "update"
  /\ \/ Update(r, [principals |-> Overlay(Row(r), body[r].set)])
     \/ Reply(r, "error") /\ StayRows
  /\ StayAlive

RevokeServiceAccount(r) ==
  /\ Is(r, "revoke", "principals")
  /\ LockPrincipal(r) \/ RevokeCredential(r) \/ CommitRevocation(r)

\* UNIQUE(identity_issuer, identity_subject).
SubjectTaken(r) == \E p \in DOMAIN rows.principals :
                     rows.principals[p].subject = body[r].row.subject

AdminServicePrincipals(r) ==
  Create(r, "principals", [principals |-> body[r].row], Exists("users", body[r].row.owner),
         SubjectTaken(r))

\* The UPDATE waits for the row; the trigger refuses a revoked row.
AdminServicePrincipalResource(r) ==
  /\ body[r].op \in {"patch", "delete"} /\ body[r].table = "principals"
  /\ \/ ReadRow(r, "write")
     \/ /\ Revoking(body[r].id) = {} /\ pc[r] = "write" /\ Row(r).status # "revoked"
        /\ WriteRow(r, IF body[r].op = "delete" THEN {"status"} ELSE {"name", "roles"})
     \/ WriteFails(r)

-----------------------------------------------------------------------------
\* Handlers that leave the provider's credentials alone.
DirectoryNext(r) ==
  \/ InitializeIdentity(r) \/ Merchants(r) \/ MerchantProducts(r) \/ MerchantResource(r)
  \/ ProductResource(r) \/ AdminProducts(r) \/ AdminProductResource(r)
  \/ AdminProductListings(r) \/ AdminProductListingResource(r)
  \/ CreateSubscription(r) \/ SubscriptionResource(r)
  \/ SubscriptionKeys(r) \/ RevokeSubscriptionKey(r)
  \/ AdminServicePrincipals(r) \/ AdminServicePrincipalResource(r)

DirectoryStep(r) ==
  (DirectoryNext(r) /\ StayAlive) \/ ServiceAccounts(r) \/ RevokeServiceAccount(r)

-----------------------------------------------------------------------------
(* Properties.                                                             *)

\* The row <<id, row>> holds a UNIQUE column of the row of r: a listing of the
\* product on the site, a principal with the subject, a subscription of the
\* account to the product.
GizPayRival(r, id, row) ==
  \/ /\ body[r].table = "product_listings"
     /\ row.parent = body[r].row.parent /\ row.site = body[r].row.site
  \/ body[r].table = "principals" /\ row.subject = body[r].row.subject
  \/ /\ body[r].table = "subscriptions"
     /\ row.owner = body[r].row.owner /\ row.parent = body[r].row.parent

(* Updates that do not overlap add up, although the owner's and the        *)
(* administration's handlers write back columns they have only read, and   *)
(* no order of them switches a default merchant off.                       *)
UpdatesAddUp ==
  /\ SerialUnlessOverlapped
  /\ \A m \in DOMAIN rows.merchants : rows.merchants[m].default => rows.merchants[m].status = "on"

(* initializeIdentity may run twice at once, for one identity or for two   *)
(* that ask for the same merchant.  Each user has one default merchant,    *)
(* the profile names it, and who is told "ok" has the merchant asked for.  *)
IdentitiesSettle ==
  /\ \A i \in DOMAIN rows.users : Defaults(i) = {rows.profiles[i].merchant}
  /\ \A r \in Requests : body[r].op = "initialize" /\ answer[r] = "ok" =>
       Exists("users", body[r].id) /\ (Wants(r) => Defaults(body[r].id) = {body[r].want})

(* "identity initialization conflicts with the existing default Merchant": *)
(* a delivery answered 409 asked for a merchant that is not its identity's *)
(* default one, or its identity has another default.                       *)
InitializationConflictIsReal ==
  \A r \in Requests : body[r].op = "initialize" /\ answer[r] = "conflict" =>
    \E h \in everHeld.merchants :
      LET isDefault == h[2].owner = body[r].id /\ h[2].default IN
      (h[1] = body[r].want) # isDefault

(* What an owner has revoked stays revoked, and the credential of a        *)
(* revoked principal is dead at the identity provider, although the        *)
(* provider or the database may fail between the two; only principals that *)
(* the administration has deleted keep their credential.                   *)
RevocationsHold ==
  /\ \A r \in Requests : body[r].op = "revoke" /\ answer[r] = "ok" => Row(r).status = "revoked"
  /\ \A p \in DOMAIN rows.principals :
       rows.principals[p].status = "revoked" /\ rows.principals[p].key \in alive =>
         \E r \in Requests : Is(r, "delete", "principals") /\ body[r].id = p /\ answer[r] = "ok"
=============================================================================
