------------------------ MODULE Administration_proofs ------------------------
(***************************************************************************)
(* The properties of Administration, for every group of requests and every *)
(* content of the tables that the named assumptions allow.                 *)
(*                                                                         *)
(* A first part says what any step of any handler does: it moves its       *)
(* request on (MovesOn), touches no other request, and writes only the     *)
(* tables of its request (Writes).  Then each property has its section and *)
(* its inductive invariant:                                                *)
(*   OfferInv     disabled keys are not offered to calls                   *)
(*   ListInv      price lists are whole                                    *)
(*   RevokeInv    revocations hold                                         *)
(*   IdentityInv  identities have their default merchant                   *)
(*   CopyInv      updates add up, and the copies of a row agree            *)
(*   DefaultInv   default merchants stay on (with CopyInv)                 *)
(*   PostInv      repeated POSTs settle (with CopyInv)                     *)
(***************************************************************************)
EXTENDS Administration, FiniteSetTheorems, TLAPS

-----------------------------------------------------------------------------
(* A call is never offered a key that was off before the call began.       *)
(* The invariant adds what the property needs to be inductive: the keys    *)
(* watched for a call are off now, and a call that has not begun has been  *)
(* offered nothing.                                                        *)

OfferInv ==
  /\ DOMAIN pc = Requests /\ DOMAIN offered = Requests
  /\ \A r \in Requests : /\ pc[r] = "sent" => offered[r] = {}
                         /\ offSince[r] \subseteq OffKeys
  /\ DisabledKeyIsNotOffered

\* A request that has not been answered moves on, and only it; it is never
\* sent again, and an answer is its last step.
MovesOn(r) ==
  /\ pc[r] # "done"
  /\ \E at : /\ at # "sent" /\ pc' = [pc EXCEPT ![r] = at]
             /\ \/ answer' = answer
                \/ at = "done" /\ \E how : answer' = [answer EXCEPT ![r] = how]
  /\ mem' = mem \/ \E what : mem' = [mem EXCEPT ![r] = what]

\* What a step of r does to the keys offered to it.
Offers(r) ==
  \/ offered' = offered
  \/ /\ pc[r] = "each" /\ rows' = rows
     /\ \E k : rows.billing[k].status = "on" /\ offered' = [offered EXCEPT ![r] = @ \cup {k}]

(* The steps of a POST that look a row up move its request on.             *)
LEMMA LookMoves ==
  ASSUME NEW r, NEW next, next # "sent"
  PROVE  /\ LookUp(r, next) => MovesOn(r)
         /\ InsertFails(r) => MovesOn(r)
         /\ LookAgain(r) => MovesOn(r)
<1>1. LookUp(r, next) => MovesOn(r)
  BY DEF LookUp, MovesOn, Goto, Reply
<1>2. InsertFails(r) => MovesOn(r)
  BY DEF InsertFails, MovesOn, Goto
<1>3. LookAgain(r) => MovesOn(r)
  BY DEF LookAgain, LookUpFails, MovesOn, Reply
<1> QED
  BY <1>1, <1>2, <1>3

(* Each step of a PATCH or DELETE moves its request on: Resource of Rows.  *)
LEMMA ResourceMoves ==
  ASSUME NEW r, NEW new, NEW columns, NEW next, next # "sent"
  PROVE  /\ ReadRow(r, next) => MovesOn(r)
         /\ pc[r] = "write" /\ Update(r, new) => MovesOn(r)
         /\ WriteRow(r, columns) => MovesOn(r)
         /\ WriteFails(r) => MovesOn(r)
<1>1. ReadRow(r, next) => MovesOn(r)
  <2> SUFFICES ASSUME ReadRow(r, next) PROVE MovesOn(r)
    OBVIOUS
  <2>0. pc[r] = "sent"
    BY DEF ReadRow
  <2>1. \/ \E how : Reply(r, how)
        \/ \E what : Read(r, what, next)
    BY Zenon DEF ReadRow
  <2> QED
    BY <2>0, <2>1 DEF MovesOn, Reply, Read
<1>2. \A n : pc[r] = "write" /\ Update(r, n) => MovesOn(r)
  BY DEF Update, MovesOn, Reply
<1>3. WriteRow(r, columns) => MovesOn(r)
  BY <1>2 DEF WriteRow
<1>4. WriteFails(r) => MovesOn(r)
  BY DEF WriteFails, MovesOn, Reply
<1> QED
  BY <1>1, <1>2, <1>3, <1>4

(* The operations on a list move their request on.                         *)
LEMMA ListMoves ==
  ASSUME NEW r, NEW valid
  PROVE  /\ Replace(r, valid) => MovesOn(r)
         /\ CommitList(r) => MovesOn(r)
<1>1. TakeLock(r) => MovesOn(r)
  BY DEF TakeLock, Goto, MovesOn
<1>2. CheckList(r, valid) => MovesOn(r)
  BY DEF CheckList, Goto, Reply, MovesOn
<1>3. StartDelete(r) => MovesOn(r)
  BY DEF StartDelete, Goto, MovesOn
<1>4. FinishDelete(r) => MovesOn(r)
  BY DEF FinishDelete, Goto, MovesOn
<1>5. ListFails(r) => MovesOn(r)
  BY DEF ListFails, InTransaction, End, Reply, MovesOn
<1>6. CommitList(r) => MovesOn(r)
  BY DEF CommitList, End, Reply, MovesOn
<1> QED
  BY <1>1, <1>2, <1>3, <1>4, <1>5, <1>6 DEF Replace

(* The catalog's handlers move their request on.                           *)
LEMMA CatalogMoves == ASSUME NEW r PROVE CatalogNext(r) => MovesOn(r)
<1>1. AdminProviders(r) => MovesOn(r)
  <2>1. Insert(r, BothProviderRows(body[r].row), FALSE) => MovesOn(r)
    BY DEF Insert, Goto, Reply, MovesOn
  <2>2. LookUp(r, "insert") \/ InsertFails(r) \/ LookAgain(r) => MovesOn(r)
    BY LookMoves
  <2> QED
    BY <2>1, <2>2, Zenon DEF AdminProviders
<1>2. AdminProviderResource(r) => MovesOn(r)
  BY ResourceMoves DEF AdminProviderResource, UpdateAdminProvider
<1>3. AdminModels(r) => MovesOn(r)
  <2>1. Insert(r, [models |-> body[r].row], FALSE) => MovesOn(r)
    BY DEF Insert, Goto, Reply, MovesOn
  <2>2. CheckParent(r, Exists("providers", body[r].row.parent)) => MovesOn(r)
    BY DEF CheckParent, Goto, Reply, MovesOn
  <2>3. LookUp(r, "parent") \/ InsertFails(r) \/ LookAgain(r) => MovesOn(r)
    BY LookMoves
  <2> QED
    BY <2>1, <2>2, <2>3, Zenon DEF AdminModels, Create
<1>4. AdminModelResource(r) => MovesOn(r)
  BY ResourceMoves DEF AdminModelResource, Resource
<1>5. AdminModelListings(r) => MovesOn(r)
  <2>1. Insert(r, [model_listings |-> body[r].row], ListingTaken(r)) => MovesOn(r)
    BY DEF Insert, Goto, Reply, MovesOn
  <2>2. CheckParent(r, Exists("models", body[r].row.parent)) => MovesOn(r)
    BY DEF CheckParent, Goto, Reply, MovesOn
  <2>3. LookUp(r, "parent") \/ InsertFails(r) \/ LookAgain(r) => MovesOn(r)
    BY LookMoves
  <2> QED
    BY <2>1, <2>2, <2>3, Zenon DEF AdminModelListings, Create
<1>6. AdminModelListingResource(r) => MovesOn(r)
  BY ResourceMoves DEF AdminModelListingResource, Resource
<1>7. AdminModelCustomerPrices(r) => MovesOn(r)
  BY ListMoves DEF AdminModelCustomerPrices, Goto, Reply, MovesOn
<1> QED
  BY <1>1, <1>2, <1>3, <1>4, <1>5, <1>6, <1>7 DEF CatalogNext

(* Every handler moves its request on.                                     *)
LEMMA KeyMoves == ASSUME NEW r PROVE KeyNext(r) => MovesOn(r)
<1>1. InsertKey(r) => MovesOn(r)
  BY DEF InsertKey, Insert, Goto, Reply, MovesOn
<1>2. ModelUnusable(r) => MovesOn(r)
  BY DEF ModelUnusable, Goto, Reply, MovesOn
<1>3. InsertKeyFails(r) => MovesOn(r)
  BY LookMoves DEF InsertKeyFails
<1>4. AdminProviderKeys(r) => MovesOn(r)
  <2>1. pc[r] \in {"again", "prices"} /\ LookUpFails(r) => MovesOn(r)
    BY DEF LookUpFails, Reply, MovesOn
  <2> QED
    BY <1>1, <1>2, <1>3, <2>1
    DEF AdminProviderKeys, CompareKey, ReplySame, Goto, Reply, MovesOn
<1>5. CreateProviderKey(r) => MovesOn(r)
  <2>1. OwnerMerchant(r) => MovesOn(r)
    BY DEF OwnerMerchant, AskMerchant, Goto, Reply, MovesOn
  <2> QED
    BY <1>1, <1>2, <1>3, <2>1 DEF CreateProviderKey, ReplySame, Goto, Reply, MovesOn
<1>6. ReadRecord(r) => MovesOn(r)
  BY DEF ReadRecord, Read, MovesOn
<1>7. KeyFails(r) => MovesOn(r)
  BY DEF KeyFails, Reply, MovesOn
<1>8. \A new : UpdateKey(r, new) => MovesOn(r)
  BY ResourceMoves DEF UpdateKey
<1>9. AdminProviderKeyResource(r) => MovesOn(r)
  BY <1>6, <1>7, <1>8, ResourceMoves DEF AdminProviderKeyResource, UpdateAdminProviderKey
<1>10. AdminProviderKeyRotateSecret(r) => MovesOn(r)
  BY <1>6, <1>7, <1>8, ResourceMoves DEF AdminProviderKeyRotateSecret
<1>11. DisableProviderKey(r) => MovesOn(r)
  BY <1>6, <1>7, <1>8 DEF DisableProviderKey, Goto, Reply, MovesOn
<1>12. AdminProviderKeyPrices(r) => MovesOn(r)
  BY ListMoves DEF AdminProviderKeyPrices, CommitKeyList, Goto, Reply, MovesOn
<1>13. PutProviderKeyPrices(r) => MovesOn(r)
  BY ListMoves DEF PutProviderKeyPrices, CommitKeyList, Goto, MovesOn
<1>14. ResolveCall(r) => MovesOn(r)
  <2>1. ResolveModel(r) => MovesOn(r)
    BY DEF ResolveModel, Read, Reply, MovesOn
  <2>2. ResolveKeys(r) => MovesOn(r)
    BY DEF ResolveKeys, Read, Reply, MovesOn
  <2>3. ResolveKey(r) => MovesOn(r)
    BY DEF ResolveKey, Read, MovesOn
  <2> QED
    BY <2>1, <2>2, <2>3 DEF ResolveCall, Reply, MovesOn
<1> QED
  BY <1>4, <1>5, <1>9, <1>10, <1>11, <1>12, <1>13, <1>14, CatalogMoves DEF KeyNext

(* The handlers of GizPay move their request on.                           *)
LEMMA InitializeMoves == ASSUME NEW r PROVE InitializeIdentity(r) => MovesOn(r)
<1>1. InitializeLookUp(r) => MovesOn(r)
  BY DEF InitializeLookUp, Goto, Reply, MovesOn
<1>2. InitializeRequested(r) => MovesOn(r)
  BY DEF InitializeRequested, Goto, Reply, MovesOn
<1>3. UpsertUser(r) => MovesOn(r)
  BY DEF UpsertUser, Goto, MovesOn
<1>4. InsertMerchant(r) => MovesOn(r)
  BY DEF InsertMerchant, Read, MovesOn
<1>5. CheckDefault(r) => MovesOn(r)
  BY DEF CheckDefault, Read, Reply, MovesOn
<1>6. CommitIdentity(r) => MovesOn(r)
  BY DEF CommitIdentity, Reply, MovesOn
<1>7. InitializeFails(r) => MovesOn(r)
  BY DEF InitializeFails, Reply, MovesOn
<1> QED
  BY <1>1, <1>2, <1>3, <1>4, <1>5, <1>6, <1>7 DEF InitializeIdentity

(* A POST with an ID that the client has chosen moves on.                  *)
LEMMA CreateMoves ==
  ASSUME NEW r, NEW t, NEW new, NEW parentIsThere, NEW taken
  PROVE  Create(r, t, new, parentIsThere, taken) => MovesOn(r)
<1>1. Insert(r, new, taken) => MovesOn(r)
  BY DEF Insert, Goto, Reply, MovesOn
<1>2. CheckParent(r, parentIsThere) => MovesOn(r)
  BY DEF CheckParent, Goto, Reply, MovesOn
<1>3. LookUp(r, "parent") \/ InsertFails(r) \/ LookAgain(r) => MovesOn(r)
  BY LookMoves
<1> QED
  BY <1>1, <1>2, <1>3, Zenon DEF Create

(* So do the handlers of merchants, products and listings.                 *)
LEMMA MerchantMoves ==
  ASSUME NEW r
  PROVE  /\ Merchants(r) \/ MerchantProducts(r) => MovesOn(r)
         /\ MerchantResource(r) \/ ProductResource(r) => MovesOn(r)
<1>1. Merchants(r) => MovesOn(r)
  BY DEF Merchants, InsertFresh, Goto, Reply, MovesOn
<1>2. MerchantProducts(r) => MovesOn(r)
  BY DEF MerchantProducts, InsertFresh, Goto, Reply, MovesOn
<1>3. ReadRow(r, "write") \/ WriteFails(r) => MovesOn(r)
  BY ResourceMoves
<1>4. \A columns : WriteRow(r, columns) => MovesOn(r)
  BY ResourceMoves
<1>5. \A how : pc[r] = "sent" /\ Reply(r, how) => MovesOn(r)
  BY DEF Reply, MovesOn
<1>6. OwnerResource(r, "merchants", OwnsMerchant(r, body[r].id), {"name", "status"}) => MovesOn(r)
  BY <1>3, <1>4, <1>5, Zenon DEF OwnerResource
<1>7. OwnerResource(r, "products", OwnsProduct(r), {"name", "status"}) => MovesOn(r)
  BY <1>3, <1>4, <1>5, Zenon DEF OwnerResource
<1>8. MerchantResource(r) => MovesOn(r)
  BY <1>5, <1>6, Zenon DEF MerchantResource
<1> QED
  BY <1>1, <1>2, <1>7, <1>8, Zenon DEF ProductResource

(* So do those of subscriptions and their keys.                            *)
LEMMA SubscriptionMoves ==
  ASSUME NEW r
  PROVE  /\ CreateSubscription(r) \/ SubscriptionResource(r) => MovesOn(r)
         /\ SubscriptionKeys(r) \/ RevokeSubscriptionKey(r) => MovesOn(r)
<1>1. \A taken : InsertOrAgain(r, taken) => MovesOn(r)
  BY DEF InsertOrAgain, Goto, Reply, MovesOn
<1>2. InsertErrors(r) \/ InsertedByOther(r) => MovesOn(r)
  BY DEF InsertErrors, InsertedByOther, LookUpFails, Reply, MovesOn
<1>3. \A next : next # "sent" /\ pc[r] # "done" /\ LookUpContent(r, next) => MovesOn(r)
  BY DEF LookUpContent, Goto, Reply, MovesOn
<1>4. CreateSubscription(r) => MovesOn(r)
  <2>1. InsertOrAgain(r, Subscribed(r) # {}) => MovesOn(r)
    BY DEF InsertOrAgain, Goto, Reply, MovesOn
  <2> QED
    BY <1>2, <1>3, <2>1 DEF CreateSubscription, Goto, Reply, MovesOn
<1>5. \A new : pc[r] = "write" /\ Update(r, new) => MovesOn(r)
  BY ResourceMoves
<1>6. SubscriptionResource(r) => MovesOn(r)
  <2>1. pc[r] = "write" /\ Update(r, [subscriptions |-> Overlay(Row(r), body[r].set)])
          => MovesOn(r)
    BY <1>5
  <2>2. WriteFails(r) => MovesOn(r)
    BY DEF WriteFails, Reply, MovesOn
  <2> QED
    BY <2>1, <2>2 DEF SubscriptionResource, Goto, Reply, MovesOn
<1>7. SubscriptionKeys(r) => MovesOn(r)
  <2>1. InsertOrAgain(r, FALSE) => MovesOn(r)
    BY DEF InsertOrAgain, Goto, Reply, MovesOn
  <2> QED
    BY <1>2, <1>3, <2>1 DEF SubscriptionKeys, Goto, Reply, MovesOn
<1>8. RevokeSubscriptionKey(r) => MovesOn(r)
  <2>1. WriteFails(r) => MovesOn(r)
    BY DEF WriteFails, Reply, MovesOn
  <2> QED
    BY <1>5, <2>1 DEF RevokeSubscriptionKey, Goto, Reply, MovesOn
<1> QED
  BY <1>4, <1>6, <1>7, <1>8

(* So do those of service principals.                                      *)
LEMMA PrincipalMoves ==
  ASSUME NEW r
  PROVE  /\ ServiceAccounts(r) \/ RevokeServiceAccount(r) => MovesOn(r)
         /\ AdminServicePrincipals(r) \/ AdminServicePrincipalResource(r) => MovesOn(r)
<1>1. ServiceAccounts(r) => MovesOn(r)
  BY DEF ServiceAccounts, Goto, Reply, MovesOn
<1>2. LockPrincipal(r) \/ RevokeCredential(r) => MovesOn(r)
  BY DEF LockPrincipal, RevokeCredential, Goto, Reply, MovesOn
<1>3. CommitRevocation(r) => MovesOn(r)
  BY DEF CommitRevocation, Update, Reply, MovesOn
<1>4. AdminServicePrincipals(r) => MovesOn(r)
  BY CreateMoves DEF AdminServicePrincipals
<1>5. AdminServicePrincipalResource(r) => MovesOn(r)
  BY ResourceMoves DEF AdminServicePrincipalResource
<1> QED
  BY <1>1, <1>2, <1>3, <1>4, <1>5 DEF RevokeServiceAccount

(* So do all of them.                                                      *)
LEMMA DirectoryMoves == ASSUME NEW r PROVE DirectoryStep(r) => MovesOn(r)
<1>1. AdminProducts(r) => MovesOn(r)
  BY CreateMoves DEF AdminProducts
<1>2. AdminProductListings(r) => MovesOn(r)
  <2>1. Insert(r, [product_listings |-> body[r].row], ProductListingTaken(r)) => MovesOn(r)
    BY DEF Insert, Goto, Reply, MovesOn
  <2>2. CheckParent(r, Exists("products", body[r].row.parent)) => MovesOn(r)
    BY DEF CheckParent, Goto, Reply, MovesOn
  <2>3. LookUp(r, "parent") \/ InsertFails(r) \/ LookAgain(r) => MovesOn(r)
    BY LookMoves
  <2> QED
    BY <2>1, <2>2, <2>3, Zenon DEF AdminProductListings, Create
<1>3. AdminProductResource(r) \/ AdminProductListingResource(r) => MovesOn(r)
  BY ResourceMoves DEF AdminProductResource, AdminProductListingResource, Resource
<1> QED
  BY <1>1, <1>2, <1>3, InitializeMoves, MerchantMoves, SubscriptionMoves, PrincipalMoves
  DEF DirectoryStep, DirectoryNext

(* What cannot be read answers the request and changes nothing else; no    *)
(* POST or PUT holds anything yet that it would have to undo.              *)
LEMMA ReadFailsIsQuiet ==
  ASSUME NEW r, ReadFails(r)
  PROVE  /\ MovesOn(r) /\ Reply(r, "error")
         /\ pc[r] \notin {"done", "write", "update", "merchant", "default"}
         /\ pc[r] \notin InTransaction
         /\ UNCHANGED <<rows, historyVars, failed, listVars, keyVars>>
<1>1. /\ Reply(r, "error") /\ Stay
      /\ pc[r] \in {"sent", "parent", "lookup", "terms", "other", "requested", "user", "keys",
                    "each", "lock", "insertFresh"}
  BY DEF ReadFails
<1>2. MovesOn(r)
  BY <1>1 DEF MovesOn, Reply
<1>3. UNCHANGED <<rows, historyVars, failed, listVars, keyVars>>
  BY <1>1, Zenon DEF Stay, StayRows
<1> QED
  BY <1>1, <1>2, <1>3 DEF InTransaction

(* Only the choice of a key offers one, and only if it is on.              *)
LEMMA KeyOffers == ASSUME NEW r PROVE KeyNext(r) => Offers(r)
<1>1. CatalogNext(r) /\ UNCHANGED keyVars => offered' = offered
  BY DEF keyVars
<1>2. InsertKey(r) \/ ModelUnusable(r) \/ InsertKeyFails(r) => offered' = offered
  BY DEF InsertKey, ModelUnusable, InsertKeyFails, Stay, keyVars
<1>3. AdminProviderKeys(r) => offered' = offered
  BY <1>2 DEF AdminProviderKeys, Stay, keyVars
<1>4. CreateProviderKey(r) => offered' = offered
  BY <1>2 DEF CreateProviderKey, OwnerMerchant, Stay, keyVars
<1>5. ReadRecord(r) \/ KeyFails(r) \/ (\E new : UpdateKey(r, new)) => offered' = offered
  BY DEF ReadRecord, KeyFails, UpdateKey, Stay, keyVars
<1>6. (AdminProviderKeyResource(r) \/ AdminProviderKeyRotateSecret(r) \/ DisableProviderKey(r))
        => offered' = offered
  BY <1>5 DEF AdminProviderKeyResource, AdminProviderKeyRotateSecret, DisableProviderKey,
              UpdateAdminProviderKey, Stay, keyVars
<1>7. AdminProviderKeyPrices(r) \/ PutProviderKeyPrices(r) => offered' = offered
  BY DEF AdminProviderKeyPrices, PutProviderKeyPrices, CommitKeyList, Stay, keyVars
<1>8. ResolveCall(r) => Offers(r)
  <2>1. ResolveModel(r) \/ ResolveKeys(r) => offered' = offered
    BY DEF ResolveModel, ResolveKeys, Stay, keyVars
  <2>2. ResolveKey(r) => Offers(r)
    BY DEF ResolveKey, Usable, Offers, StayRows
  <2> QED
    BY <2>1, <2>2 DEF ResolveCall, Offers, Stay, keyVars
<1> QED
  BY <1>1, <1>3, <1>4, <1>6, <1>7, <1>8 DEF KeyNext, Offers

(* The invariant holds at the start.                                       *)
LEMMA OfferInvInit == Init => OfferInv
BY DEF Init, RowsInit, KeysInit, OfferInv, DisabledKeyIsNotOffered

(* A step of a request keeps the invariant.                                *)
LEMMA OfferInvStep == ASSUME OfferInv, NEW r \in Requests, Step(r) PROVE OfferInv'
<1>0. Requests' = Requests /\ WatchKeys(r)
  BY DEF Requests, Step
<1>1. MovesOn(r)
  BY KeyMoves, DirectoryMoves, ReadFailsIsQuiet DEF Step
<1>2. Offers(r)
  <2>1. CASE KeyNext(r)
    BY <2>1, KeyOffers
  <2>2. CASE UNCHANGED keyVars
    BY <2>2 DEF keyVars, Offers
  <2> QED
    BY <2>1, <2>2, ReadFailsIsQuiet DEF Step
<1>3. PICK at : at # "sent" /\ pc' = [pc EXCEPT ![r] = at]
  BY <1>1 DEF MovesOn
<1>4. \A q \in Requests : offSince'[q] =
        (IF q = r /\ pc[r] = "sent" THEN OffKeys ELSE offSince[q]) \cap OffKeys'
  BY <1>0 DEF WatchKeys
<1>5. CASE offered' = offered
  BY <1>0, <1>3, <1>4, <1>5 DEF OfferInv, DisabledKeyIsNotOffered
<1>6. CASE /\ pc[r] = "each" /\ rows' = rows
           /\ \E k : rows.billing[k].status = "on" /\ offered' = [offered EXCEPT ![r] = @ \cup {k}]
  <2>1. PICK k : rows.billing[k].status = "on" /\ offered' = [offered EXCEPT ![r] = @ \cup {k}]
    BY <1>6
  <2>2. OffKeys' = OffKeys /\ k \notin OffKeys
    BY <1>6, <2>1 DEF OffKeys
  <2> QED
    BY <1>0, <1>3, <1>4, <1>6, <2>1, <2>2 DEF OfferInv, DisabledKeyIsNotOffered
<1> QED
  BY <1>2, <1>5, <1>6 DEF Offers

(* resolveCall never offers a key that was disabled before the call began  *)
(* and has not been switched on since.                                     *)
THEOREM DisabledKeysStayOff == Spec => []DisabledKeyIsNotOffered
<1>1. OfferInv /\ [Next]_vars => OfferInv'
  <2> SUFFICES ASSUME OfferInv, [Next]_vars PROVE OfferInv'
    OBVIOUS
  <2>1. CASE \E r \in Requests : Step(r)
    BY <2>1, OfferInvStep
  <2>2. CASE UNCHANGED vars
    BY <2>2 DEF vars, rowVars, keyVars, OfferInv, DisabledKeyIsNotOffered, OffKeys, Requests
  <2> QED
    BY <2>1, <2>2 DEF Next, Finished
<1>2. OfferInv => DisabledKeyIsNotOffered
  BY DEF OfferInv
<1> QED
  BY <1>1, <1>2, OfferInvInit, PTL DEF Spec

-----------------------------------------------------------------------------
(* What a step does to the tables.                                         *)

\* The tables that a request is about.
TablesOf(r) ==
  CASE body[r].table = "providers" -> {"providers", "sync_providers"}
    [] body[r].table = "sync"      -> KeyTables
    [] body[r].table = "users"     -> {"users", "profiles", "merchants"}
    [] OTHER                       -> {body[r].table}

\* A step of r leaves the tables alone or stores rows in the tables of r.
Writes(r) ==
  \/ rows' = rows
  \/ \E id, new : DOMAIN new \subseteq TablesOf(r) /\ StoreAt(id, new)
  \/ body[r].table = "users" /\ CommitIdentity(r)

(* The statements of a POST, a PATCH and a DELETE.                         *)
LEMMA StatementsWrite ==
  ASSUME NEW r
  PROVE  /\ \A next : LookUp(r, next) => Writes(r)
         /\ \A there : CheckParent(r, there) => Writes(r)
         /\ InsertFails(r) \/ LookAgain(r) \/ WriteFails(r) => Writes(r)
         /\ \A new, taken : DOMAIN new \subseteq TablesOf(r) /\ Insert(r, new, taken) => Writes(r)
         /\ \A new : DOMAIN new \subseteq TablesOf(r) /\ Update(r, new) => Writes(r)
         /\ \A next : ReadRow(r, next) => Writes(r)
         /\ \A columns : WriteRow(r, columns) => Writes(r)
<1>1. StayRows => Writes(r)
  BY DEF StayRows, Writes
<1>2. \A next : LookUp(r, next) => Writes(r)
  BY <1>1 DEF LookUp
<1>3. \A there : CheckParent(r, there) => Writes(r)
  BY <1>1 DEF CheckParent
<1>4. InsertFails(r) \/ LookAgain(r) \/ WriteFails(r) => Writes(r)
  BY <1>1 DEF InsertFails, LookAgain, LookUpFails, WriteFails, Writes
<1>5. \A new, taken : DOMAIN new \subseteq TablesOf(r) /\ Insert(r, new, taken) => Writes(r)
  BY DEF Insert, AddAt, Writes
<1>6. \A new : DOMAIN new \subseteq TablesOf(r) /\ Update(r, new) => Writes(r)
  BY DEF Update, Writes
<1>7. \A next : ReadRow(r, next) => Writes(r)
  BY <1>1 DEF ReadRow
<1>8. \A columns : WriteRow(r, columns) => Writes(r)
  <2>1. \A row : DOMAIN Only(body[r].table, row) \subseteq TablesOf(r)
    BY DEF Only, TablesOf, KeyTables
  <2> QED
    BY <1>6, <2>1 DEF WriteRow
<1> QED
  BY <1>2, <1>3, <1>4, <1>5, <1>6, <1>7, <1>8

(* The handlers of the catalog.                                            *)
LEMMA CatalogWrites == ASSUME NEW r PROVE CatalogNext(r) => Writes(r)
<1>1. AdminProviders(r) => Writes(r)
  <2>1. ASSUME AdminProviders(r) PROVE DOMAIN BothProviderRows(body[r].row) \subseteq TablesOf(r)
    BY <2>1 DEF AdminProviders, Is, BothProviderRows, TablesOf
  <2> QED
    BY <2>1, StatementsWrite, Zenon DEF AdminProviders
<1>2. AdminProviderResource(r) => Writes(r)
  <2>1. ASSUME AdminProviderResource(r), NEW row
        PROVE  DOMAIN BothProviderRows(row) \subseteq TablesOf(r)
    BY <2>1 DEF AdminProviderResource, BothProviderRows, TablesOf
  <2> QED
    BY <2>1, StatementsWrite, Zenon DEF AdminProviderResource, UpdateAdminProvider
<1>3. AdminModels(r) => Writes(r)
  <2>1. ASSUME AdminModels(r) PROVE DOMAIN [models |-> body[r].row] \subseteq TablesOf(r)
    BY <2>1 DEF AdminModels, Create, Is, TablesOf
  <2> QED
    BY <2>1, StatementsWrite, Zenon DEF AdminModels, Create
<1>4. AdminModelListings(r) => Writes(r)
  <2>1. ASSUME AdminModelListings(r)
        PROVE  DOMAIN [model_listings |-> body[r].row] \subseteq TablesOf(r)
    BY <2>1 DEF AdminModelListings, Create, Is, TablesOf
  <2> QED
    BY <2>1, StatementsWrite, Zenon DEF AdminModelListings, Create
<1>5. AdminModelResource(r) \/ AdminModelListingResource(r) => Writes(r)
  BY StatementsWrite, Zenon DEF AdminModelResource, AdminModelListingResource, Resource
<1>6. AdminModelCustomerPrices(r) => Writes(r)
  BY DEF AdminModelCustomerPrices, Replace, TakeLock, CheckList, StartDelete, FinishDelete,
         ListFails, CommitList, StayRows, Writes
<1> QED
  BY <1>1, <1>2, <1>3, <1>4, <1>5, <1>6, Zenon DEF CatalogNext

(* The handlers of GizWay.                                                 *)
LEMMA KeyWrites == ASSUME NEW r PROVE KeyNext(r) => Writes(r)
<1>1. Stay \/ StayRows \/ LookUpFails(r) => Writes(r)
  BY DEF Stay, StayRows, LookUpFails, Writes
<1>2. body[r].table = "sync" => TablesOf(r) = KeyTables
  BY DEF TablesOf
<1>3. InsertKey(r) /\ body[r].table = "sync" => Writes(r)
  <2>1. DOMAIN KeyRows(body[r].row) \subseteq KeyTables
    BY DEF KeyRows, KeyTables
  <2> QED
    BY <1>2, <2>1, StatementsWrite, Zenon DEF InsertKey
<1>4. ModelUnusable(r) \/ InsertKeyFails(r) => Writes(r)
  BY <1>1, StatementsWrite DEF ModelUnusable, InsertKeyFails
<1>5. AdminProviderKeys(r) => Writes(r)
  BY <1>1, <1>3, <1>4, Zenon DEF AdminProviderKeys, Is
<1>6. CreateProviderKey(r) => Writes(r)
  BY <1>1, <1>3, <1>4, Zenon DEF CreateProviderKey, OwnerMerchant, Is
<1>7. ReadRecord(r) \/ KeyFails(r) => Writes(r)
  BY <1>1 DEF ReadRecord, KeyFails
<1>8. \A new : /\ body[r].table = "sync" /\ DOMAIN new \subseteq KeyTables
               /\ UpdateKey(r, new)
               => Writes(r)
  BY <1>2, StatementsWrite, Zenon DEF UpdateKey
<1>9. \A a, b, c : /\ DOMAIN [bifrost |-> a, billing |-> b, sync |-> c] \subseteq KeyTables
                   /\ DOMAIN [bifrost |-> a, sync |-> c] \subseteq KeyTables
  BY DEF KeyTables
<1>10. AdminProviderKeyResource(r) => Writes(r)
  BY <1>7, <1>8, <1>9, StatementsWrite, Zenon DEF AdminProviderKeyResource, UpdateAdminProviderKey
<1>11. AdminProviderKeyRotateSecret(r) => Writes(r)
  BY <1>7, <1>8, <1>9, StatementsWrite, Zenon DEF AdminProviderKeyRotateSecret, Is
<1>12. DisableProviderKey(r) => Writes(r)
  BY <1>1, <1>7, <1>8, <1>9, Zenon DEF DisableProviderKey, Is
<1>13. AdminProviderKeyPrices(r) \/ PutProviderKeyPrices(r) => Writes(r)
  BY DEF AdminProviderKeyPrices, PutProviderKeyPrices, CommitKeyList, Replace, TakeLock,
         CheckList, StartDelete, FinishDelete, ListFails, CommitList, Stay, StayRows, Writes
<1>14. ResolveCall(r) => Writes(r)
  BY <1>1 DEF ResolveCall, ResolveModel, ResolveKeys, ResolveKey
<1> QED
  BY <1>5, <1>6, <1>10, <1>11, <1>12, <1>13, <1>14, CatalogWrites, Zenon DEF KeyNext

(* The handlers of GizPay.                                                 *)
LEMMA DirectoryWrites == ASSUME NEW r PROVE DirectoryStep(r) => Writes(r)
<1>1. StayRows => Writes(r)
  BY DEF StayRows, Writes
<1>2. InitializeIdentity(r) => Writes(r)
  <2>1. InitializeLookUp(r) \/ InitializeRequested(r) \/ UpsertUser(r) \/ InsertMerchant(r)
          \/ CheckDefault(r) \/ InitializeFails(r) => Writes(r)
    BY <1>1 DEF InitializeLookUp, InitializeRequested, UpsertUser, InsertMerchant, CheckDefault,
                InitializeFails
  <2> QED
    BY <2>1, Zenon DEF InitializeIdentity, Is, Writes
<1>3. Merchants(r) \/ MerchantProducts(r) => Writes(r)
  <2>1. \A there : InsertFresh(r, there) => Writes(r)
    BY <1>1 DEF InsertFresh
  <2>2. \A new : DOMAIN new \subseteq TablesOf(r) /\ AddAt(NewID[r], new) => Writes(r)
    BY DEF AddAt, Writes
  <2>3. \A row : /\ body[r].table = "merchants" => DOMAIN [merchants |-> row] \subseteq TablesOf(r)
                 /\ body[r].table = "products" => DOMAIN [products |-> row] \subseteq TablesOf(r)
    BY DEF TablesOf
  <2> QED
    BY <2>1, <2>2, <2>3, Zenon DEF Merchants, MerchantProducts, Is
<1>4. MerchantResource(r) \/ ProductResource(r) => Writes(r)
  <2>1. \A t, owns, columns : OwnerResource(r, t, owns, columns) => Writes(r)
    BY <1>1, StatementsWrite, Zenon DEF OwnerResource
  <2>2. ProductResource(r) => Writes(r)
    BY <2>1, Zenon DEF ProductResource
  <2> QED
    BY <1>1, <2>1, <2>2, Zenon DEF MerchantResource
<1>5. AdminProducts(r) \/ AdminProductListings(r) \/ AdminServicePrincipals(r) => Writes(r)
  <2>1. \A row : /\ body[r].table = "products" => DOMAIN [products |-> row] \subseteq TablesOf(r)
                 /\ body[r].table = "product_listings" =>
                      DOMAIN [product_listings |-> row] \subseteq TablesOf(r)
                 /\ body[r].table = "principals" => DOMAIN [principals |-> row] \subseteq TablesOf(r)
    BY DEF TablesOf
  <2>2. AdminProducts(r) => Writes(r)
    BY <2>1, StatementsWrite, Zenon DEF AdminProducts, Create, Is
  <2>3. AdminProductListings(r) => Writes(r)
    BY <2>1, StatementsWrite, Zenon DEF AdminProductListings, Create, Is
  <2>4. AdminServicePrincipals(r) => Writes(r)
    BY <2>1, StatementsWrite, Zenon DEF AdminServicePrincipals, Create, Is
  <2> QED
    BY <2>2, <2>3, <2>4
<1>6. AdminProductResource(r) \/ AdminProductListingResource(r) => Writes(r)
  BY StatementsWrite, Zenon DEF AdminProductResource, AdminProductListingResource, Resource
<1>7. \A taken : InsertOrAgain(r, taken) => Writes(r)
  <2>1. \A row : DOMAIN Only(body[r].table, row) \subseteq TablesOf(r)
    BY DEF Only, TablesOf, KeyTables
  <2> QED
    BY <2>1 DEF InsertOrAgain, AddAt, Writes
<1>8. InsertErrors(r) \/ InsertedByOther(r) => Writes(r)
  BY <1>1 DEF InsertErrors, InsertedByOther, LookUpFails, Writes
<1>9. CreateSubscription(r) \/ SubscriptionKeys(r) => Writes(r)
  BY <1>1, <1>7, <1>8, Zenon DEF CreateSubscription, SubscriptionKeys
<1>10. SubscriptionResource(r) \/ RevokeSubscriptionKey(r) => Writes(r)
  <2>1. \A row : /\ body[r].table = "subscriptions" =>
                      DOMAIN [subscriptions |-> row] \subseteq TablesOf(r)
                 /\ body[r].table = "keys" => DOMAIN [keys |-> row] \subseteq TablesOf(r)
    BY DEF TablesOf
  <2> QED
    BY <1>1, <2>1, StatementsWrite, Zenon DEF SubscriptionResource, RevokeSubscriptionKey, Is
<1>11. ServiceAccounts(r) \/ RevokeServiceAccount(r) => Writes(r)
  <2>1. \A row : body[r].table = "principals" => DOMAIN [principals |-> row] \subseteq TablesOf(r)
    BY DEF TablesOf
  <2>2. \A new : DOMAIN new \subseteq TablesOf(r) /\ AddAt(NewID[r], new) => Writes(r)
    BY DEF AddAt, Writes
  <2>3. ServiceAccounts(r) => Writes(r)
    BY <1>1, <2>1, <2>2, Zenon DEF ServiceAccounts, Is
  <2>4. LockPrincipal(r) \/ RevokeCredential(r) => Writes(r)
    BY <1>1 DEF LockPrincipal, RevokeCredential
  <2>5. CommitRevocation(r) /\ body[r].table = "principals" => Writes(r)
    BY <1>1, <2>1, StatementsWrite, Zenon DEF CommitRevocation
  <2> QED
    BY <2>3, <2>4, <2>5, Zenon DEF RevokeServiceAccount, Is
<1>12. AdminServicePrincipalResource(r) => Writes(r)
  BY StatementsWrite, Zenon DEF AdminServicePrincipalResource
<1> QED
  BY <1>2, <1>3, <1>4, <1>5, <1>6, <1>9, <1>10, <1>11, <1>12, Zenon DEF DirectoryStep, DirectoryNext

(* Nothing is ever deleted, and a step stays within the request's tables.  *)
LEMMA RowsGrow ==
  ASSUME NEW r, Writes(r), DOMAIN rows = Tables
  PROVE  /\ DOMAIN rows' = Tables
         /\ \A t \in Tables : /\ DOMAIN rows[t] \subseteq DOMAIN rows'[t]
                              /\ t \notin TablesOf(r) => rows'[t] = rows[t]
<1>1. CASE rows' = rows
  BY <1>1
<1>2. CASE \E id, new : DOMAIN new \subseteq TablesOf(r) /\ StoreAt(id, new)
  BY <1>2 DEF StoreAt, With
<1>3. CASE body[r].table = "users" /\ CommitIdentity(r)
  BY <1>3 DEF CommitIdentity, With, TablesOf
<1> QED
  BY <1>1, <1>2, <1>3 DEF Writes

-----------------------------------------------------------------------------
(* Price lists are whole: what the advisory lock of a list guarantees.     *)

\* What a request that replaces a list has looked up, its DELETE has found.
Validated(r) == IsPut(r) /\ pc[r] \in {"delete", "deleting", "commit"}
Deleted(r)   == IsPut(r) /\ pc[r] \in {"deleting", "commit"}

OneWriter ==
  \A r, q \in Requests :
    /\ body[r].op = "put" /\ body[q].op = "put" /\ body[r].id = body[q].id
    /\ pc[r] \in InTransaction /\ pc[q] \in InTransaction
    => r = q

OwnersAreThere ==
  \A r \in Requests : Validated(r) =>
    \/ body[r].op = "put" /\ body[r].table = "models"
    \/ body[r].table = "sync" /\ There(r)

\* The request that wrote a row has been answered: it writes no other.
Committed(p) == p.by \in Requests => pc[p.by] = "done"
OwnerReplaces(o) == \E q \in Requests : body[q].op = "ownerPut" /\ body[q].id = o

RowsAreCommitted ==
  /\ \A o \in DOMAIN lists : \A p \in lists[o] : Committed(p)
  /\ \A r \in Requests : Deleted(r) => \A p \in seen[r] : Committed(p)

\* A DELETE takes what it has found and is still there; only an owner's PUT
\* changes the list of an administrator's transaction that has begun to delete.
DeletesWhole ==
  \A r \in Requests :
    /\ IsPut(r) /\ pc[r] = "commit" => seen[r] \cap ListAt(body[r].id) \subseteq claimed[r]
    /\ body[r].op = "put" /\ Deleted(r) =>
         seen[r] = ListAt(body[r].id) \/ OwnerReplaces(body[r].id)

ModelsHaveNoJson ==
  \A r \in Requests : body[r].op = "put" /\ body[r].table = "models" => body[r].id \notin DOMAIN json

ListInv ==
  /\ body \in Scenarios /\ DOMAIN rows = Tables /\ DOMAIN answer = Requests
  /\ DOMAIN pc = Requests /\ DOMAIN seen = Requests /\ DOMAIN claimed = Requests
  /\ OneWriter /\ OwnersAreThere /\ RowsAreCommitted /\ DeletesWhole /\ ModelsHaveNoJson
  /\ ListsAreWhole

\* The steps of a request that replaces a list.
PutStep(r) ==
  \/ /\ pc[r] = "sent" /\ UNCHANGED <<listVars, json>>
     /\ \E at : /\ at \in {"lock", "done"} \/ (at = "check" /\ body[r].op = "ownerPut")
                /\ pc' = [pc EXCEPT ![r] = at]
  \/ /\ \/ TakeLock(r) \/ StartDelete(r) \/ FinishDelete(r) \/ ListFails(r)
        \/ \E valid : (valid => There(r)) /\ CheckList(r, valid)
     /\ UNCHANGED json
  \/ /\ CommitList(r)
     /\ json' = IF body[r].table = "sync" THEN With(json, body[r].id, body[r].prices) ELSE json

\* What a step of r does to the lists.
ListStep(r) ==
  \/ ~IsPut(r) /\ UNCHANGED <<listVars, json>>
  \/ body[r].op \in {"create", "ownerCreate"} /\ body[r].table = "sync" /\ InsertKey(r)
  \/ /\ IsPut(r) /\ rows' = rows /\ PutStep(r)
     /\ (body[r].op = "put" /\ body[r].table = "models") \/ body[r].table = "sync"

(* Only the POST of a key and the PUTs of lists touch the lists.           *)
LEMMA ListSteps == ASSUME NEW r, KeyNext(r) PROVE ListStep(r)
<1>1. CASE CatalogNext(r) /\ UNCHANGED keyVars
  <2>1. CASE AdminModelCustomerPrices(r)
    <3>1. IsPut(r) /\ body[r].op = "put" /\ body[r].table = "models" /\ UNCHANGED json
      BY <1>1, <2>1 DEF AdminModelCustomerPrices, Is, IsPut, keyVars
    <3>2. rows' = rows /\ PutStep(r)
      <4>1. CASE pc[r] = "sent" /\ StayRows /\ UNCHANGED listVars
                 /\ (IF There(r) THEN Goto(r, "lock") ELSE Reply(r, "missing"))
        BY <3>1, <4>1 DEF PutStep, StayRows, Goto, Reply
      <4>2. CASE Replace(r, There(r))
        BY <3>1, <4>2 DEF Replace, PutStep, TakeLock, CheckList, StartDelete, FinishDelete,
                          ListFails, StayRows
      <4>3. CASE CommitList(r)
        BY <3>1, <4>3 DEF PutStep, CommitList, StayRows
      <4> QED
        BY <2>1, <4>1, <4>2, <4>3 DEF AdminModelCustomerPrices
    <3> QED
      BY <3>1, <3>2 DEF ListStep
  <2>2. CASE ~AdminModelCustomerPrices(r)
    <3>1. UNCHANGED <<listVars, json>>
      BY <1>1, <2>2 DEF CatalogNext, keyVars
    <3>2. ~IsPut(r)
      BY <1>1, <2>2 DEF CatalogNext, IsPut, AdminProviders, AdminProviderResource, AdminModels,
        AdminModelResource, AdminModelListings, AdminModelListingResource, Create, Resource, Is
    <3> QED
      BY <3>1, <3>2 DEF ListStep
  <2> QED
    BY <2>1, <2>2
<1>2. CASE AdminProviderKeys(r) \/ CreateProviderKey(r)
  <2>1. /\ body[r].op \in {"create", "ownerCreate"} /\ body[r].table = "sync" /\ ~IsPut(r)
    BY <1>2 DEF AdminProviderKeys, CreateProviderKey, Is, IsPut
  <2>2. InsertKey(r) \/ UNCHANGED <<listVars, json>>
    BY <1>2 DEF AdminProviderKeys, CreateProviderKey, OwnerMerchant, ModelUnusable,
                InsertKeyFails, Stay, keyVars
  <2> QED
    BY <2>1, <2>2 DEF ListStep
<1>3. CASE AdminProviderKeyResource(r) \/ AdminProviderKeyRotateSecret(r) \/ DisableProviderKey(r)
  <2>1. ~IsPut(r)
    BY <1>3 DEF AdminProviderKeyResource, AdminProviderKeyRotateSecret, DisableProviderKey, Is,
                IsPut
  <2>2. UNCHANGED <<listVars, json>>
    BY <1>3 DEF AdminProviderKeyResource, AdminProviderKeyRotateSecret, DisableProviderKey,
                UpdateAdminProviderKey, UpdateKey, ReadRecord, KeyFails, Stay, keyVars
  <2> QED
    BY <2>1, <2>2 DEF ListStep
<1>4. CASE AdminProviderKeyPrices(r) \/ PutProviderKeyPrices(r)
  <2>1. IsPut(r) /\ body[r].table = "sync"
    BY <1>4 DEF AdminProviderKeyPrices, PutProviderKeyPrices, Is, IsPut
  <2>2. rows' = rows
    BY <1>4 DEF AdminProviderKeyPrices, PutProviderKeyPrices, CommitKeyList, Replace, TakeLock,
         CheckList, StartDelete, FinishDelete, ListFails, CommitList, Stay, StayRows
  <2>3. PutStep(r)
    <3>1. CASE CommitKeyList(r)
      BY <2>1, <3>1 DEF CommitKeyList, PutStep
    <3>2. CASE \E valid : (valid => There(r)) /\ Replace(r, valid) /\ UNCHANGED keyVars
      BY <3>2, Zenon DEF Replace, PutStep, keyVars
    <3>3. CASE /\ pc[r] = "sent" /\ Stay
               /\ \/ IF There(r) THEN Goto(r, "lock") ELSE Reply(r, "missing")
                  \/ body[r].op = "ownerPut" /\ Goto(r, "check")
      BY <3>3 DEF PutStep, Stay, keyVars, Goto, Reply
    <3> QED
      BY <1>4, <3>1, <3>2, <3>3 DEF AdminProviderKeyPrices, PutProviderKeyPrices, KeyListUsable, Is
  <2> QED
    BY <2>1, <2>2, <2>3 DEF ListStep
<1>5. CASE ResolveCall(r)
  <2>1. ~IsPut(r)
    BY <1>5 DEF ResolveCall, Is, IsPut
  <2>2. UNCHANGED <<listVars, json>>
    BY <1>5 DEF ResolveCall, ResolveModel, ResolveKeys, ResolveKey, Stay, keyVars
  <2> QED
    BY <2>1, <2>2 DEF ListStep
<1> QED
  BY <1>1, <1>2, <1>3, <1>4, <1>5 DEF KeyNext

(* Requests of the directory replace no list.                              *)
LEMMA DirectoryPutsNothing == ASSUME NEW r, DirectoryStep(r) PROVE ~IsPut(r)
BY DEF DirectoryStep, DirectoryNext, InitializeIdentity, Merchants, MerchantProducts,
  MerchantResource, ProductResource, OwnerResource, AdminProducts, AdminProductResource,
  AdminProductListings, AdminProductListingResource, CreateSubscription, SubscriptionResource,
  SubscriptionKeys, RevokeSubscriptionKey, AdminServicePrincipals, AdminServicePrincipalResource,
  ServiceAccounts, RevokeServiceAccount, Create, Resource, Is, IsPut

(* What any step of r means for the others: their places and their rows.   *)
LEMMA OthersStay ==
  ASSUME NEW r \in Requests, DOMAIN pc = Requests, DOMAIN rows = Tables, body' = body,
         MovesOn(r), Writes(r)
  PROVE  /\ Requests' = Requests /\ DOMAIN pc' = Requests /\ DOMAIN rows' = Tables
         /\ pc[r] # "done" /\ pc'[r] # "sent" /\ DOMAIN answer' = DOMAIN answer
         /\ \A q \in Requests \ {r} : pc'[q] = pc[q]
         /\ \A q \in Requests : body[q].table \in Tables /\ There(q) => There(q)'
<1>1. DOMAIN rows' = Tables /\ \A t \in Tables : DOMAIN rows[t] \subseteq DOMAIN rows'[t]
  BY RowsGrow
<1>2. Requests' = Requests
  BY DEF Requests
<1>3. \A q \in Requests : body[q].table \in Tables /\ There(q) => There(q)'
  BY <1>1 DEF There, Exists
<1> QED
  BY <1>1, <1>2, <1>3 DEF MovesOn

(* What a request has committed it has committed.                          *)
LEMMA CommittedStays ==
  ASSUME NEW r \in Requests, DOMAIN pc = Requests, Requests' = Requests, pc[r] # "done",
         \A q \in Requests \ {r} : pc'[q] = pc[q]
  PROVE  \A p : Committed(p) => Committed(p)'
BY DEF Committed

(* The prices of the list that a request inserts are those it was sent.    *)
LEMMA PricesOfList ==
  ASSUME body \in Scenarios, NEW r \in Requests,
         IsPut(r) \/ (body[r].op \in {"create", "ownerCreate"} /\ body[r].table = "sync")
  PROVE  /\ Prices(ListOf(r)) = body[r].prices
         /\ \A p \in ListOf(r) : p.by = r
<1>1. \A p \in body[r].prices : p = [item |-> p.item, price |-> p.price]
  BY PricesAssumption DEF Requests, IsPut
<1>2. \A p \in ListOf(r) : p.by = r
  BY DEF ListOf
<1>3. ASSUME NEW p \in Prices(ListOf(r)) PROVE p \in body[r].prices
  <2>1. PICK q \in ListOf(r) : p = [item |-> q.item, price |-> q.price]
    BY DEF Prices
  <2>2. PICK s \in body[r].prices : q = [item |-> s.item, price |-> s.price, by |-> r]
    BY DEF ListOf
  <2>3. q.item = s.item /\ q.price = s.price
    BY <2>2
  <2> QED
    BY <1>1, <2>1, <2>3
<1>4. ASSUME NEW p \in body[r].prices PROVE p \in Prices(ListOf(r))
  <2> DEFINE q == [item |-> p.item, price |-> p.price, by |-> r]
  <2>1. q \in ListOf(r) /\ q.item = p.item /\ q.price = p.price
    BY DEF ListOf
  <2> HIDE DEF q
  <2>2. p = [item |-> q.item, price |-> q.price]
    BY <1>1, <2>1
  <2> QED
    BY <2>1, <2>2 DEF Prices
<1> QED
  BY <1>2, <1>3, <1>4

(* The table and the IDs of keys and models.                               *)
LEMMA ListOwners ==
  ASSUME body \in Scenarios
  PROVE  /\ "sync" \in Tables
         /\ \A r, q \in Requests : /\ body[r].op = "put" /\ body[r].table = "models"
                                  /\ body[q].table = "sync" => body[q].id # body[r].id
BY PricesAssumption DEF Requests, Tables

(* A step that leaves the lists alone, of no PUT or outside its transaction. *)
LEMMA ListsStay ==
  ASSUME ListInv, NEW r \in Requests, body' = body, MovesOn(r), Writes(r),
         IsPut(r) => {pc[r], pc'[r]} \cap InTransaction = {},
         UNCHANGED <<listVars, json>>
  PROVE  ListInv'
<1>1. /\ Requests' = Requests /\ DOMAIN pc' = Requests /\ DOMAIN rows' = Tables
      /\ DOMAIN answer' = DOMAIN answer
      /\ pc[r] # "done"
      /\ \A q \in Requests \ {r} : pc'[q] = pc[q]
      /\ \A q \in Requests : body[q].table \in Tables /\ There(q) => There(q)'
  BY OthersStay DEF ListInv
<1>2. \A p : Committed(p) => Committed(p)'
  BY <1>1, CommittedStays DEF ListInv
<1>3. /\ lists' = lists /\ seen' = seen /\ claimed' = claimed /\ overtaken' = overtaken
      /\ json' = json
  BY DEF listVars
<1>4. /\ \A q \in Requests : IsPut(q)' = IsPut(q)
      /\ \A o : ListAt(o)' = ListAt(o) /\ OwnerReplaces(o)' = OwnerReplaces(o)
  BY <1>1, <1>3 DEF IsPut, ListAt, OwnerReplaces
<1>5. \A q \in Requests : /\ Validated(q)' = Validated(q) /\ Deleted(q)' = Deleted(q)
                          /\ IsPut(q) /\ pc'[q] \in InTransaction => pc'[q] = pc[q]
  <2> SUFFICES ASSUME NEW q \in Requests
               PROVE  /\ Validated(q)' = Validated(q) /\ Deleted(q)' = Deleted(q)
                      /\ IsPut(q) /\ pc'[q] \in InTransaction => pc'[q] = pc[q]
    OBVIOUS
  <2>1. CASE q # r
    BY <1>1, <1>4, <2>1 DEF Validated, Deleted
  <2>2. CASE q = r
    BY <1>4, <2>2 DEF Validated, Deleted, InTransaction
  <2> QED
    BY <2>1, <2>2
<1>6. OneWriter'
  BY <1>1, <1>5 DEF ListInv, OneWriter, IsPut
<1>7. OwnersAreThere'
  BY <1>1, <1>5, ListOwners DEF ListInv, OwnersAreThere
<1>8. RowsAreCommitted'
  BY <1>1, <1>2, <1>3, <1>5 DEF ListInv, RowsAreCommitted
<1>9. DeletesWhole'
  BY <1>1, <1>3, <1>4, <1>5 DEF ListInv, DeletesWhole, InTransaction
<1>10. ModelsHaveNoJson' /\ ListsAreWhole'
  BY <1>1, <1>3 DEF ListInv, ModelsHaveNoJson, ListsAreWhole, Prices
<1> QED
  BY <1>1, <1>3, <1>6, <1>7, <1>8, <1>9, <1>10 DEF ListInv

(* The POST of a key adds a list that nobody else is replacing.            *)
LEMMA InsertKeyIsWhole ==
  ASSUME ListInv, NEW r \in Requests, body' = body, MovesOn(r), Writes(r), InsertKey(r),
         body[r].op \in {"create", "ownerCreate"}, body[r].table = "sync"
  PROVE  ListInv'
<1> DEFINE k == body[r].id
<1>1. ~IsPut(r)
  BY DEF IsPut
<1>2. CASE There(r)
  BY <1>1, <1>2, ListsStay DEF InsertKey, keyVars
<1>3. CASE ~There(r)
  <2>1. /\ Requests' = Requests /\ DOMAIN pc' = Requests /\ DOMAIN rows' = Tables
        /\ DOMAIN answer' = DOMAIN answer
        /\ pc[r] # "done"
        /\ \A q \in Requests \ {r} : pc'[q] = pc[q]
        /\ \A q \in Requests : body[q].table \in Tables /\ There(q) => There(q)'
    BY OthersStay DEF ListInv
  <2>2. \A p : Committed(p) => Committed(p)'
    BY <2>1, CommittedStays DEF ListInv
  <2>3. /\ lists' = With(lists, k, ListOf(r)) /\ json' = With(json, k, body[r].prices)
        /\ seen' = seen /\ claimed' = claimed /\ overtaken' = overtaken
        /\ pc' = [pc EXCEPT ![r] = "done"]
    BY <1>3 DEF InsertKey, Insert, Reply
  <2>4. Prices(ListOf(r)) = body[r].prices /\ \A p \in ListOf(r) : p.by = r
    BY PricesOfList DEF ListInv
  <2>5. /\ \A q \in Requests : IsPut(q)' = IsPut(q) /\ (IsPut(q) => q # r)
        /\ \A o : OwnerReplaces(o)' = OwnerReplaces(o)
        /\ \A o : o # k => ListAt(o)' = ListAt(o)
    BY <1>1, <2>1, <2>3 DEF IsPut, OwnerReplaces, ListAt, With
  <2>6. \A q \in Requests : /\ Validated(q)' = Validated(q) /\ Deleted(q)' = Deleted(q)
                            /\ IsPut(q) => pc'[q] = pc[q]
    BY <2>1, <2>5 DEF Validated, Deleted
  <2>7. \A q \in Requests : Validated(q) => body[q].id # k
    <3> SUFFICES ASSUME NEW q \in Requests, Validated(q), body[q].id = k PROVE FALSE
      OBVIOUS
    <3>1. CASE body[q].op = "put" /\ body[q].table = "models"
      BY <3>1, ListOwners DEF ListInv
    <3>2. CASE body[q].table = "sync" /\ There(q)
      BY <1>3, <3>2 DEF There
    <3> QED
      BY <3>1, <3>2 DEF ListInv, OwnersAreThere
  <2>8. \A q \in Requests : Deleted(q) \/ (IsPut(q) /\ pc[q] = "commit") => Validated(q)
    BY DEF Deleted, Validated
  <2>9. OneWriter'
    BY <2>1, <2>6 DEF ListInv, OneWriter, IsPut
  <2>10. OwnersAreThere'
    BY <2>1, <2>6, ListOwners DEF ListInv, OwnersAreThere
  <2>11. RowsAreCommitted'
    <3>1. \A p \in ListOf(r) : Committed(p)'
      BY <2>1, <2>3, <2>4 DEF Committed, ListInv
    <3>2. \A o \in DOMAIN lists' : lists'[o] = IF o = k THEN ListOf(r) ELSE lists[o]
      BY <2>3 DEF With
    <3>3. \A o \in DOMAIN lists' : o # k => o \in DOMAIN lists
      BY <2>3 DEF With
    <3> QED
      BY <2>1, <2>2, <2>3, <2>6, <3>1, <3>2, <3>3 DEF ListInv, RowsAreCommitted
  <2>12. DeletesWhole'
    BY <2>1, <2>3, <2>5, <2>6, <2>7, <2>8 DEF ListInv, DeletesWhole
  <2>13. ModelsHaveNoJson'
    BY <2>1, <2>3, ListOwners DEF ListInv, ModelsHaveNoJson, With
  <2>14. ListsAreWhole'
    <3>1. ASSUME NEW o \in DOMAIN lists' \ overtaken'
          PROVE  /\ \A p, q \in lists'[o] : p.by = q.by
                 /\ o \in DOMAIN json' => json'[o] = Prices(lists'[o])
      <4>1. CASE o = k
        <5>1. lists'[o] = ListOf(r) /\ json'[o] = body[r].prices
          BY <2>3, <4>1 DEF With
        <5> QED
          BY <2>4, <5>1
      <4>2. CASE o # k
        <5>1. /\ o \in DOMAIN lists \ overtaken /\ lists'[o] = lists[o]
              /\ o \in DOMAIN json' => o \in DOMAIN json /\ json'[o] = json[o]
          BY <2>3, <3>1, <4>2 DEF With
        <5> QED
          BY <5>1 DEF ListInv, ListsAreWhole
      <4> QED
        BY <4>1, <4>2
    <3>2. \A o : Prices(lists[o])' = Prices(lists'[o])
      BY DEF Prices
    <3> QED
      BY <2>1, <2>3, <3>1, <3>2 DEF ListInv, ListsAreWhole, Prices
  <2> QED
    BY <2>1, <2>3, <2>9, <2>10, <2>11, <2>12, <2>13, <2>14 DEF ListInv
<1> QED
  BY <1>2, <1>3

(* A request that replaces a list and has not come to its INSERTs.         *)
LEMMA PutIsWhole ==
  ASSUME ListInv, NEW r \in Requests, body' = body, MovesOn(r), rows' = rows, IsPut(r),
         (body[r].op = "put" /\ body[r].table = "models") \/ body[r].table = "sync",
         PutStep(r), ~CommitList(r)
  PROVE  ListInv'
<1>1. /\ Requests' = Requests /\ DOMAIN pc' = Requests /\ DOMAIN rows' = Tables
      /\ DOMAIN answer' = DOMAIN answer
      /\ pc[r] # "done"
      /\ \A q \in Requests \ {r} : pc'[q] = pc[q]
      /\ \A q \in Requests : There(q)' = There(q)
  BY DEF ListInv, MovesOn, Requests, There, Exists
<1>2. \A p : Committed(p) => Committed(p)'
  BY <1>1, CommittedStays DEF ListInv
<1>3. /\ lists' = lists /\ json' = json /\ overtaken' = overtaken
      /\ DOMAIN seen' = Requests /\ DOMAIN claimed' = Requests
      /\ \A q \in Requests \ {r} : seen'[q] = seen[q] /\ claimed'[q] = claimed[q]
  BY DEF ListInv, PutStep, listVars, TakeLock, StartDelete, FinishDelete, ListFails, End, CheckList
<1>4. /\ \A q \in Requests : IsPut(q)' = IsPut(q)
      /\ \A o : ListAt(o)' = ListAt(o) /\ OwnerReplaces(o)' = OwnerReplaces(o)
  BY <1>1, <1>3 DEF IsPut, ListAt, OwnerReplaces
<1>5. \A q \in Requests \ {r} : Validated(q)' = Validated(q) /\ Deleted(q)' = Deleted(q)
  BY <1>1, <1>4 DEF Validated, Deleted
<1>6. \/ pc'[r] \in {"lock", "done"} \/ (pc'[r] = "check" /\ body[r].op = "ownerPut")
      \/ pc'[r] = "check" /\ TakeLock(r)
      \/ pc'[r] = "delete" /\ pc[r] = "check" /\ There(r)
      \/ pc'[r] = "deleting" /\ StartDelete(r)
      \/ pc'[r] = "commit" /\ FinishDelete(r)
  BY DEF ListInv, PutStep, TakeLock, CheckList, StartDelete, FinishDelete, ListFails, End, Goto, Reply
<1>7. pc'[r] \in InTransaction /\ body[r].op = "put" => pc[r] \in InTransaction \/ TakeLock(r)
  BY <1>6 DEF InTransaction, StartDelete, FinishDelete
<1>8. OneWriter'
  <2>1. ASSUME NEW q \in Requests \ {r}, body[q].op = "put", body[r].op = "put",
               body[q].id = body[r].id, pc[q] \in InTransaction, pc'[r] \in InTransaction
        PROVE  FALSE
    <3>1. CASE pc[r] \in InTransaction
      BY <2>1, <3>1 DEF ListInv, OneWriter
    <3>2. CASE TakeLock(r)
      BY <2>1, <3>2 DEF TakeLock, Rivals, IsPut
    <3> QED
      BY <1>7, <2>1, <3>1, <3>2
  <2> QED
    BY <1>1, <2>1 DEF ListInv, OneWriter
<1>9. OwnersAreThere'
  <2>1. Validated(r)' => Validated(r) \/ There(r)
    BY <1>4, <1>6 DEF Validated, StartDelete, FinishDelete
  <2>2. Validated(r)' => \/ body[r].op = "put" /\ body[r].table = "models"
                         \/ body[r].table = "sync" /\ There(r)
    BY <2>1 DEF ListInv, OwnersAreThere
  <2> QED
    BY <1>1, <1>5, <2>2 DEF ListInv, OwnersAreThere
<1>10. RowsAreCommitted'
  <2>1. ASSUME Deleted(r)', NEW p \in seen'[r] PROVE Committed(p)
    <3>1. CASE StartDelete(r)
      <4>1. seen'[r] = ListAt(body[r].id)
        BY <3>1 DEF ListInv, StartDelete
      <4> QED
        BY <2>1, <4>1 DEF ListAt, ListInv, RowsAreCommitted
    <3>2. CASE FinishDelete(r)
      BY <2>1, <3>2 DEF FinishDelete, Deleted, ListInv, RowsAreCommitted
    <3> QED
      BY <1>6, <2>1, <3>1, <3>2 DEF Deleted
  <2> QED
    BY <1>1, <1>2, <1>3, <1>5, <2>1 DEF ListInv, RowsAreCommitted
<1>11. DeletesWhole'
  <2>1. pc'[r] = "commit" => seen'[r] \cap ListAt(body[r].id) \subseteq claimed'[r]
    BY <1>6 DEF FinishDelete, ListInv
  <2>2. body[r].op = "put" /\ Deleted(r)' =>
          seen'[r] = ListAt(body[r].id) \/ OwnerReplaces(body[r].id)
    <3>1. CASE StartDelete(r)
      BY <3>1 DEF StartDelete, ListInv
    <3>2. CASE FinishDelete(r)
      BY <3>2 DEF FinishDelete, Deleted, ListInv, DeletesWhole
    <3> QED
      BY <1>6, <3>1, <3>2 DEF Deleted
  <2> QED
    BY <1>1, <1>3, <1>4, <1>5, <2>1, <2>2 DEF ListInv, DeletesWhole
<1>12. ModelsHaveNoJson' /\ ListsAreWhole'
  BY <1>1, <1>3 DEF ListInv, ModelsHaveNoJson, ListsAreWhole, Prices
<1> QED
  BY <1>1, <1>3, <1>8, <1>9, <1>10, <1>11, <1>12 DEF ListInv

(* The INSERTs and the Commit: nobody else has changed the list since the  *)
(* DELETE found its rows, or an owner's PUT replaces it.                   *)
LEMMA CommitIsWhole ==
  ASSUME ListInv, NEW r \in Requests, body' = body, MovesOn(r), rows' = rows, IsPut(r),
         (body[r].op = "put" /\ body[r].table = "models") \/ body[r].table = "sync",
         PutStep(r), CommitList(r)
  PROVE  ListInv'
<1> DEFINE o == body[r].id
<1>1. /\ Requests' = Requests /\ DOMAIN pc' = Requests /\ DOMAIN rows' = Tables
      /\ DOMAIN answer' = DOMAIN answer
      /\ \A q \in Requests \ {r} : pc'[q] = pc[q]
      /\ \A q \in Requests : There(q)' = There(q)
  BY DEF ListInv, MovesOn, Requests, There, Exists
<1>2. /\ pc[r] = "commit" /\ pc'[r] = "done" /\ seen' = seen
      /\ lists' = With(lists, o, Replaced(r))
      /\ json' = IF body[r].table = "sync" THEN With(json, o, body[r].prices) ELSE json
      /\ overtaken' = IF seen[r] # ListAt(o) THEN overtaken \cup {o} ELSE overtaken
      /\ DOMAIN claimed' = Requests /\ \A q \in Requests \ {r} : claimed'[q] = claimed[q]
  <2>1. pc[r] = "commit" /\ pc'[r] = "done" /\ answer'[r] = "ok"
    BY DEF ListInv, CommitList, End, Reply
  <2>2. ~ListFails(r)
    BY <2>1 DEF ListInv, ListFails, End, Reply
  <2>3. json' = IF body[r].table = "sync" THEN With(json, o, body[r].prices) ELSE json
    BY <2>1, <2>2 DEF PutStep, TakeLock, StartDelete, FinishDelete, CheckList
  <2> QED
    BY <2>1, <2>3 DEF ListInv, CommitList, End
<1>3. \A p : Committed(p) => Committed(p)'
  BY <1>1, <1>2, CommittedStays DEF ListInv
<1>4. Prices(ListOf(r)) = body[r].prices /\ \A p \in ListOf(r) : p.by = r
  BY PricesOfList DEF ListInv
<1>5. /\ \A q \in Requests : IsPut(q)' = IsPut(q)
      /\ \A i : OwnerReplaces(i)' = OwnerReplaces(i)
      /\ \A i : ListAt(i)' = IF i = o THEN Replaced(r) ELSE ListAt(i)
  BY <1>1, <1>2 DEF IsPut, OwnerReplaces, ListAt, With
<1>6. \A q \in Requests \ {r} : Validated(q)' = Validated(q) /\ Deleted(q)' = Deleted(q)
  BY <1>1, <1>5 DEF Validated, Deleted
<1>7. ~Validated(r)' /\ ~Deleted(r)' /\ pc'[r] \notin InTransaction /\ pc[r] \in InTransaction
  BY <1>2 DEF Validated, Deleted, InTransaction
<1>8. OneWriter' /\ OwnersAreThere'
  BY <1>1, <1>6, <1>7 DEF ListInv, OneWriter, OwnersAreThere
<1>9. RowsAreCommitted'
  <2>1. \A p \in Replaced(r) : Committed(p)'
    <3>1. \A p \in ListOf(r) : Committed(p)'
      BY <1>1, <1>2, <1>4 DEF Committed, ListInv
    <3>2. \A p \in ListAt(o) : Committed(p)'
      BY <1>3 DEF ListAt, ListInv, RowsAreCommitted
    <3> QED
      BY <3>1, <3>2 DEF Replaced
  <2>2. \A i \in DOMAIN lists' : \/ i = o /\ lists'[i] = Replaced(r)
                                 \/ i \in DOMAIN lists /\ lists'[i] = lists[i]
    BY <1>2 DEF With
  <2>3. \A i \in DOMAIN lists' : \A p \in lists'[i] : Committed(p)'
    BY <1>3, <2>1, <2>2 DEF ListInv, RowsAreCommitted
  <2>4. \A q \in Requests : Deleted(q)' => \A p \in seen'[q] : Committed(p)'
    BY <1>2, <1>3, <1>6, <1>7 DEF ListInv, RowsAreCommitted
  <2> QED
    BY <1>1, <2>3, <2>4 DEF RowsAreCommitted
<1>10. DeletesWhole'
  <2> SUFFICES ASSUME NEW q \in Requests
               PROVE  /\ IsPut(q) /\ pc'[q] = "commit" =>
                           seen'[q] \cap ListAt(body[q].id)' \subseteq claimed'[q]
                      /\ body[q].op = "put" /\ Deleted(q)' =>
                           seen'[q] = ListAt(body[q].id)' \/ OwnerReplaces(body[q].id)
    BY <1>1, <1>5 DEF DeletesWhole
  <2>1. CASE q = r
    BY <1>2, <1>7, <2>1
  <2>2. CASE q # r /\ body[q].id # o
    BY <1>1, <1>2, <1>5, <1>6, <2>2 DEF ListInv, DeletesWhole
  <2>3. CASE q # r /\ body[q].id = o
    <3>1. ASSUME IsPut(q), pc'[q] = "commit" PROVE seen'[q] \cap Replaced(r) \subseteq claimed'[q]
      <4>1. pc[q] = "commit" /\ Deleted(q) /\ seen'[q] = seen[q] /\ claimed'[q] = claimed[q]
        BY <1>1, <1>2, <2>3, <3>1 DEF Deleted
      <4>2. seen[q] \cap ListAt(o) \subseteq claimed[q]
        BY <2>3, <3>1, <4>1 DEF ListInv, DeletesWhole
      <4>3. \A p \in seen[q] : p \notin ListOf(r)
        BY <1>2, <1>4, <4>1 DEF ListInv, RowsAreCommitted, Committed
      <4> QED
        BY <4>1, <4>2, <4>3 DEF Replaced
    <3>2. ASSUME body[q].op = "put", Deleted(q)' PROVE OwnerReplaces(o)
      <4>1. pc[q] \in InTransaction
        BY <1>6, <2>3, <3>2 DEF Deleted, InTransaction
      <4>2. body[r].op # "put"
        BY <1>7, <2>3, <3>2, <4>1 DEF ListInv, OneWriter
      <4> QED
        BY <4>2 DEF OwnerReplaces, IsPut
    <3> QED
      BY <1>5, <2>3, <3>1, <3>2
  <2> QED
    BY <2>1, <2>2, <2>3
<1>11. ModelsHaveNoJson'
  BY <1>1, <1>2, ListOwners DEF ListInv, ModelsHaveNoJson, With
<1>12. ListsAreWhole'
  <2>1. seen[r] # ListAt(o) => OwnerReplaces(o)
    <3>1. CASE body[r].op = "ownerPut"
      BY <3>1 DEF OwnerReplaces
    <3>2. CASE body[r].op = "put"
      BY <1>2, <3>2 DEF ListInv, DeletesWhole, Deleted
    <3> QED
      BY <3>1, <3>2 DEF IsPut
  <2>2. \A i \in overtaken' : OwnerReplaces(i)
    BY <1>2, <2>1 DEF ListInv, ListsAreWhole, OwnerReplaces
  <2>3. ASSUME NEW i \in DOMAIN lists' \ overtaken'
        PROVE  /\ \A p, q \in lists'[i] : p.by = q.by
               /\ i \in DOMAIN json' => json'[i] = Prices(lists'[i])
    <3>1. CASE i = o
      <4>1. seen[r] = ListAt(o)
        BY <1>2, <2>3, <3>1
      <4>2. ListAt(o) \subseteq claimed[r]
        BY <1>2, <4>1 DEF ListInv, DeletesWhole
      <4>3. lists'[i] = ListOf(r)
        BY <1>2, <3>1, <4>2 DEF With, Replaced
      <4>4. i \in DOMAIN json' => json'[i] = body[r].prices
        BY <1>2, <3>1 DEF With, ListInv, ModelsHaveNoJson
      <4> QED
        BY <1>4, <4>3, <4>4
    <3>2. CASE i # o
      <4>1. /\ i \in DOMAIN lists \ overtaken /\ lists'[i] = lists[i]
            /\ i \in DOMAIN json' => i \in DOMAIN json /\ json'[i] = json[i]
        BY <1>2, <2>3, <3>2 DEF With
      <4> QED
        BY <4>1 DEF ListInv, ListsAreWhole
    <3> QED
      BY <3>1, <3>2
  <2> QED
    BY <1>1, <2>2, <2>3 DEF ListsAreWhole, OwnerReplaces, Prices
<1> QED
  BY <1>1, <1>2, <1>8, <1>9, <1>10, <1>11, <1>12 DEF ListInv

(* For every set of lists and requests, a price list is the list of one    *)
(* request, and a key's JSON says the same: what the advisory lock and the *)
(* DELETE by primary keys of replaceModelCustomerPrices and its neighbours *)
(* guarantee, unless the owner's PUT overlaps another replacement.         *)
THEOREM ListsStayWhole == Spec => []ListsAreWhole
<1>1. Init => ListInv
  <2> SUFFICES ASSUME Init PROVE ListInv
    OBVIOUS
  <2>1. /\ body \in Scenarios /\ DOMAIN rows = Tables
        /\ DOMAIN pc = Requests /\ DOMAIN answer = Requests
        /\ DOMAIN seen = Requests /\ DOMAIN claimed = Requests
        /\ \A r \in Requests : pc[r] = "sent"
        /\ lists = SeedLists /\ overtaken = {}
        /\ json = [k \in DOMAIN Seed.sync |-> Prices(SeedLists[k])]
    BY DEF Init, RowsInit, CatalogInit, KeysInit, Tables
  <2>2. OneWriter /\ OwnersAreThere /\ DeletesWhole
    BY <2>1 DEF OneWriter, OwnersAreThere, DeletesWhole, InTransaction, Validated, Deleted
  <2>3. RowsAreCommitted
    BY <2>1, SeedListsAssumption DEF RowsAreCommitted, Deleted, Committed, Requests
  <2>4. ModelsHaveNoJson
    BY <2>1, PricesAssumption DEF ModelsHaveNoJson, Requests
  <2>5. ListsAreWhole
    BY <2>1, SeedListsAssumption DEF ListsAreWhole
  <2> QED
    BY <2>1, <2>2, <2>3, <2>4, <2>5 DEF ListInv
<1>2. ASSUME ListInv, NEW r \in Requests, Step(r) PROVE ListInv'
  <2>1. body' = body /\ MovesOn(r) /\ Writes(r)
    BY <1>2, KeyMoves, DirectoryMoves, KeyWrites, DirectoryWrites, ReadFailsIsQuiet
    DEF Step, Writes
  <2>2. CASE DirectoryStep(r) /\ UNCHANGED <<listVars, keyVars>>
    BY <1>2, <2>1, <2>2, DirectoryPutsNothing, ListsStay DEF keyVars
  <2>3. CASE KeyNext(r)
    <3>1. ListStep(r)
      BY <2>3, ListSteps
    <3> QED
      BY <1>2, <2>1, <3>1, ListsStay, InsertKeyIsWhole, PutIsWhole, CommitIsWhole, Zenon
      DEF ListStep
  <2>4. CASE ReadFails(r)
    <3>1. pc'[r] = "done" /\ pc[r] \notin InTransaction /\ UNCHANGED <<listVars, json>>
      BY <1>2, <2>4, ReadFailsIsQuiet DEF ListInv, InTransaction, Reply, keyVars
    <3>2. IsPut(r) => {pc[r], pc'[r]} \cap InTransaction = {}
      BY <3>1 DEF InTransaction
    <3> QED
      BY <1>2, <2>1, <3>1, <3>2, ListsStay
  <2> QED
    BY <1>2, <2>2, <2>3, <2>4 DEF Step
<1>3. ListInv /\ UNCHANGED vars => ListInv'
  BY DEF vars, rowVars, listVars, keyVars, ListInv, OneWriter, OwnersAreThere, RowsAreCommitted,
    DeletesWhole, ModelsHaveNoJson, ListsAreWhole, Requests, IsPut, Validated, Deleted, Committed,
    OwnerReplaces, There, Exists, ListAt, Prices
<1>4. ListInv /\ [Next]_vars => ListInv'
  BY <1>2, <1>3 DEF Next, Finished
<1>5. ListInv => ListsAreWhole
  BY DEF ListInv
<1> QED
  BY <1>1, <1>4, <1>5, PTL DEF Spec

-----------------------------------------------------------------------------
(* Revocations hold.                                                       *)

(* The handlers of GizWay work on its tables.                              *)
LEMMA KeyHandlers ==
  ASSUME NEW r, KeyNext(r)
  PROVE  /\ body[r].table \in {"providers", "models", "model_listings", "sync"}
         /\ body[r].op \notin {"revoke", "initialize"}
<1>1. CatalogNext(r) => /\ body[r].table \in {"providers", "models", "model_listings"}
                        /\ body[r].op \notin {"revoke", "initialize"}
  BY DEF CatalogNext, AdminProviders, AdminProviderResource, AdminModels, AdminModelResource,
    AdminModelListings, AdminModelListingResource, AdminModelCustomerPrices, Create, Resource, Is
<1> QED
  BY <1>1 DEF KeyNext, AdminProviderKeys, CreateProviderKey, AdminProviderKeyResource,
    AdminProviderKeyRotateSecret, DisableProviderKey, AdminProviderKeyPrices,
    PutProviderKeyPrices, ResolveCall, Is

(* Those of GizPay, by the table they work on.                             *)
LEMMA DirectoryHandlers ==
  ASSUME NEW r, DirectoryStep(r)
  PROVE  \/ /\ body[r].table \in {"products", "product_listings", "subscriptions"}
            /\ body[r].op \notin {"revoke", "initialize"} /\ StayAlive
         \/ /\ body[r].table = "users" /\ body[r].op = "initialize"
            /\ InitializeIdentity(r) /\ StayAlive
         \/ /\ body[r].table = "merchants" /\ body[r].op \in {"post", "ownerPatch"}
            /\ Merchants(r) \/ MerchantResource(r)
            /\ StayAlive
         \/ /\ body[r].table = "keys" /\ body[r].op \in {"create", "revoke"}
            /\ SubscriptionKeys(r) \/ RevokeSubscriptionKey(r)
            /\ StayAlive
         \/ /\ body[r].table = "principals" /\ body[r].op # "initialize"
            /\ \/ ServiceAccounts(r) \/ RevokeServiceAccount(r)
               \/ AdminServicePrincipals(r) /\ StayAlive
               \/ AdminServicePrincipalResource(r) /\ StayAlive
<1>1. InitializeIdentity(r) => body[r].table = "users" /\ body[r].op = "initialize"
  BY DEF InitializeIdentity, Is
<1>2. Merchants(r) \/ MerchantResource(r) =>
        body[r].table = "merchants" /\ body[r].op \in {"post", "ownerPatch"}
  BY DEF Merchants, MerchantResource, Is
<1>3. MerchantProducts(r) \/ ProductResource(r) \/ AdminProducts(r) \/ AdminProductResource(r) =>
        body[r].table = "products" /\ body[r].op \notin {"revoke", "initialize"}
  BY DEF MerchantProducts, ProductResource, OwnerResource, AdminProducts, AdminProductResource,
         Create, Resource, Is
<1>4. AdminProductListings(r) \/ AdminProductListingResource(r) =>
        body[r].table = "product_listings" /\ body[r].op \notin {"revoke", "initialize"}
  BY DEF AdminProductListings, AdminProductListingResource, Create, Resource, Is
<1>5. CreateSubscription(r) \/ SubscriptionResource(r) =>
        body[r].table = "subscriptions" /\ body[r].op \notin {"revoke", "initialize"}
  BY DEF CreateSubscription, SubscriptionResource, Is
<1>6. SubscriptionKeys(r) \/ RevokeSubscriptionKey(r) =>
        body[r].table = "keys" /\ body[r].op \in {"create", "revoke"}
  BY DEF SubscriptionKeys, RevokeSubscriptionKey, Is
<1>7. ServiceAccounts(r) \/ RevokeServiceAccount(r) \/ AdminServicePrincipals(r)
        \/ AdminServicePrincipalResource(r) =>
        body[r].table = "principals" /\ body[r].op # "initialize"
  BY DEF ServiceAccounts, RevokeServiceAccount, AdminServicePrincipals,
         AdminServicePrincipalResource, Create, Is
<1> QED
  BY <1>1, <1>2, <1>3, <1>4, <1>5, <1>6, <1>7, Zenon DEF DirectoryStep, DirectoryNext

StatusIsKnown ==
  /\ \A k \in DOMAIN rows.keys : /\ "status" \in DOMAIN rows.keys[k]
                                 /\ rows.keys[k].status \in {"on", "revoked"}
  /\ \A p \in DOMAIN rows.principals : {"status", "key"} \subseteq DOMAIN rows.principals[p]

\* What GizPay has not chosen yet names neither a principal nor a credential.
UnusedCredentials ==
  \A q \in Requests : pc[q] # "done" =>
    /\ NewID[q] \notin DOMAIN rows.principals
    /\ \A p \in DOMAIN rows.principals : rows.principals[p].key # NewID[q]

\* What a request has found stays there; between the provider's answer to a
\* revocation and its UPDATE the credential is dead.
Revoker(r) ==
  /\ body[r].table \in {"keys", "principals"} /\ pc[r] \in {"write", "provider", "update"} => There(r)
  /\ body[r].table = "principals" /\ pc[r] = "update" => Row(r).key \notin alive
  /\ body[r].op = "revoke" /\ answer[r] = "ok" => /\ body[r].table \in {"keys", "principals"}
                                                 /\ There(r) /\ Row(r).status = "revoked"

DeletedByAdmin(p) ==
  \E r \in Requests : Is(r, "delete", "principals") /\ body[r].id = p /\ answer[r] = "ok"

RevokedAreDead ==
  \A p \in DOMAIN rows.principals :
    rows.principals[p].status = "revoked" /\ rows.principals[p].key \in alive => DeletedByAdmin(p)

RevokeInv ==
  /\ body \in Scenarios /\ DOMAIN rows = Tables
  /\ DOMAIN pc = Requests /\ DOMAIN answer = Requests
  /\ \A r \in Requests : answer[r] # "none" => pc[r] = "done"
  /\ StatusIsKnown /\ UnusedCredentials /\ RevokedAreDead
  /\ \A r \in Requests : Revoker(r)

\* What a step may do to the subscription keys ...
KeysKeep ==
  \A k \in DOMAIN rows'.keys :
    /\ "status" \in DOMAIN rows'.keys[k] /\ rows'.keys[k].status \in {"on", "revoked"}
    /\ k \in DOMAIN rows.keys /\ rows.keys[k].status = "revoked" => rows'.keys[k].status = "revoked"

\* ... and to a principal: a revoked one stays so, and one that is revoked now
\* has lost its credential or was deleted by the administration.
Kept(r, p) ==
  /\ rows'.principals[p].key = rows.principals[p].key
  /\ rows.principals[p].status = "revoked" => rows'.principals[p].status = "revoked"
  /\ rows'.principals[p].status = "revoked" =>
       \/ rows.principals[p].status = "revoked" \/ rows.principals[p].key \notin alive
       \/ Is(r, "delete", "principals") /\ body[r].id = p /\ answer'[r] = "ok"

Added(p) ==
  /\ p \notin DOMAIN rows.principals /\ rows'.principals[p].status = "on"
  /\ \A q \in Requests : pc'[q] # "done" => NewID[q] # p /\ rows'.principals[p].key # NewID[q]

PrincipalsKeep(r) ==
  /\ alive' \subseteq alive \cup {NewID[r]}
  /\ \A p \in DOMAIN rows'.principals : /\ {"status", "key"} \subseteq DOMAIN rows'.principals[p]
                                        /\ (p \in DOMAIN rows.principals /\ Kept(r, p)) \/ Added(p)

(* A step that does no more than that keeps the invariant.                 *)
LEMMA RevocationsStay ==
  ASSUME RevokeInv, NEW r \in Requests, body' = body, MovesOn(r), Writes(r),
         KeysKeep, PrincipalsKeep(r), Revoker(r)'
  PROVE  RevokeInv'
<1>1. /\ Requests' = Requests /\ DOMAIN pc' = Requests /\ DOMAIN rows' = Tables
      /\ pc[r] # "done" /\ DOMAIN answer' = DOMAIN answer
      /\ \A q \in Requests \ {r} : pc'[q] = pc[q]
      /\ \A q \in Requests : body[q].table \in Tables /\ There(q) => There(q)'
  BY OthersStay DEF RevokeInv
<1>2. /\ \A q \in Requests \ {r} : answer'[q] = answer[q]
      /\ \A q \in Requests : answer'[q] # "none" => pc'[q] = "done"
      /\ answer[r] = "none"
  BY <1>1 DEF RevokeInv, MovesOn
<1>3. {"keys", "principals"} \subseteq Tables
  BY CredentialsAssumption DEF Tables
<1>4. \A p \in DOMAIN rows.principals : p \in DOMAIN rows'.principals /\ Kept(r, p)
  BY <1>1, <1>3, RowsGrow DEF PrincipalsKeep, Added, RevokeInv
<1>5. StatusIsKnown'
  BY DEF StatusIsKnown, KeysKeep, PrincipalsKeep
<1>6. UnusedCredentials'
  <2> SUFFICES ASSUME NEW q \in Requests, pc'[q] # "done", NEW p \in DOMAIN rows'.principals
               PROVE  NewID[q] # p /\ rows'.principals[p].key # NewID[q]
    BY <1>1 DEF UnusedCredentials
  <2>1. pc[q] # "done"
    BY <1>1
  <2>2. CASE p \in DOMAIN rows.principals /\ Kept(r, p)
    BY <2>1, <2>2 DEF Kept, RevokeInv, UnusedCredentials
  <2>3. CASE Added(p)
    BY <2>3 DEF Added
  <2> QED
    BY <2>2, <2>3 DEF PrincipalsKeep
<1>7. \A p : DeletedByAdmin(p) => DeletedByAdmin(p)'
  BY <1>1, <1>2 DEF DeletedByAdmin, Is
<1>8. \A p \in DOMAIN rows.principals : rows.principals[p].key \notin alive =>
        rows.principals[p].key \notin alive'
  BY <1>1 DEF RevokeInv, UnusedCredentials, PrincipalsKeep
<1>9. RevokedAreDead'
  <2> SUFFICES ASSUME NEW p \in DOMAIN rows'.principals, rows'.principals[p].status = "revoked",
                      rows'.principals[p].key \in alive'
               PROVE  DeletedByAdmin(p)'
    BY DEF RevokedAreDead
  <2>1. p \in DOMAIN rows.principals /\ Kept(r, p)
    BY DEF PrincipalsKeep, Added
  <2>2. rows.principals[p].key \in alive
    BY <1>8, <2>1 DEF Kept
  <2>3. CASE rows.principals[p].status = "revoked"
    BY <1>7, <2>1, <2>2, <2>3 DEF RevokeInv, RevokedAreDead
  <2>4. CASE Is(r, "delete", "principals") /\ body[r].id = p /\ answer'[r] = "ok"
    BY <1>1, <2>4 DEF DeletedByAdmin, Is
  <2> QED
    BY <2>1, <2>2, <2>3, <2>4 DEF Kept
<1>10. \A q \in Requests : Revoker(q)'
  <2> SUFFICES ASSUME NEW q \in Requests \ {r} PROVE Revoker(q)'
    OBVIOUS
  <2>1. Revoker(q) /\ pc'[q] = pc[q] /\ answer'[q] = answer[q]
    BY <1>1, <1>2 DEF RevokeInv
  <2>2. ASSUME body[q].table = "keys", There(q), Row(q).status = "revoked"
        PROVE  Row(q)'.status = "revoked"
    BY <1>1, <1>3, <2>2 DEF KeysKeep, There, Exists, Row
  <2>3. ASSUME body[q].table = "principals", There(q)
        PROVE  /\ Row(q)'.key = Row(q).key
               /\ Row(q).status = "revoked" => Row(q)'.status = "revoked"
               /\ Row(q).key \notin alive => Row(q)'.key \notin alive'
    BY <1>4, <1>8, <2>3 DEF Kept, There, Exists, Row
  <2>4. body[q].table \in {"keys", "principals"} /\ There(q) => There(q)'
    BY <1>1, <1>3
  <2> QED
    BY <2>1, <2>2, <2>3, <2>4 DEF Revoker
<1> QED
  BY <1>1, <1>2, <1>5, <1>6, <1>9, <1>10 DEF RevokeInv

(* A request on other tables has no part in it.                            *)
LEMMA OthersRevokeNothing ==
  ASSUME RevokeInv, NEW r \in Requests, body' = body, MovesOn(r), Writes(r), UNCHANGED alive,
         body[r].table \notin {"keys", "principals"}, body[r].op # "revoke"
  PROVE  RevokeInv'
<1>1. {"keys", "principals"} \subseteq Tables
  BY CredentialsAssumption DEF Tables
<1>2. "keys" \notin TablesOf(r) /\ "principals" \notin TablesOf(r)
  BY DEF TablesOf, KeyTables
<1>3. rows'.keys = rows.keys /\ rows'.principals = rows.principals
  BY <1>1, <1>2, RowsGrow DEF RevokeInv
<1>4. KeysKeep
  BY <1>3 DEF RevokeInv, StatusIsKnown, KeysKeep
<1>5. PrincipalsKeep(r)
  BY <1>3 DEF RevokeInv, StatusIsKnown, PrincipalsKeep, Kept
<1>6. Revoker(r)'
  BY DEF Revoker
<1> QED
  BY <1>4, <1>5, <1>6, RevocationsStay

(* The handlers of subscription keys: a key that is not active has been    *)
(* revoked.                                                                *)
LEMMA KeysStayRevoked ==
  ASSUME RevokeInv, NEW r \in Requests, body' = body, MovesOn(r), Writes(r), UNCHANGED alive,
         body[r].table = "keys", body[r].op \in {"create", "revoke"},
         SubscriptionKeys(r) \/ RevokeSubscriptionKey(r)
  PROVE  RevokeInv'
<1>1. {"keys", "principals"} \subseteq Tables
  BY CredentialsAssumption DEF Tables
<1>2. "principals" \notin TablesOf(r)
  BY DEF TablesOf, KeyTables
<1>3. rows'.principals = rows.principals /\ (There(r) => There(r)')
  BY <1>1, <1>2, RowsGrow, OthersStay DEF RevokeInv
<1>4. PrincipalsKeep(r)
  BY <1>3 DEF RevokeInv, StatusIsKnown, PrincipalsKeep, Kept
<1>5. body \in Scenarios /\ r \in DOMAIN body
  BY DEF RevokeInv, Requests
<1>6. CASE SubscriptionKeys(r)
  <2>1. body[r].op = "create"
    BY <1>6 DEF SubscriptionKeys, Is
  <2>2. Revoker(r)'
    <3>1. pc'[r] \notin {"write", "provider", "update"}
      BY <1>6 DEF SubscriptionKeys, LookUpContent, InsertOrAgain, InsertErrors, InsertedByOther,
                  Goto, Reply, RevokeInv
    <3> QED
      BY <2>1, <3>1 DEF Revoker
  <2>3. CASE rows' = rows
    <3>1. KeysKeep
      BY <2>3 DEF RevokeInv, StatusIsKnown, KeysKeep
    <3> QED
      BY <1>4, <2>2, <3>1, RevocationsStay
  <2>4. CASE rows' # rows
    <3>1. ~There(r) /\ AddAt(body[r].id, Only("keys", body[r].row))
      BY <1>6, <2>4 DEF SubscriptionKeys, InsertOrAgain, InsertErrors, InsertedByOther, StayRows
    <3>2. rows'.keys = With(rows.keys, body[r].id, body[r].row)
      BY <1>1, <3>1 DEF AddAt, StoreAt, Only
    <3>3. "status" \in DOMAIN body[r].row /\ body[r].row.status = "on"
      BY <1>5, <2>1, CredentialsAssumption
    <3>4. KeysKeep
      BY <3>1, <3>2, <3>3 DEF RevokeInv, StatusIsKnown, KeysKeep, With, There, Exists
    <3> QED
      BY <1>4, <2>2, <3>4, RevocationsStay
  <2> QED
    BY <2>3, <2>4
<1>7. CASE RevokeSubscriptionKey(r)
  <2>1. body[r].op = "revoke" /\ body[r].set = [status |-> "revoked"]
    BY <1>5, <1>7, CredentialsAssumption DEF RevokeSubscriptionKey, Is
  <2>2. CASE rows' = rows
    <3>1. KeysKeep
      BY <2>2 DEF RevokeInv, StatusIsKnown, KeysKeep
    <3>2. pc'[r] = "write" => There(r)'
      BY <1>3, <1>7 DEF RevokeSubscriptionKey, Update, WriteFails, Goto, Reply, RevokeInv
    <3>3. pc'[r] \notin {"provider", "update"}
      BY <1>7 DEF RevokeSubscriptionKey, Update, WriteFails, Goto, Reply, RevokeInv
    <3>4. answer'[r] = "ok" => There(r)' /\ Row(r)'.status = "revoked"
      <4>1. CASE pc[r] = "sent"
        BY <1>7, <4>1 DEF RevokeSubscriptionKey, WriteFails, Goto, Reply, RevokeInv
      <4>2. CASE pc[r] = "write" /\ Row(r).status # "on"
        <5>1. There(r)
          BY <4>2 DEF RevokeInv, Revoker
        <5>2. Row(r).status = "revoked"
          BY <4>2, <5>1 DEF RevokeInv, StatusIsKnown, There, Exists, Row
        <5> QED
          BY <1>3, <2>2, <5>1, <5>2 DEF Row
      <4>3. CASE pc[r] = "write" /\ Update(r, [keys |-> Overlay(Row(r), body[r].set)])
        <5>1. There(r) /\ rows'.keys = With(rows.keys, body[r].id, Overlay(Row(r), body[r].set))
          BY <1>1, <4>3 DEF RevokeInv, Revoker, Update, StoreAt
        <5>2. Row(r)' = Overlay(Row(r), body[r].set) /\ "status" \in DOMAIN Row(r)
          BY <5>1 DEF Row, With, RevokeInv, StatusIsKnown, There, Exists
        <5> QED
          BY <1>3, <2>1, <5>1, <5>2 DEF Overlay
      <4>4. CASE WriteFails(r)
        BY <4>4 DEF WriteFails, Reply, RevokeInv
      <4> QED
        BY <1>7, <4>1, <4>2, <4>3, <4>4 DEF RevokeSubscriptionKey
    <3>5. Revoker(r)'
      BY <3>2, <3>3, <3>4 DEF Revoker
    <3> QED
      BY <1>4, <3>1, <3>5, RevocationsStay
  <2>3. CASE rows' # rows
    <3>1. pc[r] = "write" /\ Update(r, [keys |-> Overlay(Row(r), body[r].set)])
      BY <1>7, <2>3 DEF RevokeSubscriptionKey, WriteFails, StayRows
    <3>2. There(r) /\ rows'.keys = With(rows.keys, body[r].id, Overlay(Row(r), body[r].set))
      BY <1>1, <3>1 DEF RevokeInv, Revoker, Update, StoreAt
    <3>3. Row(r)' = Overlay(Row(r), body[r].set) /\ "status" \in DOMAIN Row(r)
      BY <3>2 DEF Row, With, RevokeInv, StatusIsKnown, There, Exists
    <3>4. DOMAIN Overlay(Row(r), body[r].set) = DOMAIN Row(r)
      BY DEF Overlay
    <3>5. Overlay(Row(r), body[r].set).status = "revoked"
      BY <2>1, <3>3 DEF Overlay
    <3>6. KeysKeep
      BY <3>2, <3>3, <3>4, <3>5 DEF RevokeInv, StatusIsKnown, KeysKeep, With, There, Exists
    <3>7. Revoker(r)'
      <4>1. pc'[r] = "done"
        BY <3>1 DEF Update, Reply, RevokeInv
      <4> QED
        BY <1>3, <3>2, <3>3, <3>5, <4>1 DEF Revoker
    <3> QED
      BY <1>4, <3>6, <3>7, RevocationsStay
  <2> QED
    BY <2>2, <2>3
<1> QED
  BY <1>6, <1>7

(* One row of principals is stored, or none.                               *)
LEMMA PrincipalStored ==
  ASSUME RevokeInv, NEW r \in Requests, body' = body, MovesOn(r), Writes(r),
         body[r].table = "principals", Revoker(r)', alive' \subseteq alive \cup {NewID[r]},
         \/ rows' = rows
         \/ \E id, row : /\ rows'.principals = With(rows.principals, id, row)
                         /\ {"status", "key"} \subseteq DOMAIN row
                         /\ \/ id \in DOMAIN rows.principals /\ Kept(r, id)
                            \/ id \notin DOMAIN rows.principals /\ Added(id)
  PROVE  RevokeInv'
<1>1. {"keys", "principals"} \subseteq Tables
  BY CredentialsAssumption DEF Tables
<1>2. "keys" \notin TablesOf(r)
  BY DEF TablesOf
<1>3. rows'.keys = rows.keys
  BY <1>1, <1>2, RowsGrow DEF RevokeInv
<1>4. KeysKeep
  BY <1>3 DEF RevokeInv, StatusIsKnown, KeysKeep
<1>5. PrincipalsKeep(r)
  <2>1. CASE rows' = rows
    BY <2>1 DEF RevokeInv, StatusIsKnown, PrincipalsKeep, Kept
  <2>2. CASE rows' # rows
    <3>1. PICK id, row : /\ rows'.principals = With(rows.principals, id, row)
                         /\ {"status", "key"} \subseteq DOMAIN row
                         /\ \/ id \in DOMAIN rows.principals /\ Kept(r, id)
                            \/ id \notin DOMAIN rows.principals /\ Added(id)
      BY <2>2
    <3>2. /\ rows'.principals[id] = row
          /\ \A p \in DOMAIN rows'.principals : p # id =>
               p \in DOMAIN rows.principals /\ rows'.principals[p] = rows.principals[p]
      BY <3>1 DEF With
    <3>3. \A p \in DOMAIN rows'.principals : p # id => p \in DOMAIN rows.principals /\ Kept(r, p)
      BY <3>2 DEF Kept
    <3> QED
      BY <3>1, <3>2, <3>3 DEF RevokeInv, StatusIsKnown, PrincipalsKeep
  <2> QED
    BY <2>1, <2>2
<1> QED
  BY <1>4, <1>5, RevocationsStay

(* The provider's credential, and the row that holds it.                   *)
LEMMA ServiceAccountsKeep ==
  ASSUME RevokeInv, NEW r \in Requests, body' = body, MovesOn(r), Writes(r), ServiceAccounts(r)
  PROVE  RevokeInv'
<1>1. body[r].table = "principals" /\ body[r].op = "post"
  BY DEF ServiceAccounts, Is
<1>2. body \in Scenarios /\ r \in DOMAIN body /\ "principals" \in Tables
  BY CredentialsAssumption DEF RevokeInv, Requests, Tables
<1>3. pc'[r] \notin {"write", "provider", "update"}
  BY DEF ServiceAccounts, Goto, Reply, RevokeInv
<1>4. Revoker(r)'
  BY <1>1, <1>3 DEF Revoker
<1>5. alive' \subseteq alive \cup {NewID[r]}
  BY DEF ServiceAccounts, StayAlive
<1>6. CASE rows' = rows
  BY <1>1, <1>4, <1>5, <1>6, PrincipalStored
<1>7. CASE rows' # rows
  <2> DEFINE row == [body[r].row EXCEPT !.key = NewID[r]]
  <2>1. AddAt(NewID[r], [principals |-> row]) /\ Reply(r, "created")
    BY <1>7 DEF ServiceAccounts, StayRows
  <2>2. pc[r] # "done" /\ pc'[r] = "done" /\ \A q \in Requests \ {r} : pc'[q] = pc[q]
    BY <2>1 DEF RevokeInv, Reply, MovesOn
  <2>3. /\ {"status", "key"} \subseteq DOMAIN row
        /\ row.status = "on" /\ row.key = NewID[r]
    BY <1>1, <1>2, CredentialsAssumption
  <2>4. rows'.principals = With(rows.principals, NewID[r], row)
    BY <1>2, <2>1 DEF AddAt, StoreAt
  <2>5. \A q \in Requests \ {r} : NewID[q] # NewID[r]
    BY <1>2, NewIDAssumption DEF Requests
  <2>6. NewID[r] \notin DOMAIN rows.principals /\ rows'.principals[NewID[r]] = row
    BY <2>2, <2>4 DEF RevokeInv, UnusedCredentials, With
  <2> HIDE DEF row
  <2>7. Added(NewID[r])
    BY <2>2, <2>3, <2>5, <2>6 DEF Added
  <2> QED
    BY <1>1, <1>4, <1>5, <2>3, <2>4, <2>6, <2>7, PrincipalStored
<1> QED
  BY <1>6, <1>7

(* RevokeCredential comes before the UPDATE.                               *)
LEMMA RevokeServiceAccountKeeps ==
  ASSUME RevokeInv, NEW r \in Requests, body' = body, MovesOn(r), Writes(r), RevokeServiceAccount(r)
  PROVE  RevokeInv'
<1>1. body[r].table = "principals" /\ body[r].op = "revoke"
  BY DEF RevokeServiceAccount, Is
<1>2. body \in Scenarios /\ r \in DOMAIN body /\ "principals" \in Tables
  BY CredentialsAssumption DEF RevokeInv, Requests, Tables
<1>3. body[r].set = [status |-> "revoked"]
  BY <1>1, <1>2, CredentialsAssumption
<1>4. There(r) => There(r)'
  BY <1>1, <1>2, OthersStay DEF RevokeInv
<1>5. CASE LockPrincipal(r)
  <2>1. rows' = rows /\ alive' = alive
    BY <1>5 DEF LockPrincipal, StayRows, StayAlive
  <2>2. /\ pc'[r] \in {"provider", "done"} /\ answer'[r] # "ok"
        /\ pc'[r] = "provider" => There(r)
    BY <1>5 DEF LockPrincipal, Goto, Reply, RevokeInv
  <2>3. Revoker(r)'
    BY <1>4, <2>2 DEF Revoker
  <2> QED
    BY <1>1, <2>1, <2>3, PrincipalStored
<1>6. CASE RevokeCredential(r)
  <2>1. rows' = rows /\ alive' \subseteq alive
    BY <1>6 DEF RevokeCredential, StayRows
  <2>2. /\ pc'[r] \in {"update", "done"} /\ answer'[r] # "ok" /\ There(r)
        /\ pc'[r] = "update" => Row(r).key \notin alive'
    BY <1>1, <1>6 DEF RevokeCredential, Goto, Reply, RevokeInv, Revoker
  <2>3. Row(r)' = Row(r)
    BY <2>1 DEF Row
  <2>4. Revoker(r)'
    BY <1>1, <1>4, <2>2, <2>3 DEF Revoker
  <2> QED
    BY <1>1, <2>1, <2>4, PrincipalStored
<1>7. CASE CommitRevocation(r)
  <2>1. alive' = alive /\ pc[r] = "update" /\ pc'[r] = "done"
    BY <1>7 DEF CommitRevocation, StayAlive, Update, Reply, RevokeInv
  <2>2. There(r) /\ Row(r).key \notin alive
    BY <1>1, <2>1 DEF RevokeInv, Revoker
  <2>3. CASE Reply(r, "error") /\ StayRows
    <3>1. answer'[r] # "ok" /\ rows' = rows
      BY <2>3 DEF Reply, StayRows, RevokeInv
    <3>2. Revoker(r)'
      BY <2>1, <3>1 DEF Revoker
    <3> QED
      BY <1>1, <2>1, <3>1, <3>2, PrincipalStored
  <2>4. CASE Update(r, [principals |-> Overlay(Row(r), body[r].set)])
    <3> DEFINE row == Overlay(Row(r), body[r].set)
               p   == body[r].id
    <3>1. p \in DOMAIN rows.principals /\ Row(r) = rows.principals[p]
      BY <1>1, <2>2 DEF There, Exists, Row
    <3>2. /\ {"status", "key"} \subseteq DOMAIN row
          /\ row.status = "revoked" /\ row.key = Row(r).key
      BY <1>3, <3>1 DEF RevokeInv, StatusIsKnown, Overlay
    <3>3. rows'.principals = With(rows.principals, p, row)
      BY <1>2, <2>4 DEF Update, StoreAt
    <3>4. rows'.principals[p] = row /\ Row(r)' = rows'.principals[p]
      BY <1>1, <3>3 DEF With, Row
    <3> HIDE DEF row
    <3>5. Kept(r, p)
      BY <2>2, <3>1, <3>2, <3>4 DEF Kept
    <3>6. Revoker(r)'
      BY <1>1, <1>4, <2>1, <2>2, <3>2, <3>4 DEF Revoker
    <3> QED
      BY <1>1, <2>1, <3>1, <3>2, <3>3, <3>5, <3>6, PrincipalStored
  <2> QED
    BY <1>7, <2>3, <2>4 DEF CommitRevocation
<1> QED
  BY <1>5, <1>6, <1>7 DEF RevokeServiceAccount

(* The administration's handlers of principals.                            *)
LEMMA AdminPrincipalsKeep ==
  ASSUME RevokeInv, NEW r \in Requests, body' = body, MovesOn(r), Writes(r), UNCHANGED alive,
         AdminServicePrincipals(r) \/ AdminServicePrincipalResource(r)
  PROVE  RevokeInv'
<1>1. body[r].table = "principals" /\ body[r].op \in {"create", "patch", "delete"}
  BY DEF AdminServicePrincipals, AdminServicePrincipalResource, Create, Is
<1>2. body \in Scenarios /\ r \in DOMAIN body /\ "principals" \in Tables
  BY CredentialsAssumption DEF RevokeInv, Requests, Tables
<1>3. There(r) => There(r)'
  BY <1>1, <1>2, OthersStay DEF RevokeInv
<1>4. CASE AdminServicePrincipals(r)
  <2>1. body[r].op = "create"
    BY <1>4 DEF AdminServicePrincipals, Create, Is
  <2>2. pc'[r] \notin {"write", "provider", "update"}
    BY <1>4 DEF AdminServicePrincipals, Create, LookUp, CheckParent, Insert, InsertFails,
                LookAgain, LookUpFails, Goto, Reply, RevokeInv
  <2>3. Revoker(r)'
    BY <2>1, <2>2 DEF Revoker
  <2>4. CASE rows' = rows
    BY <1>1, <2>3, <2>4, PrincipalStored
  <2>5. CASE rows' # rows
    <3>1. ~There(r) /\ AddAt(body[r].id, [principals |-> body[r].row])
      BY <1>4, <2>5 DEF AdminServicePrincipals, Create, LookUp, CheckParent, Insert, InsertFails,
                        LookAgain, LookUpFails, StayRows
    <3>2. rows'.principals = With(rows.principals, body[r].id, body[r].row)
      BY <1>2, <3>1 DEF AddAt, StoreAt
    <3>3. {"status", "key"} \subseteq DOMAIN body[r].row /\ body[r].row.status = "on"
      BY <1>1, <1>2, <2>1, CredentialsAssumption
    <3>4. \A q \in Requests : NewID[q] # body[r].id /\ NewID[q] # body[r].row.key
      BY <1>1, <1>2, <2>1, NewIDAssumption DEF Requests
    <3>5. body[r].id \notin DOMAIN rows.principals /\ rows'.principals[body[r].id] = body[r].row
      BY <1>1, <3>1, <3>2 DEF There, Exists, With
    <3>6. Added(body[r].id)
      BY <3>3, <3>4, <3>5 DEF Added
    <3> QED
      BY <1>1, <2>3, <3>2, <3>3, <3>5, <3>6, PrincipalStored
  <2> QED
    BY <2>4, <2>5
<1>5. CASE AdminServicePrincipalResource(r)
  <2>1. body[r].op \in {"patch", "delete"}
    BY <1>5 DEF AdminServicePrincipalResource
  <2>2. /\ pc'[r] \in {"write", "done"}
        /\ pc'[r] = "write" => There(r)
    BY <1>5 DEF AdminServicePrincipalResource, ReadRow, WriteRow, WriteFails, Update, Read, Reply,
                RevokeInv
  <2>3. Revoker(r)'
    BY <1>3, <2>1, <2>2 DEF Revoker
  <2>4. CASE rows' = rows
    BY <1>1, <2>3, <2>4, PrincipalStored
  <2>5. CASE rows' # rows
    <3> DEFINE columns == IF body[r].op = "delete" THEN {"status"} ELSE {"name", "roles"}
               row == Changed(r, Row(r), columns)
               p   == body[r].id
    <3>1. pc[r] = "write" /\ Row(r).status # "revoked" /\ Update(r, Only("principals", row))
      BY <1>1, <1>5, <2>5 DEF AdminServicePrincipalResource, ReadRow, WriteRow, WriteFails, StayRows
    <3>2. p \in DOMAIN rows.principals /\ Row(r) = rows.principals[p]
      BY <1>1, <3>1 DEF RevokeInv, Revoker, There, Exists, Row
    <3>3. rows'.principals = With(rows.principals, p, row)
      BY <1>2, <3>1 DEF Update, StoreAt, Only
    <3>4. rows'.principals[p] = row
      BY <3>3 DEF With
    <3>5. /\ {"status", "key"} \subseteq DOMAIN row
          /\ row.key = Row(r).key
          /\ body[r].op # "delete" => row.status = Row(r).status
      BY <3>2 DEF RevokeInv, StatusIsKnown, Changed
    <3>6. answer'[r] = "ok"
      BY <3>1 DEF Update, Reply, RevokeInv
    <3> HIDE DEF row
    <3>7. Kept(r, p)
      BY <1>1, <3>1, <3>2, <3>4, <3>5, <3>6, <2>1 DEF Kept, Is
    <3> QED
      BY <1>1, <2>3, <3>2, <3>3, <3>5, <3>7, PrincipalStored
  <2> QED
    BY <2>4, <2>5
<1> QED
  BY <1>4, <1>5

(* For every set of rows and requests: what an owner has revoked stays     *)
(* revoked, and the credential of a revoked principal is dead unless the   *)
(* administration has deleted the principal (revokeServiceAccount,         *)
(* subscriptionKeyResource, adminServicePrincipalResource).                *)
THEOREM RevocationsStayHeld == Spec => []RevocationsHold
<1>1. Init => RevokeInv
  <2> SUFFICES ASSUME Init PROVE RevokeInv
    OBVIOUS
  <2>1. /\ body \in Scenarios /\ rows = Seed /\ DOMAIN rows = Tables
        /\ DOMAIN pc = Requests /\ DOMAIN answer = Requests
        /\ \A r \in Requests : pc[r] = "sent" /\ answer[r] = "none"
        /\ alive = {Seed.principals[p].key : p \in DOMAIN Seed.principals} \ {"none"}
    BY DEF Init, RowsInit, DirectoryInit, Tables
  <2>2. StatusIsKnown
    BY <2>1, CredentialsAssumption DEF StatusIsKnown
  <2>3. UnusedCredentials
    BY <2>1, NewIDAssumption DEF UnusedCredentials, Requests
  <2>4. RevokedAreDead
    BY <2>1, CredentialsAssumption DEF RevokedAreDead
  <2> QED
    BY <2>1, <2>2, <2>3, <2>4 DEF RevokeInv, Revoker
<1>2. ASSUME RevokeInv, NEW r \in Requests, Step(r) PROVE RevokeInv'
  <2>1. body' = body /\ MovesOn(r) /\ Writes(r)
    BY <1>2, KeyMoves, DirectoryMoves, KeyWrites, DirectoryWrites, ReadFailsIsQuiet
    DEF Step, Writes
  <2>2. CASE KeyNext(r) /\ StayAlive
    BY <1>2, <2>1, <2>2, KeyHandlers, OthersRevokeNothing DEF StayAlive
  <2>3. CASE DirectoryStep(r)
    <3>1. CASE body[r].table \in {"products", "product_listings", "subscriptions", "users",
                                  "merchants"}
      BY <1>2, <2>1, <2>3, <3>1, DirectoryHandlers, OthersRevokeNothing DEF StayAlive
    <3>2. CASE body[r].table = "keys"
      BY <1>2, <2>1, <2>3, <3>2, DirectoryHandlers, KeysStayRevoked DEF StayAlive
    <3>3. CASE body[r].table = "principals"
      BY <1>2, <2>1, <2>3, <3>3, DirectoryHandlers, ServiceAccountsKeep, RevokeServiceAccountKeeps,
         AdminPrincipalsKeep DEF StayAlive
    <3> QED
      BY <2>3, <3>1, <3>2, <3>3, DirectoryHandlers
  <2>4. CASE ReadFails(r) /\ StayAlive
    <3>1. rows' = rows /\ alive' = alive /\ pc'[r] = "done" /\ answer'[r] = "error"
      BY <1>2, <2>4, ReadFailsIsQuiet DEF RevokeInv, Reply, StayAlive
    <3>2. KeysKeep /\ PrincipalsKeep(r)
      BY <1>2, <3>1 DEF RevokeInv, StatusIsKnown, KeysKeep, PrincipalsKeep, Kept
    <3>3. Revoker(r)'
      BY <3>1 DEF Revoker
    <3> QED
      BY <1>2, <2>1, <3>2, <3>3, RevocationsStay
  <2> QED
    BY <1>2, <2>2, <2>3, <2>4 DEF Step
<1>3. RevokeInv /\ UNCHANGED vars => RevokeInv'
  BY DEF vars, rowVars, RevokeInv, StatusIsKnown, UnusedCredentials, RevokedAreDead, Revoker,
    DeletedByAdmin, Requests, Is, There, Exists, Row
<1>4. RevokeInv /\ [Next]_vars => RevokeInv'
  BY <1>2, <1>3 DEF Next, Finished
<1>5. RevokeInv => RevocationsHold
  BY DEF RevokeInv, Revoker, RevokedAreDead, DeletedByAdmin, RevocationsHold
<1> QED
  BY <1>1, <1>4, <1>5, PTL DEF Spec

-----------------------------------------------------------------------------
(* Identities settle.                                                      *)

Initializes(r) == Is(r, "initialize", "users")
Initializing(r) == Initializes(r) /\ pc[r] \in {"merchant", "default", "commit"}

MerchantRows == \A m \in DOMAIN rows.merchants : {"owner", "default"} \subseteq DOMAIN rows.merchants[m]

UnusedMerchants == \A q \in Requests : pc[q] # "done" => NewID[q] \notin DOMAIN rows.merchants

\* A user's profile names the user's default merchant; nobody else has one.
OneDefault ==
  \A i : Defaults(i) = IF i \in DOMAIN rows.users THEN {rows.profiles[i].merchant} ELSE {}

HaveProfiles == DOMAIN rows.users \subseteq DOMAIN rows.profiles

\* The upsert of the users row locks it until the transaction ends.
OneInitializer ==
  \A r, q \in Requests :
    Initializing(r) /\ Initializing(q) /\ body[r].id = body[q].id => r = q

AskedFor(r) == IF Wants(r) THEN body[r].want ELSE NewID[r]

\* What a transaction has inserted and not committed exists nowhere else.
PendingIsNew(r) ==
  Initializes(r) /\ pc[r] \in {"default", "commit"} =>
    /\ Pending(r) \subseteq {AskedFor(r)} /\ Pending(r) \cap DOMAIN rows.merchants = {}
    /\ Pending(r) # {} => Defaults(body[r].id) = {}
    /\ \A q \in Requests \ {r} : Pending(r) \cap Pending(q) = {}

ChosenIsDefault(r) ==
  Initializes(r) /\ pc[r] = "commit" =>
    /\ Defaults(body[r].id) \cup Pending(r) = {mem[r].merchant}
    /\ Wants(r) => mem[r].merchant = body[r].want

Initialized(r) ==
  body[r].op = "initialize" /\ answer[r] = "ok" =>
    /\ Initializes(r) /\ body[r].id \in DOMAIN rows.users
    /\ Wants(r) => Defaults(body[r].id) = {body[r].want}

PatchFound(r) ==
  body[r].op = "ownerPatch" /\ body[r].table = "merchants" /\ pc[r] = "write" => There(r)

IdentityInv ==
  /\ body \in Scenarios /\ DOMAIN rows = Tables
  /\ DOMAIN pc = Requests /\ DOMAIN mem = Requests /\ DOMAIN answer = Requests
  /\ \A r \in Requests : answer[r] # "none" => pc[r] = "done"
  /\ MerchantRows /\ UnusedMerchants /\ OneDefault /\ HaveProfiles /\ OneInitializer
  /\ \A r \in Requests : PendingIsNew(r) /\ ChosenIsDefault(r) /\ Initialized(r) /\ PatchFound(r)

\* A step that leaves users alone, and of merchants their owners and defaults.
MerchantsKeep(r) ==
  /\ rows'.users = rows.users /\ rows'.profiles = rows.profiles
  /\ \A m \in DOMAIN rows.merchants :
       /\ m \in DOMAIN rows'.merchants
       /\ rows'.merchants[m].owner = rows.merchants[m].owner
       /\ rows'.merchants[m].default = rows.merchants[m].default
  /\ \A m \in DOMAIN rows'.merchants :
       /\ {"owner", "default"} \subseteq DOMAIN rows'.merchants[m]
       /\ m \notin DOMAIN rows.merchants =>
            m = NewID[r] /\ pc'[r] = "done" /\ ~rows'.merchants[m].default

(* What any step of r leaves to the others.                                *)
LEMMA IdentitiesOfOthers ==
  ASSUME IdentityInv, NEW r \in Requests, body' = body, MovesOn(r), Writes(r)
  PROVE  /\ Requests' = Requests /\ DOMAIN rows' = Tables
         /\ DOMAIN pc' = Requests /\ DOMAIN mem' = Requests /\ DOMAIN answer' = Requests
         /\ pc[r] # "done" /\ answer[r] = "none"
         /\ \A q \in Requests : answer'[q] # "none" => pc'[q] = "done"
         /\ \A q \in Requests \ {r} : /\ pc'[q] = pc[q] /\ mem'[q] = mem[q]
                                      /\ answer'[q] = answer[q]
                                      /\ Initializing(q)' = Initializing(q)
                                      /\ Pending(q)' = Pending(q)
         /\ \A q \in Requests : /\ Initializes(q)' = Initializes(q) /\ Wants(q)' = Wants(q)
                                /\ AskedFor(q)' = AskedFor(q)
         /\ {"users", "profiles", "merchants"} \subseteq Tables
         /\ \A q \in Requests : body[q].table \in Tables /\ There(q) => There(q)'
<1>1. /\ Requests' = Requests /\ DOMAIN rows' = Tables /\ DOMAIN pc' = Requests
      /\ pc[r] # "done" /\ DOMAIN answer' = DOMAIN answer
      /\ \A q \in Requests \ {r} : pc'[q] = pc[q]
      /\ \A q \in Requests : body[q].table \in Tables /\ There(q) => There(q)'
  BY OthersStay DEF IdentityInv
<1>2. /\ DOMAIN mem' = Requests /\ DOMAIN answer' = Requests /\ answer[r] = "none"
      /\ \A q \in Requests : answer'[q] # "none" => pc'[q] = "done"
      /\ \A q \in Requests \ {r} : mem'[q] = mem[q] /\ answer'[q] = answer[q]
  BY <1>1 DEF IdentityInv, MovesOn
<1>3. \A q \in Requests : /\ Initializes(q)' = Initializes(q) /\ Wants(q)' = Wants(q)
                          /\ AskedFor(q)' = AskedFor(q)
  BY DEF Initializes, Is, Wants, AskedFor
<1>4. \A q \in Requests \ {r} : /\ Initializing(q)' = Initializing(q)
                                /\ Pending(q)' = Pending(q)
  BY <1>1, <1>2 DEF Initializing, Initializes, Pending, Is
<1>5. {"users", "profiles", "merchants"} \subseteq Tables
  BY IdentitiesAssumption DEF Tables
<1> QED
  BY <1>1, <1>2, <1>3, <1>4, <1>5

(* A request that initializes nothing.                                     *)
LEMMA IdentitiesStay ==
  ASSUME IdentityInv, NEW r \in Requests, body' = body, MovesOn(r), Writes(r),
         body[r].op # "initialize", MerchantsKeep(r), PatchFound(r)'
  PROVE  IdentityInv'
<1>1. /\ Requests' = Requests /\ DOMAIN rows' = Tables
      /\ DOMAIN pc' = Requests /\ DOMAIN mem' = Requests /\ DOMAIN answer' = Requests
      /\ pc[r] # "done"
      /\ \A q \in Requests : answer'[q] # "none" => pc'[q] = "done"
      /\ \A q \in Requests \ {r} : /\ pc'[q] = pc[q] /\ mem'[q] = mem[q]
                                   /\ answer'[q] = answer[q]
                                   /\ Initializing(q)' = Initializing(q)
                                   /\ Pending(q)' = Pending(q)
      /\ \A q \in Requests : /\ Initializes(q)' = Initializes(q) /\ Wants(q)' = Wants(q)
                             /\ AskedFor(q)' = AskedFor(q)
      /\ {"users", "profiles", "merchants"} \subseteq Tables
      /\ \A q \in Requests : body[q].table \in Tables /\ There(q) => There(q)'
  BY IdentitiesOfOthers
<1>2. ~Initializes(r) /\ ~Initializing(r)
  BY DEF Initializes, Initializing, Is
<1>3. \A i : Defaults(i)' = Defaults(i)
  BY DEF Defaults, MerchantsKeep
<1>4. MerchantRows'
  BY DEF MerchantRows, MerchantsKeep
<1>5. \A q \in Requests \ {r} : NewID[q] # NewID[r]
  BY NewIDAssumption DEF IdentityInv, Requests
<1>6. UnusedMerchants'
  BY <1>1, <1>5 DEF IdentityInv, UnusedMerchants, MerchantsKeep
<1>7. OneDefault' /\ HaveProfiles'
  BY <1>3 DEF IdentityInv, OneDefault, HaveProfiles, MerchantsKeep
<1>8. OneInitializer'
  BY <1>1, <1>2 DEF IdentityInv, OneInitializer, Initializing
<1>9. \A q \in Requests : Initialized(q)'
  BY <1>1, <1>3 DEF IdentityInv, Initialized, MerchantsKeep
<1>10. \A q \in Requests : ChosenIsDefault(q)'
  BY <1>1, <1>2, <1>3 DEF IdentityInv, ChosenIsDefault
<1>11. Pending(r) = {} /\ Pending(r)' = {}
  BY <1>1, <1>2 DEF Pending, Initializes
<1>12. \A q \in Requests : PendingIsNew(q)'
  <2> SUFFICES ASSUME NEW q \in Requests \ {r}, Initializes(q), pc[q] \in {"default", "commit"}
               PROVE  PendingIsNew(q)'
    BY <1>1, <1>2 DEF PendingIsNew
  <2>1. PendingIsNew(q)
    BY DEF IdentityInv
  <2>2. NewID[r] # AskedFor(q)
    BY <1>5, NewIDAssumption DEF IdentityInv, Requests, AskedFor, Wants, Initializes, Is
  <2>3. Pending(q) \cap DOMAIN rows'.merchants = {}
    BY <2>1, <2>2 DEF PendingIsNew, MerchantsKeep
  <2> QED
    BY <1>1, <1>3, <1>11, <2>1, <2>3 DEF PendingIsNew
<1>13. \A q \in Requests : PatchFound(q)'
  BY <1>1 DEF IdentityInv, PatchFound
<1> QED
  BY <1>1, <1>4, <1>6, <1>7, <1>8, <1>9, <1>10, <1>12, <1>13 DEF IdentityInv

(* Requests on other tables, and those of merchants.                       *)
LEMMA MerchantsAreKept ==
  ASSUME IdentityInv, NEW r \in Requests, body' = body, MovesOn(r), Writes(r),
         body[r].op # "initialize",
         \/ body[r].table \notin {"users", "profiles", "merchants"}
         \/ body[r].table = "merchants" /\ (Merchants(r) \/ MerchantResource(r))
  PROVE  IdentityInv'
<1>1. {"users", "profiles", "merchants"} \subseteq Tables
  BY IdentitiesAssumption DEF Tables
<1>2. "users" \notin TablesOf(r) /\ "profiles" \notin TablesOf(r)
  BY DEF TablesOf, KeyTables
<1>3. rows'.users = rows.users /\ rows'.profiles = rows.profiles
  BY <1>1, <1>2, RowsGrow DEF IdentityInv
<1>4. body \in Scenarios /\ r \in DOMAIN body
  BY DEF IdentityInv, Requests
<1>5. There(r) /\ body[r].table = "merchants" => There(r)'
  BY <1>1, OthersStay DEF IdentityInv
<1>6. CASE body[r].table \notin {"users", "profiles", "merchants"}
  <2>1. "merchants" \notin TablesOf(r)
    BY <1>6 DEF TablesOf, KeyTables
  <2>2. rows'.merchants = rows.merchants
    BY <1>1, <2>1, RowsGrow DEF IdentityInv
  <2>3. MerchantsKeep(r) /\ PatchFound(r)'
    BY <1>3, <1>6, <2>2 DEF MerchantsKeep, PatchFound, IdentityInv, MerchantRows
  <2> QED
    BY <2>3, IdentitiesStay
<1>7. CASE Merchants(r) /\ body[r].table = "merchants"
  <2>1. body[r].op = "post"
    BY <1>7 DEF Merchants, Is
  <2>2. PatchFound(r)'
    BY <2>1 DEF PatchFound
  <2>3. CASE rows' = rows
    <3>1. MerchantsKeep(r)
      BY <2>3 DEF MerchantsKeep, IdentityInv, MerchantRows
    <3> QED
      BY <2>2, <3>1, IdentitiesStay
  <2>4. CASE rows' # rows
    <3>1. AddAt(NewID[r], [merchants |-> body[r].row]) /\ Reply(r, "created")
      BY <1>7, <2>4 DEF Merchants, InsertFresh, StayRows
    <3>2. rows'.merchants = With(rows.merchants, NewID[r], body[r].row)
      BY <1>1, <3>1 DEF AddAt, StoreAt
    <3>3. {"owner", "default"} \subseteq DOMAIN body[r].row /\ ~body[r].row.default
      BY <1>4, <1>7, <2>1, IdentitiesAssumption
    <3>4. NewID[r] \notin DOMAIN rows.merchants /\ pc'[r] = "done"
      BY <3>1 DEF MovesOn, IdentityInv, UnusedMerchants, Reply
    <3>5. MerchantsKeep(r)
      BY <1>3, <3>2, <3>3, <3>4 DEF MerchantsKeep, IdentityInv, MerchantRows, With
    <3> QED
      BY <2>2, <3>5, IdentitiesStay
  <2> QED
    BY <2>3, <2>4
<1>8. CASE MerchantResource(r) /\ body[r].table = "merchants"
  <2>1. pc'[r] = "write" => There(r)
    BY <1>8 DEF MerchantResource, OwnerResource, OwnsMerchant, ReadRow, WriteRow, WriteFails,
                Update, Read, Reply, There, IdentityInv
  <2>2. PatchFound(r)'
    BY <1>5, <2>1 DEF PatchFound
  <2>3. CASE rows' = rows
    <3>1. MerchantsKeep(r)
      BY <2>3 DEF MerchantsKeep, IdentityInv, MerchantRows
    <3> QED
      BY <2>2, <3>1, IdentitiesStay
  <2>4. CASE rows' # rows
    <3> DEFINE row == Changed(r, Row(r), {"name", "status"})
               m   == body[r].id
    <3>1. pc[r] = "write" /\ Update(r, Only("merchants", row)) /\ body[r].op = "ownerPatch"
      BY <1>8, <2>4 DEF MerchantResource, OwnerResource, ReadRow, WriteRow, WriteFails, StayRows, Is
    <3>2. m \in DOMAIN rows.merchants /\ Row(r) = rows.merchants[m]
      BY <1>8, <3>1 DEF IdentityInv, PatchFound, There, Exists, Row
    <3>3. rows'.merchants = With(rows.merchants, m, row)
      BY <1>1, <3>1 DEF Update, StoreAt, Only
    <3>4. /\ {"owner", "default"} \subseteq DOMAIN row
          /\ row.owner = rows.merchants[m].owner /\ row.default = rows.merchants[m].default
      BY <3>2 DEF IdentityInv, MerchantRows, Changed
    <3> HIDE DEF row
    <3>5. MerchantsKeep(r)
      BY <1>3, <3>2, <3>3, <3>4 DEF MerchantsKeep, IdentityInv, MerchantRows, With
    <3> QED
      BY <2>2, <3>5, IdentitiesStay
  <2> QED
    BY <2>3, <2>4
<1> QED
  BY <1>6, <1>7, <1>8

(* An initialization that has not committed changes no row; it takes the   *)
(* users row only from nobody.                                             *)
LEMMA QuietIdentities ==
  ASSUME IdentityInv, NEW r \in Requests, body' = body, MovesOn(r), Writes(r), rows' = rows,
         Initializes(r) \/ PatchFound(r)', answer'[r] # "ok", PendingIsNew(r)',
         ChosenIsDefault(r)',
         Initializing(r)' => Initializing(r) \/ Holding(body[r].id) = {}
  PROVE  IdentityInv'
<1>1. /\ Requests' = Requests /\ DOMAIN rows' = Tables
      /\ DOMAIN pc' = Requests /\ DOMAIN mem' = Requests /\ DOMAIN answer' = Requests
      /\ pc[r] # "done"
      /\ \A q \in Requests : answer'[q] # "none" => pc'[q] = "done"
      /\ \A q \in Requests \ {r} : /\ pc'[q] = pc[q] /\ mem'[q] = mem[q]
                                   /\ answer'[q] = answer[q]
                                   /\ Initializing(q)' = Initializing(q)
                                   /\ Pending(q)' = Pending(q)
      /\ \A q \in Requests : /\ Initializes(q)' = Initializes(q) /\ Wants(q)' = Wants(q)
                             /\ AskedFor(q)' = AskedFor(q)
  BY IdentitiesOfOthers
<1>2. \A i : Defaults(i)' = Defaults(i)
  BY DEF Defaults
<1>3. MerchantRows' /\ OneDefault' /\ HaveProfiles'
  BY <1>2 DEF IdentityInv, MerchantRows, OneDefault, HaveProfiles
<1>4. UnusedMerchants'
  BY <1>1 DEF IdentityInv, UnusedMerchants
<1>5. OneInitializer'
  <2>1. \A q \in Requests \ {r} :
          Initializing(r)' /\ Initializing(q) => body[q].id # body[r].id
    BY DEF Initializing, Initializes, Holding, Is, IdentityInv, OneInitializer
  <2> QED
    BY <1>1, <2>1 DEF IdentityInv, OneInitializer
<1>6. \A q \in Requests : Initialized(q)'
  BY <1>1, <1>2 DEF IdentityInv, Initialized
<1>7. \A q \in Requests : ChosenIsDefault(q)'
  BY <1>1, <1>2 DEF IdentityInv, ChosenIsDefault
<1>8. \A q \in Requests \ {r} : Pending(r)' \cap Pending(q)' = {}
  BY <1>1 DEF PendingIsNew, Pending, Initializes
<1>9. \A q \in Requests : PendingIsNew(q)'
  <2> SUFFICES ASSUME NEW q \in Requests \ {r}, Initializes(q), pc[q] \in {"default", "commit"}
               PROVE  PendingIsNew(q)'
    BY <1>1 DEF PendingIsNew
  <2>1. PendingIsNew(q)
    BY DEF IdentityInv
  <2> QED
    BY <1>1, <1>2, <1>8, <2>1 DEF PendingIsNew
<1>10. \A q \in Requests : PatchFound(q)'
  BY <1>1 DEF IdentityInv, PatchFound, Initializes, Is, There, Exists
<1> QED
  BY <1>1, <1>3, <1>4, <1>5, <1>6, <1>7, <1>9, <1>10 DEF IdentityInv

(* A look-up that fails.                                                   *)
LEMMA ReadFailsKeepsIdentities ==
  ASSUME IdentityInv, NEW r \in Requests, body' = body, MovesOn(r), Writes(r), ReadFails(r)
  PROVE  IdentityInv'
<1>1. rows' = rows /\ pc'[r] = "done" /\ answer'[r] = "error"
  BY ReadFailsIsQuiet DEF IdentityInv, Reply
<1>2. /\ PatchFound(r)' /\ PendingIsNew(r)' /\ ChosenIsDefault(r)' /\ ~Initializing(r)'
  BY <1>1 DEF PatchFound, PendingIsNew, ChosenIsDefault, Initializing
<1> QED
  BY <1>1, <1>2, QuietIdentities

(* The SELECTs, the INSERTs and a rollback of initializeIdentity.          *)
LEMMA InitializationIsQuiet ==
  ASSUME IdentityInv, NEW r \in Requests, body' = body, MovesOn(r), Writes(r), Initializes(r),
         \/ InitializeLookUp(r) \/ InitializeRequested(r) \/ UpsertUser(r) \/ InsertMerchant(r)
         \/ CheckDefault(r) \/ InitializeFails(r)
  PROVE  IdentityInv'
<1>0. /\ DOMAIN pc = Requests /\ DOMAIN mem = Requests /\ DOMAIN answer = Requests
      /\ answer[r] = "none" /\ Initializes(r)' /\ Requests' = Requests
      /\ AskedFor(r)' = AskedFor(r) /\ Wants(r)' = Wants(r)
      /\ \A q \in Requests \ {r} : Pending(q)' = Pending(q)
  BY IdentitiesOfOthers DEF IdentityInv
<1>1. ASSUME rows' = rows, answer'[r] # "ok", pc'[r] \in {"requested", "user", "done"}
      PROVE  IdentityInv'
  <2>1. PendingIsNew(r)' /\ ChosenIsDefault(r)' /\ ~Initializing(r)'
    BY <1>1 DEF PendingIsNew, ChosenIsDefault, Initializing
  <2> QED
    BY <1>1, <2>1, QuietIdentities
<1>2. CASE InitializeLookUp(r) \/ InitializeRequested(r) \/ InitializeFails(r)
  BY <1>0, <1>1, <1>2 DEF InitializeLookUp, InitializeRequested, InitializeFails, Reply, Goto, StayRows
<1>3. CASE UpsertUser(r)
  <2>1. rows' = rows /\ answer'[r] # "ok" /\ pc'[r] = "merchant" /\ Holding(body[r].id) = {}
    BY <1>0, <1>3 DEF UpsertUser, Goto, StayRows
  <2>2. PendingIsNew(r)' /\ ChosenIsDefault(r)'
    BY <2>1 DEF PendingIsNew, ChosenIsDefault
  <2> QED
    BY <2>1, <2>2, QuietIdentities
<1>4. CASE InsertMerchant(r)
  <2> DEFINE m == AskedFor(r)
             new == IF Exists("merchants", m) \/ Defaults(body[r].id) # {} THEN {} ELSE {m}
  <2>1. /\ rows' = rows /\ answer' = answer /\ pc[r] = "merchant" /\ pc'[r] = "default"
        /\ mem'[r].inserted = new
        /\ \A q \in Requests \ {r} : m \notin Pending(q)
    BY <1>0, <1>4 DEF InsertMerchant, AskedFor, Read, StayRows
  <2>2. Pending(r)' = new
    BY <1>0, <2>1 DEF Pending, Initializes
  <2>3. Defaults(body[r].id)' = Defaults(body[r].id)
    BY <2>1 DEF Defaults
  <2>4. PendingIsNew(r)'
    BY <1>0, <2>1, <2>2, <2>3 DEF PendingIsNew, Exists
  <2>5. ChosenIsDefault(r)' /\ Initializing(r)
    BY <2>1 DEF ChosenIsDefault, Initializing
  <2> QED
    BY <1>0, <2>1, <2>4, <2>5, QuietIdentities
<1>5. CASE CheckDefault(r)
  <2> DEFINE found == Defaults(body[r].id) \cup mem[r].inserted
  <2>1. rows' = rows /\ pc[r] = "default"
    BY <1>5 DEF CheckDefault, StayRows
  <2>2. CASE found = {} \/ (Wants(r) /\ found # {body[r].want})
    <3>1. pc'[r] = "done" /\ answer'[r] # "ok"
      BY <1>0, <1>5, <2>2 DEF CheckDefault, Reply
    <3> QED
      BY <1>1, <2>1, <3>1
  <2>3. CASE found # {} /\ (Wants(r) => found = {body[r].want})
    <3> DEFINE chosen == CHOOSE x \in found : TRUE
    <3>1. Read(r, [inserted |-> mem[r].inserted, merchant |-> chosen], "commit")
      BY <1>5, <2>3 DEF CheckDefault
    <3>2. chosen \in found
      BY <2>3, Zenon
    <3>3. Pending(r) = mem[r].inserted
      BY <2>1 DEF Pending, Initializes
    <3> HIDE DEF chosen
    <3>5. found = {chosen}
      <4>1. /\ Pending(r) \subseteq {AskedFor(r)}
            /\ Pending(r) # {} => Defaults(body[r].id) = {}
        BY <2>1 DEF IdentityInv, PendingIsNew
      <4>2. CASE Pending(r) # {}
        BY <3>2, <3>3, <4>1, <4>2
      <4>3. CASE Pending(r) = {}
        <5>1. Defaults(body[r].id) # {} => \E x : Defaults(body[r].id) = {x}
          BY DEF IdentityInv, OneDefault
        <5> QED
          BY <2>3, <3>2, <3>3, <4>3, <5>1
      <4> QED
        BY <4>2, <4>3
    <3>6. /\ answer' = answer /\ pc'[r] = "commit"
          /\ mem'[r].inserted = mem[r].inserted /\ mem'[r].merchant = chosen
      BY <1>0, <3>1 DEF Read
    <3>7. Pending(r)' = Pending(r)
      BY <1>0, <3>3, <3>6 DEF Pending, Initializes
    <3>8. Defaults(body[r].id)' = Defaults(body[r].id)
      BY <2>1 DEF Defaults
    <3>9. PendingIsNew(r)
      BY DEF IdentityInv
    <3>10. PendingIsNew(r)'
      BY <1>0, <2>1, <3>7, <3>8, <3>9 DEF PendingIsNew
    <3>11. ChosenIsDefault(r)'
      BY <1>0, <2>3, <3>3, <3>5, <3>6, <3>7, <3>8 DEF ChosenIsDefault
    <3>12. Initializing(r)
      BY <2>1 DEF Initializing
    <3> QED
      BY <1>0, <2>1, <3>6, <3>10, <3>11, <3>12, QuietIdentities
  <2> QED
    BY <2>2, <2>3
<1> QED
  BY <1>2, <1>3, <1>4, <1>5

(* The COMMIT of initializeIdentity: the rows it adds.                     *)
LEMMA CommitIdentityAdds ==
  ASSUME IdentityInv, NEW r \in Requests, Initializes(r), CommitIdentity(r)
  PROVE  LET i == body[r].id IN
         /\ DOMAIN rows'.users = {i} \cup DOMAIN rows.users
         /\ i \in DOMAIN rows'.profiles /\ rows'.profiles[i].merchant = mem[r].merchant
         /\ \A j \in DOMAIN rows.users :
              j \in DOMAIN rows'.profiles /\ (j # i => rows'.profiles[j] = rows.profiles[j])
         /\ DOMAIN rows'.merchants = Pending(r) \cup DOMAIN rows.merchants
         /\ \A m \in Pending(r) :
              /\ {"owner", "default"} \subseteq DOMAIN rows'.merchants[m]
              /\ rows'.merchants[m].owner = i /\ rows'.merchants[m].default
              /\ "status" \in DOMAIN rows'.merchants[m] /\ rows'.merchants[m].status = "on"
         /\ \A m \in DOMAIN rows.merchants \ Pending(r) :
              rows'.merchants[m] = rows.merchants[m]
<1> DEFINE i == body[r].id
           user == [users |-> [name |-> body[r].name],
                    profiles |-> [name |-> body[r].name, merchant |-> mem[r].merchant]]
           added == [m \in mem[r].inserted |->
                       [owner |-> i, name |-> body[r].name, status |-> "on", default |-> TRUE]]
<1>1. {"users", "profiles", "merchants"} \subseteq Tables
  BY IdentitiesAssumption DEF Tables
<1>2. Pending(r) = mem[r].inserted
  BY DEF CommitIdentity, Pending, Initializes
<1>3. rows'.users = With(rows.users, i, [name |-> body[r].name])
  BY <1>1 DEF CommitIdentity
<1>4. rows'.profiles = With(rows.profiles, i, [name |-> body[r].name, merchant |-> mem[r].merchant])
  BY <1>1 DEF CommitIdentity
<1>5. rows'.merchants = [m \in DOMAIN added \cup DOMAIN rows.merchants |->
                           IF m \in DOMAIN added THEN added[m] ELSE rows.merchants[m]]
  BY <1>1 DEF CommitIdentity
<1>6. DOMAIN added = Pending(r)
  BY <1>2
<1>7. \A m \in Pending(r) : /\ {"owner", "default"} \subseteq DOMAIN added[m]
                            /\ added[m].owner = i /\ added[m].default
                            /\ "status" \in DOMAIN added[m] /\ added[m].status = "on"
  BY <1>2
<1>8. \A j \in DOMAIN rows.users :
        j \in DOMAIN rows'.profiles /\ (j # i => rows'.profiles[j] = rows.profiles[j])
  BY <1>4 DEF With, IdentityInv, HaveProfiles
<1> HIDE DEF added
<1>9. /\ DOMAIN rows'.users = {i} \cup DOMAIN rows.users
      /\ i \in DOMAIN rows'.profiles /\ rows'.profiles[i].merchant = mem[r].merchant
  BY <1>3, <1>4 DEF With
<1>10. DOMAIN rows'.merchants = Pending(r) \cup DOMAIN rows.merchants
  BY <1>5, <1>6
<1>11. \A m \in Pending(r) : rows'.merchants[m] = added[m]
  BY <1>5, <1>6
<1>12. \A m \in DOMAIN rows.merchants \ Pending(r) : rows'.merchants[m] = rows.merchants[m]
  BY <1>5, <1>6
<1>13. \A m \in Pending(r) : /\ {"owner", "default"} \subseteq DOMAIN rows'.merchants[m]
                              /\ rows'.merchants[m].owner = i /\ rows'.merchants[m].default
                              /\ "status" \in DOMAIN rows'.merchants[m]
                              /\ rows'.merchants[m].status = "on"
  BY <1>7, <1>11
<1> QED
  BY <1>8, <1>9, <1>10, <1>12, <1>13

LEMMA CommitIdentityKeeps ==
  ASSUME IdentityInv, NEW r \in Requests, body' = body, MovesOn(r), Writes(r),
         Initializes(r), CommitIdentity(r)
  PROVE  IdentityInv'
<1> DEFINE i == body[r].id
<1>1. /\ Requests' = Requests /\ DOMAIN rows' = Tables
      /\ DOMAIN pc' = Requests /\ DOMAIN mem' = Requests /\ DOMAIN answer' = Requests
      /\ \A q \in Requests : answer'[q] # "none" => pc'[q] = "done"
      /\ \A q \in Requests \ {r} : /\ pc'[q] = pc[q] /\ mem'[q] = mem[q]
                                   /\ answer'[q] = answer[q]
                                   /\ Initializing(q)' = Initializing(q)
                                   /\ Pending(q)' = Pending(q)
      /\ \A q \in Requests : /\ Initializes(q)' = Initializes(q) /\ Wants(q)' = Wants(q)
                             /\ AskedFor(q)' = AskedFor(q)
      /\ \A q \in Requests : body[q].table \in Tables /\ There(q) => There(q)'
      /\ {"users", "profiles", "merchants"} \subseteq Tables
  BY IdentitiesOfOthers
<1>2. pc[r] = "commit" /\ pc'[r] = "done" /\ Initializing(r)
  BY DEF CommitIdentity, Reply, IdentityInv, Initializing
<1>3. /\ DOMAIN rows'.users = {i} \cup DOMAIN rows.users
      /\ i \in DOMAIN rows'.profiles /\ rows'.profiles[i].merchant = mem[r].merchant
      /\ \A j \in DOMAIN rows.users :
           j \in DOMAIN rows'.profiles /\ (j # i => rows'.profiles[j] = rows.profiles[j])
      /\ DOMAIN rows'.merchants = Pending(r) \cup DOMAIN rows.merchants
      /\ \A m \in Pending(r) : /\ {"owner", "default"} \subseteq DOMAIN rows'.merchants[m]
                               /\ rows'.merchants[m].owner = i /\ rows'.merchants[m].default
      /\ \A m \in DOMAIN rows.merchants \ Pending(r) : rows'.merchants[m] = rows.merchants[m]
  BY CommitIdentityAdds
<1>4. /\ Pending(r) \subseteq {AskedFor(r)} /\ Pending(r) \cap DOMAIN rows.merchants = {}
      /\ Pending(r) # {} => Defaults(i) = {}
      /\ \A q \in Requests \ {r} : Pending(r) \cap Pending(q) = {}
  BY <1>2 DEF IdentityInv, PendingIsNew
<1>5. /\ Defaults(i) \cup Pending(r) = {mem[r].merchant}
      /\ Wants(r) => mem[r].merchant = body[r].want
  BY <1>2 DEF IdentityInv, ChosenIsDefault
<1>6. Defaults(i)' = {mem[r].merchant}
  <2>1. Defaults(i)' = Defaults(i) \cup Pending(r)
    BY <1>3, <1>4 DEF Defaults
  <2> QED
    BY <1>5, <2>1
<1>7. \A j : j # i => Defaults(j)' = Defaults(j)
  BY <1>3, <1>4 DEF Defaults
<1>8. MerchantRows'
  BY <1>3 DEF IdentityInv, MerchantRows
<1>9. HaveProfiles'
  BY <1>3 DEF IdentityInv, HaveProfiles
<1>10. OneDefault'
  <2> SUFFICES ASSUME NEW j
               PROVE  Defaults(j)' = IF j \in DOMAIN rows'.users THEN {rows'.profiles[j].merchant}
                                     ELSE {}
    BY DEF OneDefault
  <2>1. CASE j = i
    BY <1>3, <1>6, <2>1
  <2>2. CASE j # i
    BY <1>3, <1>7, <2>2 DEF IdentityInv, OneDefault
  <2> QED
    BY <2>1, <2>2
<1>11. UnusedMerchants'
  <2> SUFFICES ASSUME NEW q \in Requests \ {r}, pc[q] # "done"
               PROVE  NewID[q] \notin Pending(r) \cup DOMAIN rows.merchants
    BY <1>1, <1>2, <1>3 DEF UnusedMerchants
  <2>1. NewID[q] # AskedFor(r)
    BY NewIDAssumption DEF IdentityInv, Requests, AskedFor, Initializes, Is
  <2> QED
    BY <1>4, <2>1 DEF IdentityInv, UnusedMerchants
<1>12. \A q \in Requests \ {r} : Initializing(q) => body[q].id # i
  BY <1>2 DEF IdentityInv, OneInitializer
<1>13. OneInitializer'
  <2>1. ~Initializing(r)'
    BY <1>2 DEF Initializing
  <2> QED
    BY <1>1, <2>1 DEF IdentityInv, OneInitializer
<1>14. \A q \in Requests : PendingIsNew(q)'
  <2> SUFFICES ASSUME NEW q \in Requests \ {r}, Initializes(q), pc[q] \in {"default", "commit"}
               PROVE  PendingIsNew(q)'
    BY <1>1, <1>2 DEF PendingIsNew
  <2>1. PendingIsNew(q)
    BY DEF IdentityInv
  <2>2. Defaults(body[q].id)' = Defaults(body[q].id)
    BY <1>7, <1>12 DEF Initializing
  <2>3. Pending(q) \cap DOMAIN rows'.merchants = {}
    BY <1>3, <1>4, <2>1 DEF PendingIsNew
  <2>4. Pending(r)' = {}
    BY <1>2 DEF Pending
  <2> QED
    BY <1>1, <2>1, <2>2, <2>3, <2>4 DEF PendingIsNew
<1>15. \A q \in Requests : ChosenIsDefault(q)'
  <2> SUFFICES ASSUME NEW q \in Requests \ {r}, Initializes(q), pc[q] = "commit"
               PROVE  ChosenIsDefault(q)'
    BY <1>1, <1>2 DEF ChosenIsDefault
  <2>1. ChosenIsDefault(q)
    BY DEF IdentityInv
  <2>2. Defaults(body[q].id)' = Defaults(body[q].id)
    BY <1>7, <1>12 DEF Initializing
  <2> QED
    BY <1>1, <2>1, <2>2 DEF ChosenIsDefault
<1>16. \A q \in Requests : Initialized(q)'
  <2>1. Initialized(r)'
    BY <1>1, <1>3, <1>5, <1>6 DEF Initialized
  <2>2. ASSUME NEW q \in Requests \ {r} PROVE Initialized(q)'
    <3>1. Initialized(q)
      BY DEF IdentityInv
    <3>2. ASSUME Defaults(body[q].id) = {body[q].want} PROVE Defaults(body[q].id)' = {body[q].want}
      <4>1. CASE body[q].id = i
        BY <1>4, <1>5, <1>6, <3>2, <4>1
      <4>2. CASE body[q].id # i
        BY <1>7, <3>2, <4>2
      <4> QED
        BY <4>1, <4>2
    <3> QED
      BY <1>1, <1>3, <3>1, <3>2 DEF Initialized
  <2> QED
    BY <2>1, <2>2
<1>17. \A q \in Requests : PatchFound(q)'
  BY <1>1, <1>2 DEF IdentityInv, PatchFound
<1> QED
  BY <1>1, <1>8, <1>9, <1>10, <1>11, <1>13, <1>14, <1>15, <1>16, <1>17 DEF IdentityInv

LEMMA IdentitiesAreKept == Spec => []IdentityInv
<1>1. Init => IdentityInv
  <2> SUFFICES ASSUME Init PROVE IdentityInv
    OBVIOUS
  <2>1. /\ body \in Scenarios /\ rows = Seed
        /\ DOMAIN pc = Requests /\ DOMAIN mem = Requests /\ DOMAIN answer = Requests
        /\ \A r \in Requests : pc[r] = "sent" /\ answer[r] = "none"
    BY DEF Init, RowsInit
  <2>2. MerchantRows /\ HaveProfiles
    BY <2>1, IdentitiesAssumption DEF MerchantRows, HaveProfiles
  <2>3. UnusedMerchants
    BY <2>1, NewIDAssumption DEF UnusedMerchants, Requests
  <2>4. OneDefault
    <3> SUFFICES ASSUME NEW i
                 PROVE  Defaults(i) = IF i \in DOMAIN rows.users THEN {rows.profiles[i].merchant}
                                      ELSE {}
      BY DEF OneDefault
    <3>1. Defaults(i) = {m \in DOMAIN Seed.merchants : Seed.merchants[m].owner = i
                                                       /\ Seed.merchants[m].default}
      BY <2>1 DEF Defaults
    <3>2. CASE i \in DOMAIN Seed.users
      BY <2>1, <3>1, <3>2, IdentitiesAssumption
    <3>3. CASE i \notin DOMAIN Seed.users
      BY <2>1, <3>1, <3>3, IdentitiesAssumption
    <3> QED
      BY <3>2, <3>3
  <2>5. OneInitializer
    BY <2>1 DEF OneInitializer, Initializing
  <2>6. \A r \in Requests : PendingIsNew(r) /\ ChosenIsDefault(r) /\ Initialized(r) /\ PatchFound(r)
    BY <2>1 DEF PendingIsNew, ChosenIsDefault, Initialized, PatchFound
  <2> QED
    BY <2>1, <2>2, <2>3, <2>4, <2>5, <2>6 DEF IdentityInv, Tables
<1>2. ASSUME IdentityInv, NEW r \in Requests, Step(r) PROVE IdentityInv'
  <2>1. body' = body /\ MovesOn(r) /\ Writes(r)
    BY <1>2, KeyMoves, DirectoryMoves, KeyWrites, DirectoryWrites, ReadFailsIsQuiet
    DEF Step, Writes
  <2>2. CASE KeyNext(r)
    BY <1>2, <2>1, <2>2, KeyHandlers, MerchantsAreKept
  <2>3. CASE DirectoryStep(r)
    <3>1. CASE body[r].table \in {"products", "product_listings", "subscriptions", "keys",
                                  "principals"}
      <4>1. body[r].op # "initialize"
        BY <2>3, <3>1, DirectoryHandlers
      <4> QED
        BY <1>2, <2>1, <3>1, <4>1, MerchantsAreKept
    <3>2. CASE body[r].table = "merchants"
      <4>1. body[r].op # "initialize" /\ (Merchants(r) \/ MerchantResource(r))
        BY <2>3, <3>2, DirectoryHandlers
      <4> QED
        BY <1>2, <2>1, <3>2, <4>1, MerchantsAreKept
    <3>3. CASE body[r].table = "users"
      <4>1. InitializeIdentity(r) /\ Initializes(r)
        BY <2>3, <3>3, DirectoryHandlers DEF Initializes, Is
      <4> QED
        BY <1>2, <2>1, <4>1, InitializationIsQuiet, CommitIdentityKeeps DEF InitializeIdentity
    <3> QED
      BY <2>3, <3>1, <3>2, <3>3, DirectoryHandlers
  <2>4. CASE ReadFails(r)
    BY <1>2, <2>1, <2>4, ReadFailsKeepsIdentities
  <2> QED
    BY <1>2, <2>2, <2>3, <2>4 DEF Step
<1>3. IdentityInv /\ UNCHANGED vars => IdentityInv'
  <2> SUFFICES ASSUME IdentityInv, UNCHANGED vars PROVE IdentityInv'
    OBVIOUS
  <2>1. body' = body /\ pc' = pc /\ mem' = mem /\ answer' = answer /\ rows' = rows
    BY DEF vars, rowVars
  <2>2. /\ \A i : Defaults(i)' = Defaults(i)
        /\ \A q \in Requests : /\ Initializes(q)' = Initializes(q) /\ Wants(q)' = Wants(q)
                               /\ Initializing(q)' = Initializing(q)
                               /\ Pending(q)' = Pending(q) /\ AskedFor(q)' = AskedFor(q)
    BY <2>1 DEF Defaults, Initializes, Wants, Initializing, Pending, AskedFor, Is
  <2>3. Requests' = Requests /\ \A q \in Requests : There(q)' = There(q)
    BY <2>1 DEF Requests, There, Exists
  <2>4. MerchantRows' /\ UnusedMerchants' /\ OneDefault' /\ HaveProfiles' /\ OneInitializer'
    BY <2>1, <2>2, <2>3 DEF IdentityInv, MerchantRows, UnusedMerchants, OneDefault, HaveProfiles,
                       OneInitializer
  <2>5. \A q \in Requests : PendingIsNew(q)' /\ ChosenIsDefault(q)' /\ Initialized(q)' /\ PatchFound(q)'
    BY <2>1, <2>2, <2>3 DEF IdentityInv, PendingIsNew, ChosenIsDefault, Initialized, PatchFound
  <2> QED
    BY <2>1, <2>3, <2>4, <2>5 DEF IdentityInv
<1>4. IdentityInv /\ [Next]_vars => IdentityInv'
  BY <1>2, <1>3 DEF Next, Finished
<1> QED
  BY <1>1, <1>4, PTL DEF Spec

(* At most one default merchant is made for a user, whoever asks at once,  *)
(* and a request answered "ok" has got the one it asked for.               *)
THEOREM IdentitiesStaySettled == Spec => []IdentitiesSettle
<1>1. IdentityInv => IdentitiesSettle
  BY DEF IdentityInv, OneDefault, Initialized, IdentitiesSettle, Exists
<1> QED
  BY <1>1, IdentitiesAreKept, PTL

-----------------------------------------------------------------------------
(* Updates add up, and the copies of a row agree.                          *)

\* The requests that write back what they have read.
WritesBack(r) == /\ body[r].op \in {"patch", "delete", "ownerPatch", "rotate", "disable"}
                 /\ body[r].table # "subscriptions"

\* What a request that is about to write has read.
HasRead(r) ==
  /\ pc[r] \in {"record", "write", "provider", "update"} => There(r)
  /\ WritesBack(r) /\ pc[r] \in {"record", "write"} =>
       /\ body[r].op # "disable" => body[r].table \in DOMAIN mem[r]
       /\ body[r].table = "sync" /\ pc[r] = "write" => "bifrost" \in DOMAIN mem[r]

ProviderCopies ==
  /\ DOMAIN rows.sync_providers = DOMAIN rows.providers
  /\ \A p \in DOMAIN rows.providers : p \in overlapped \/ rows.sync_providers[p] = rows.providers[p]

KeyCopies ==
  /\ DOMAIN rows.bifrost = DOMAIN rows.sync /\ DOMAIN rows.billing = DOMAIN rows.sync
  /\ \A k \in DOMAIN rows.sync :
       /\ KeyColumns \subseteq DOMAIN rows.sync[k]
       /\ k \in overlapped \/ /\ rows.bifrost[k] = BifrostRow(rows.sync[k])
                              /\ rows.billing[k] = BillingRow(rows.sync[k])

CopyInv ==
  /\ body \in Scenarios /\ DOMAIN pc = Requests /\ DOMAIN mem = Requests
  /\ DOMAIN rows = Tables /\ DOMAIN ideal = Tables
  /\ \A t \in Tables : DOMAIN rows[t] = DOMAIN ideal[t]
  /\ SerialUnlessOverlapped /\ ProviderCopies /\ KeyCopies
  /\ \A r \in Requests : HasRead(r)

\* The rows that one statement stores in the two tables of providers and the
\* three tables of keys are copies of each other.
ProvidersWhole(new) ==
  "providers" \in DOMAIN new \/ "sync_providers" \in DOMAIN new =>
    {"providers", "sync_providers"} \subseteq DOMAIN new /\ new.sync_providers = new.providers

KeysWhole(new) ==
  KeyTables \cap DOMAIN new # {} =>
    /\ KeyTables \subseteq DOMAIN new /\ KeyColumns \subseteq DOMAIN new.sync
    /\ new.bifrost = BifrostRow(new.sync) /\ new.billing = BillingRow(new.sync)

\* An update of r counts as one step, unless it is written from a stale copy.
AsOneStep(r, new) ==
  /\ \A t \in Tables \cap DOMAIN new :
       /\ body[r].id \in DOMAIN rows[t]
       /\ \/ IsStale(r) \/ body[r].id \in overlapped
          \/ new[t] = Overlay(rows[t][body[r].id], body[r].set)
  /\ ProvidersWhole(new)
  /\ KeyTables \cap DOMAIN new # {} =>
       /\ {"bifrost", "sync"} \subseteq DOMAIN new /\ KeyColumns \subseteq DOMAIN new.sync
       /\ \/ IsStale(r) \/ body[r].id \in overlapped
          \/ /\ new.bifrost = BifrostRow(new.sync)
             /\ BillingRow(new.sync) = IF "billing" \in DOMAIN new THEN new.billing
                                       ELSE rows.billing[body[r].id]

\* What a step of r does to the rows.
Effect(r) ==
  \/ UNCHANGED <<rows, historyVars>> /\ failed \subseteq failed'
  \/ /\ \E id, new : AddAt(id, new) /\ ProvidersWhole(new) /\ KeysWhole(new)
     /\ failed' = failed
  \/ \E new : Update(r, new) /\ AsOneStep(r, new)
  \/ body[r].table = "users" /\ CommitIdentity(r)

TablesThere == {"providers", "sync_providers"} \cup KeyTables \subseteq Tables

LEMMA CopiedTables == TablesThere
BY CatalogAssumption, PricesAssumption DEF TablesThere, KeyTables, Tables

(* A new row is what it should be, in each of its tables.                  *)
LEMMA AddsKeepCopies ==
  ASSUME CopyInv, NEW id, NEW new, AddAt(id, new), ProvidersWhole(new), KeysWhole(new)
  PROVE  /\ DOMAIN ideal' = Tables /\ \A t \in Tables : DOMAIN rows'[t] = DOMAIN ideal'[t]
         /\ SerialUnlessOverlapped' /\ ProviderCopies' /\ KeyCopies'
<1>1. /\ DOMAIN ideal' = Tables /\ overlapped' = overlapped
      /\ \A t \in Tables \cap DOMAIN new : /\ rows'[t] = With(rows[t], id, new[t])
                                           /\ ideal'[t] = With(ideal[t], id, new[t])
      /\ \A t \in Tables \ DOMAIN new : rows'[t] = rows[t] /\ ideal'[t] = ideal[t]
  BY DEF AddAt, StoreAt
<1>2. \A t \in Tables : DOMAIN rows[t] = DOMAIN ideal[t]
  BY DEF CopyInv
<1>3. \A t \in Tables : DOMAIN rows'[t] = DOMAIN ideal'[t]
  <2> SUFFICES ASSUME NEW t \in Tables PROVE DOMAIN rows'[t] = DOMAIN ideal'[t]
    OBVIOUS
  <2>1. CASE t \in DOMAIN new
    <3>1. rows'[t] = With(rows[t], id, new[t]) /\ ideal'[t] = With(ideal[t], id, new[t])
      BY <1>1, <2>1
    <3> QED
      BY <1>2, <3>1 DEF With
  <2>2. CASE t \notin DOMAIN new
    BY <1>1, <1>2, <2>2
  <2> QED
    BY <2>1, <2>2
<1>4. SerialUnlessOverlapped'
  <2> SUFFICES ASSUME NEW t \in Tables, NEW i \in DOMAIN rows'[t], i \notin overlapped
               PROVE  rows'[t][i] = ideal'[t][i]
    BY <1>1 DEF SerialUnlessOverlapped
  <2>1. CASE t \in DOMAIN new
    <3>1. rows'[t] = With(rows[t], id, new[t]) /\ ideal'[t] = With(ideal[t], id, new[t])
      BY <1>1, <2>1
    <3>2. i # id => i \in DOMAIN rows[t] /\ i \in DOMAIN ideal[t]
      BY <1>2, <3>1 DEF With
    <3>3. i # id => rows[t][i] = ideal[t][i]
      BY <3>2 DEF CopyInv, SerialUnlessOverlapped
    <3> QED
      BY <3>1, <3>2, <3>3 DEF With
  <2>2. CASE t \notin DOMAIN new
    BY <1>1, <2>2 DEF CopyInv, SerialUnlessOverlapped
  <2> QED
    BY <2>1, <2>2
<1>5. ProviderCopies'
  <2>1. CASE "providers" \in DOMAIN new
    <3>1. /\ rows'.providers = With(rows.providers, id, new.providers)
          /\ rows'.sync_providers = With(rows.sync_providers, id, new.providers)
      BY <1>1, <2>1, CopiedTables DEF TablesThere, ProvidersWhole
    <3> QED
      BY <1>1, <3>1 DEF CopyInv, ProviderCopies, With
  <2>2. CASE "providers" \notin DOMAIN new
    BY <1>1, <2>2, CopiedTables DEF TablesThere, CopyInv, ProviderCopies, ProvidersWhole
  <2> QED
    BY <2>1, <2>2
<1>6. KeyCopies'
  <2>1. CASE KeyTables \cap DOMAIN new # {}
    <3>1. /\ rows'.sync = With(rows.sync, id, new.sync)
          /\ rows'.bifrost = With(rows.bifrost, id, new.bifrost)
          /\ rows'.billing = With(rows.billing, id, new.billing)
      BY <1>1, <2>1, CopiedTables DEF TablesThere, KeysWhole, KeyTables
    <3> SUFFICES ASSUME NEW k \in DOMAIN rows'.sync
                 PROVE  /\ KeyColumns \subseteq DOMAIN rows'.sync[k]
                        /\ k \in overlapped \/ /\ rows'.bifrost[k] = BifrostRow(rows'.sync[k])
                                               /\ rows'.billing[k] = BillingRow(rows'.sync[k])
      BY <1>1, <3>1 DEF CopyInv, KeyCopies, With
    <3>2. CASE k = id
      BY <2>1, <3>1, <3>2 DEF KeysWhole, With
    <3>3. CASE k # id
      BY <3>1, <3>3 DEF CopyInv, KeyCopies, With
    <3> QED
      BY <3>2, <3>3
  <2>2. CASE KeyTables \cap DOMAIN new = {}
    BY <1>1, <2>2, CopiedTables DEF TablesThere, KeyTables, CopyInv, KeyCopies
  <2> QED
    BY <2>1, <2>2
<1> QED
  BY <1>1, <1>3, <1>4, <1>5, <1>6

(* So is an updated one, unless it was written from a stale copy.          *)
LEMMA UpdatesKeepCopies ==
  ASSUME CopyInv, NEW r \in Requests, NEW new, Update(r, new), AsOneStep(r, new)
  PROVE  /\ DOMAIN ideal' = Tables /\ \A t \in Tables : DOMAIN rows'[t] = DOMAIN ideal'[t]
         /\ SerialUnlessOverlapped' /\ ProviderCopies' /\ KeyCopies'
<1> DEFINE id == body[r].id
<1>1. /\ DOMAIN ideal' = Tables
      /\ \A t \in Tables \cap DOMAIN new :
           /\ rows'[t] = With(rows[t], id, new[t])
           /\ ideal'[t] = With(ideal[t], id, Overlay(ideal[t][id], body[r].set))
      /\ \A t \in Tables \ DOMAIN new : rows'[t] = rows[t] /\ ideal'[t] = ideal[t]
  BY DEF Update, StoreAt
<1>2. overlapped \subseteq overlapped' /\ (IsStale(r) => id \in overlapped')
  BY DEF Update
<1>3. \A t \in Tables : DOMAIN rows[t] = DOMAIN ideal[t]
  BY DEF CopyInv
<1>4. \A t \in Tables : DOMAIN rows'[t] = DOMAIN ideal'[t]
  <2> SUFFICES ASSUME NEW t \in Tables PROVE DOMAIN rows'[t] = DOMAIN ideal'[t]
    OBVIOUS
  <2> DEFINE all == Overlay(ideal[t][id], body[r].set)
  <2>1. CASE t \in DOMAIN new
    <3>1. rows'[t] = With(rows[t], id, new[t]) /\ ideal'[t] = With(ideal[t], id, all)
      BY <1>1, <2>1
    <3> HIDE DEF all
    <3> QED
      BY <1>3, <3>1 DEF With
  <2>2. CASE t \notin DOMAIN new
    BY <1>1, <1>3, <2>2
  <2> QED
    BY <2>1, <2>2
<1>5. SerialUnlessOverlapped'
  <2> SUFFICES ASSUME NEW t \in Tables, NEW i \in DOMAIN rows'[t], i \notin overlapped'
               PROVE  rows'[t][i] = ideal'[t][i]
    BY DEF SerialUnlessOverlapped
  <2> DEFINE all == Overlay(ideal[t][id], body[r].set)
  <2>1. CASE t \in DOMAIN new
    <3>1. rows'[t] = With(rows[t], id, new[t]) /\ ideal'[t] = With(ideal[t], id, all)
      BY <1>1, <2>1
    <3>2. id \in DOMAIN rows[t] /\ (i = id => new[t] = Overlay(rows[t][id], body[r].set))
      BY <1>2, <2>1 DEF AsOneStep
    <3>3. i = id => rows[t][id] = ideal[t][id]
      BY <1>2, <3>2 DEF CopyInv, SerialUnlessOverlapped
    <3>4. i = id => new[t] = all
      BY <3>2, <3>3
    <3> HIDE DEF all
    <3>5. i # id => i \in DOMAIN rows[t] /\ i \in DOMAIN ideal[t]
      BY <1>3, <3>1 DEF With
    <3>6. i # id => rows[t][i] = ideal[t][i]
      BY <1>2, <3>5 DEF CopyInv, SerialUnlessOverlapped
    <3> QED
      BY <3>1, <3>4, <3>5, <3>6 DEF With
  <2>2. CASE t \notin DOMAIN new
    BY <1>1, <1>2, <2>2 DEF CopyInv, SerialUnlessOverlapped
  <2> QED
    BY <2>1, <2>2
<1>6. ProviderCopies'
  <2>1. CASE "providers" \in DOMAIN new
    <3>1. /\ rows'.providers = With(rows.providers, id, new.providers)
          /\ rows'.sync_providers = With(rows.sync_providers, id, new.providers)
          /\ id \in DOMAIN rows.providers
      BY <1>1, <2>1, CopiedTables DEF TablesThere, ProvidersWhole, AsOneStep
    <3> QED
      BY <1>2, <3>1 DEF CopyInv, ProviderCopies, With
  <2>2. CASE "providers" \notin DOMAIN new
    BY <1>1, <1>2, <2>2, CopiedTables
    DEF TablesThere, CopyInv, ProviderCopies, ProvidersWhole, AsOneStep
  <2> QED
    BY <2>1, <2>2
<1>7. KeyCopies'
  <2>1. CASE KeyTables \cap DOMAIN new # {}
    <3>0. {"bifrost", "billing", "sync"} \subseteq Tables
      BY CopiedTables DEF TablesThere, KeyTables
    <3>1. /\ rows'.sync = With(rows.sync, id, new.sync)
          /\ rows'.bifrost = With(rows.bifrost, id, new.bifrost)
          /\ id \in DOMAIN rows.sync
      BY <1>1, <2>1, <3>0 DEF AsOneStep
    <3>2. rows'.billing = IF "billing" \in DOMAIN new THEN With(rows.billing, id, new.billing)
                          ELSE rows.billing
      BY <1>1, <3>0
    <3>3. /\ DOMAIN rows'.sync = DOMAIN rows.sync /\ DOMAIN rows'.bifrost = DOMAIN rows.sync
          /\ DOMAIN rows'.billing = DOMAIN rows.sync
      <4>1. DOMAIN rows.bifrost = DOMAIN rows.sync /\ DOMAIN rows.billing = DOMAIN rows.sync
        BY <1>2 DEF CopyInv, KeyCopies
      <4>2. /\ DOMAIN rows'.sync = DOMAIN rows.sync \cup {id}
            /\ DOMAIN rows'.bifrost = DOMAIN rows.bifrost \cup {id}
        BY <3>1 DEF With
      <4>3. \/ DOMAIN rows'.billing = DOMAIN rows.billing \cup {id}
            \/ rows'.billing = rows.billing
        BY <3>2 DEF With
      <4> QED
        BY <3>1, <4>1, <4>2, <4>3
    <3> SUFFICES ASSUME NEW k \in DOMAIN rows.sync
                 PROVE  /\ KeyColumns \subseteq DOMAIN rows'.sync[k]
                        /\ k \in overlapped' \/ /\ rows'.bifrost[k] = BifrostRow(rows'.sync[k])
                                                /\ rows'.billing[k] = BillingRow(rows'.sync[k])
      BY <3>3 DEF KeyCopies
    <3>4. CASE k = id
      <4>1. rows'.sync[k] = new.sync /\ rows'.bifrost[k] = new.bifrost
        BY <3>1, <3>4 DEF With
      <4>2. rows'.billing[k] = IF "billing" \in DOMAIN new THEN new.billing ELSE rows.billing[id]
        BY <3>2, <3>4 DEF With
      <4> QED
        BY <1>2, <2>1, <3>4, <4>1, <4>2 DEF AsOneStep
    <3>5. CASE k # id
      <4>1. /\ rows'.sync[k] = rows.sync[k] /\ rows'.bifrost[k] = rows.bifrost[k]
            /\ rows'.billing[k] = rows.billing[k]
        BY <3>1, <3>2, <3>5 DEF With, CopyInv, KeyCopies
      <4> QED
        BY <1>2, <4>1 DEF CopyInv, KeyCopies
    <3> QED
      BY <3>4, <3>5
  <2>2. CASE KeyTables \cap DOMAIN new = {}
    BY <1>1, <1>2, <2>2, CopiedTables DEF TablesThere, KeyTables, CopyInv, KeyCopies
  <2> QED
    BY <2>1, <2>2
<1> QED
  BY <1>1, <1>4, <1>5, <1>6, <1>7

(* The COMMIT of initializeIdentity adds the same to what should be there. *)
LEMMA CommitKeepsCopies ==
  ASSUME CopyInv, NEW r \in Requests, CommitIdentity(r)
  PROVE  /\ DOMAIN ideal' = Tables /\ \A t \in Tables : DOMAIN rows'[t] = DOMAIN ideal'[t]
         /\ SerialUnlessOverlapped' /\ ProviderCopies' /\ KeyCopies'
<1> DEFINE i == body[r].id
           user == [users |-> [name |-> body[r].name],
                    profiles |-> [name |-> body[r].name, merchant |-> mem[r].merchant]]
           added == [m \in mem[r].inserted |->
                       [owner |-> i, name |-> body[r].name, status |-> "on", default |-> TRUE]]
           Add(f, t) == IF t \in DOMAIN user THEN With(f, i, user[t])
                        ELSE IF t = "merchants" THEN [m \in DOMAIN added \cup DOMAIN f |->
                                                 IF m \in DOMAIN added THEN added[m] ELSE f[m]]
                        ELSE f
<1>1. /\ DOMAIN ideal' = Tables /\ overlapped' = overlapped
      /\ \A t \in Tables : rows'[t] = Add(rows[t], t) /\ ideal'[t] = Add(ideal[t], t)
  BY DEF CommitIdentity
<1>2. \A t \in Tables \ {"users", "profiles", "merchants"} : rows'[t] = rows[t]
  BY <1>1
<1> HIDE DEF user, added
<1>3. \A t \in Tables : /\ DOMAIN rows'[t] = DOMAIN ideal'[t]
                        /\ \A id \in DOMAIN rows'[t] : id \in overlapped \/ rows'[t][id] = ideal'[t][id]
  <2> SUFFICES ASSUME NEW t \in Tables
               PROVE  /\ DOMAIN rows'[t] = DOMAIN ideal'[t]
                      /\ \A id \in DOMAIN rows'[t] :
                           id \in overlapped \/ rows'[t][id] = ideal'[t][id]
    OBVIOUS
  <2>0. /\ DOMAIN rows[t] = DOMAIN ideal[t]
        /\ \A id \in DOMAIN rows[t] : id \in overlapped \/ rows[t][id] = ideal[t][id]
    BY DEF CopyInv, SerialUnlessOverlapped
  <2>1. CASE t \in DOMAIN user
    <3>1. rows'[t] = With(rows[t], i, user[t]) /\ ideal'[t] = With(ideal[t], i, user[t])
      BY <1>1, <2>1
    <3> QED
      BY <2>0, <3>1 DEF With
  <2>2. CASE t \notin DOMAIN user /\ t = "merchants"
    <3> DEFINE Both(f) == [m \in DOMAIN added \cup DOMAIN f |->
                             IF m \in DOMAIN added THEN added[m] ELSE f[m]]
    <3>1. rows'[t] = Both(rows[t]) /\ ideal'[t] = Both(ideal[t])
      BY <1>1, <2>2
    <3> QED
      BY <2>0, <3>1
  <2>3. CASE t \notin DOMAIN user /\ t # "merchants"
    BY <1>1, <2>0, <2>3
  <2> QED
    BY <2>1, <2>2, <2>3
<1>4. SerialUnlessOverlapped'
  BY <1>1, <1>3 DEF SerialUnlessOverlapped
<1>5. ProviderCopies' /\ KeyCopies'
  BY <1>1, <1>2, CopiedTables DEF TablesThere, KeyTables, CopyInv, ProviderCopies, KeyCopies
<1> QED
  BY <1>1, <1>3, <1>4, <1>5

(* What the statements of a POST do to the rows.                           *)
LEMMA PostEffects ==
  ASSUME CopyInv, NEW r \in Requests
  PROVE  /\ \A next : LookUp(r, next) => Effect(r) /\ pc'[r] \in {next, "done"}
         /\ \A there : CheckParent(r, there) => Effect(r) /\ pc'[r] \in {"insert", "done"}
         /\ InsertFails(r) \/ LookAgain(r) \/ LookUpFails(r) =>
              Effect(r) /\ pc'[r] \in {"again", "done"}
         /\ \A new, taken : Insert(r, new, taken) /\ ProvidersWhole(new) /\ KeysWhole(new) =>
              Effect(r) /\ pc'[r] \in {"again", "done"}
<1>0. r \in DOMAIN pc
  BY DEF CopyInv
<1>1. ASSUME NEW next, LookUp(r, next) PROVE Effect(r) /\ pc'[r] \in {next, "done"}
  BY <1>0, <1>1 DEF LookUp, Goto, Reply, StayRows, historyVars, Effect
<1>2. ASSUME NEW there, CheckParent(r, there) PROVE Effect(r) /\ pc'[r] \in {"insert", "done"}
  BY <1>0, <1>2 DEF CheckParent, Goto, Reply, StayRows, historyVars, Effect
<1>3. ASSUME InsertFails(r) \/ LookAgain(r) \/ LookUpFails(r)
      PROVE  Effect(r) /\ pc'[r] \in {"again", "done"}
  BY <1>0, <1>3 DEF InsertFails, LookAgain, LookUpFails, Goto, Reply, StayRows, historyVars, Effect
<1>4. ASSUME NEW new, NEW taken, Insert(r, new, taken), ProvidersWhole(new), KeysWhole(new)
      PROVE  Effect(r) /\ pc'[r] \in {"again", "done"}
  <2>1. CASE There(r) \/ taken
    BY <1>0, <1>4, <2>1 DEF Insert, Goto, historyVars, Effect
  <2>2. CASE ~(There(r) \/ taken)
    <3>1. AddAt(body[r].id, new) /\ Reply(r, "created") /\ failed' = failed
      BY <1>4, <2>2 DEF Insert
    <3> QED
      BY <1>0, <1>4, <3>1, Zenon DEF Effect, Reply
  <2> QED
    BY <2>1, <2>2
<1> QED
  BY <1>1, <1>2, <1>3, <1>4

(* What a copy that is not stale and the body make of a row.               *)
LEMMA ChangedIsOverlay ==
  ASSUME NEW r, NEW columns, DOMAIN body[r].set \subseteq columns, ~IsStale(r),
         body[r].table \in DOMAIN mem[r]
  PROVE  Changed(r, Row(r), columns) = Overlay(Row(r), body[r].set)
<1>1. mem[r][body[r].table] = Row(r)
  BY DEF IsStale, Row
<1> DEFINE row == Row(r)
<1> HIDE DEF row
<1>2. \A f \in DOMAIN row : (IF f \notin columns THEN row[f]
                            ELSE IF f \in DOMAIN body[r].set THEN body[r].set[f] ELSE row[f])
                         = (IF f \in DOMAIN body[r].set THEN body[r].set[f] ELSE row[f])
  OBVIOUS
<1> QED
  BY <1>1, <1>2 DEF row, Changed, Overlay

(* What the statements of a PATCH and a DELETE do.                         *)
LEMMA PatchEffects ==
  ASSUME CopyInv, NEW r \in Requests, body' = body
  PROVE  /\ WriteFails(r) => Effect(r) /\ pc'[r] = "done"
         /\ \A next : ReadRow(r, next) =>
              /\ Effect(r)
              /\ \/ pc'[r] = "done"
                 \/ pc'[r] = next /\ There(r)' /\ body[r].table \in DOMAIN mem'[r]
         /\ \A columns : /\ WriteRow(r, columns) /\ WritesBack(r) /\ body[r].op # "disable"
                         /\ DOMAIN body[r].set \subseteq columns
                         /\ body[r].table \notin {"providers", "sync_providers"} \cup KeyTables
                         => Effect(r) /\ pc'[r] = "done"
<1>0. r \in DOMAIN pc /\ r \in DOMAIN mem
  BY DEF CopyInv
<1>1. WriteFails(r) => Effect(r) /\ pc'[r] = "done"
  BY <1>0 DEF WriteFails, Reply, StayRows, historyVars, Effect
<1>2. ASSUME NEW next, ReadRow(r, next)
      PROVE  /\ Effect(r)
             /\ \/ pc'[r] = "done"
                \/ pc'[r] = next /\ There(r)' /\ body[r].table \in DOMAIN mem'[r]
  <2>1. StayRows
    BY <1>2 DEF ReadRow, StayRows, historyVars
  <2>2. \/ \E how : Reply(r, how)
        \/ There(r) /\ Read(r, Only(body[r].table, Row(r)), next)
    BY <1>2, Zenon DEF ReadRow
  <2>3. CASE \E how : Reply(r, how)
    BY <1>0, <2>1, <2>3 DEF Reply, StayRows, historyVars, Effect
  <2>4. CASE There(r) /\ Read(r, Only(body[r].table, Row(r)), next)
    BY <1>0, <2>1, <2>4 DEF Read, Only, StayRows, historyVars, Effect, There, Exists
  <2> QED
    BY <2>2, <2>3, <2>4
<1>3. ASSUME NEW columns, WriteRow(r, columns), WritesBack(r), body[r].op # "disable",
             DOMAIN body[r].set \subseteq columns,
             body[r].table \notin {"providers", "sync_providers"} \cup KeyTables
      PROVE  Effect(r) /\ pc'[r] = "done"
  <2> DEFINE new == Only(body[r].table, Changed(r, Row(r), columns))
  <2>1. pc[r] = "write" /\ Update(r, new)
    BY <1>3 DEF WriteRow
  <2>2. There(r) /\ body[r].table \in DOMAIN mem[r]
    BY <1>3, <2>1 DEF CopyInv, HasRead, WritesBack, KeyTables
  <2>3. IsStale(r) \/ Changed(r, Row(r), columns) = Overlay(Row(r), body[r].set)
    BY <1>3, <2>2, ChangedIsOverlay
  <2>4. DOMAIN new = {body[r].table} /\ new[body[r].table] = Changed(r, Row(r), columns)
    BY DEF Only
  <2> HIDE DEF new
  <2>5. AsOneStep(r, new)
    <3>1. ProvidersWhole(new) /\ KeyTables \cap DOMAIN new = {}
      BY <1>3, <2>4 DEF ProvidersWhole
    <3> QED
      BY <2>2, <2>3, <2>4, <3>1 DEF AsOneStep, There, Exists, Row
  <2>6. pc'[r] = "done"
    BY <1>0, <2>1 DEF Update, Reply
  <2> QED
    BY <2>1, <2>5, <2>6, Zenon DEF Effect
<1> QED
  BY <1>1, <1>2, <1>3

(* A request that neither writes nor locks has nothing to remember.        *)
LEMMA PlacesOfRead ==
  ASSUME NEW r, pc'[r] \notin {"record", "write", "provider", "update"} PROVE HasRead(r)'
BY DEF HasRead

(* The columns that the bodies of PATCHes and DELETEs have.                *)
LEMMA BodyColumns ==
  ASSUME body \in Scenarios, NEW r \in Requests
  PROVE  LET q == body[r] IN
         /\ q.table \in Tables
         /\ q.op = "delete" => DOMAIN q.set \subseteq {"status"}
         /\ q.op = "patch" /\ q.table \in {"providers", "models", "model_listings",
                                           "product_listings", "sync"} =>
              DOMAIN q.set \subseteq {"name", "status"}
         /\ q.op = "patch" /\ q.table = "products" =>
              DOMAIN q.set \subseteq {"name", "status", "published", "terms"}
         /\ q.op = "patch" /\ q.table = "principals" => DOMAIN q.set \subseteq {"name", "roles"}
         /\ q.op = "ownerPatch" /\ q.table \in {"merchants", "products"} =>
              DOMAIN q.set \subseteq {"name", "status"}
         /\ q.op = "rotate" /\ q.table = "sync" => DOMAIN q.set \subseteq {"secret"}
         /\ q.op = "disable" /\ q.table = "sync" => DOMAIN q.set \subseteq {"status"}
<1>1. r \in DOMAIN body
  BY DEF Requests
<1>2. \A op, t, columns : Sends(op, t, columns) /\ body[r].op = op /\ body[r].table = t =>
                            DOMAIN body[r].set \subseteq columns
  BY <1>1 DEF Sends
<1>3. body[r].table \in Tables /\ (body[r].op = "delete" => DOMAIN body[r].set \subseteq {"status"})
  BY <1>1, <1>2, RequestsAssumption
<1> QED
  BY <1>2, <1>3, CatalogAssumption, DirectoryAssumption, KeysAssumption

(* A PATCH or DELETE of a row without copies.                              *)
LEMMA ResourceEffects ==
  ASSUME CopyInv, NEW r \in Requests, body' = body, NEW t, NEW columns, Resource(r, t, columns),
         t \notin {"providers", "sync_providers", "subscriptions"} \cup KeyTables,
         body[r].op = "patch" => DOMAIN body[r].set \subseteq columns
  PROVE  Effect(r) /\ HasRead(r)'
<1>1. /\ body[r].op \in {"patch", "delete"} /\ body[r].table = t
      /\ body[r].op = "delete" => DOMAIN body[r].set \subseteq {"status"}
      /\ t # "sync"
  BY BodyColumns DEF CopyInv, Resource, KeyTables
<1>2. CASE ReadRow(r, "write")
  <2>1. /\ Effect(r)
        /\ pc'[r] = "done" \/ (pc'[r] = "write" /\ There(r)' /\ body[r].table \in DOMAIN mem'[r])
    BY <1>2, PatchEffects
  <2> QED
    BY <1>1, <2>1 DEF HasRead
<1>3. CASE WriteRow(r, IF body[r].op = "delete" THEN {"status"} ELSE columns)
  <2> DEFINE c == IF body[r].op = "delete" THEN {"status"} ELSE columns
  <2>1. DOMAIN body[r].set \subseteq c /\ WriteRow(r, c)
    BY <1>1, <1>3
  <2> HIDE DEF c
  <2>2. WritesBack(r) /\ body[r].op # "disable"
    BY <1>1 DEF WritesBack
  <2>3. Effect(r) /\ pc'[r] = "done"
    BY <1>1, <2>1, <2>2, PatchEffects
  <2> QED
    BY <2>3, PlacesOfRead
<1>4. CASE WriteFails(r)
  BY <1>4, PatchEffects, PlacesOfRead
<1> QED
  BY <1>2, <1>3, <1>4 DEF Resource

(* A POST of a row without copies.                                         *)
LEMMA CreateEffects ==
  ASSUME CopyInv, NEW r \in Requests, NEW t, NEW new, NEW there, NEW taken,
         Create(r, t, new, there, taken), ProvidersWhole(new), KeysWhole(new)
  PROVE  Effect(r) /\ HasRead(r)'
<1>1. Effect(r) /\ pc'[r] \in {"parent", "insert", "again", "done"}
  <2>1. LookUp(r, "parent") => Effect(r) /\ pc'[r] \in {"parent", "done"}
    BY PostEffects
  <2>2. Insert(r, new, taken) => Effect(r) /\ pc'[r] \in {"again", "done"}
    BY PostEffects
  <2> QED
    BY <2>1, <2>2, PostEffects DEF Create
<1> QED
  BY <1>1, PlacesOfRead

LEMMA NoCopies ==
  \A row, t : t \notin {"providers", "sync_providers"} \cup KeyTables =>
                ProvidersWhole(Only(t, row)) /\ KeysWhole(Only(t, row))
BY DEF ProvidersWhole, KeysWhole, Only

(* The handlers of the catalog.                                            *)
LEMMA ProviderUpdateEffects ==
  ASSUME CopyInv, NEW r \in Requests, UpdateAdminProvider(r), body[r].table = "providers",
         body[r].op \in {"patch", "delete"}
  PROVE  Effect(r) /\ pc'[r] = "done"
<1> DEFINE row == Changed(r, Row(r), {"name", "status"})
           new == BothProviderRows(row)
           id  == body[r].id
<1>1. pc[r] = "write" /\ Update(r, new)
  BY DEF UpdateAdminProvider
<1>2. There(r) /\ "providers" \in DOMAIN mem[r]
  BY <1>1 DEF CopyInv, HasRead, WritesBack
<1>3. DOMAIN body[r].set \subseteq {"name", "status"}
  BY BodyColumns DEF CopyInv
<1>4. IsStale(r) \/ row = Overlay(Row(r), body[r].set)
  BY <1>2, <1>3, ChangedIsOverlay
<1> HIDE DEF row
<1>5. Row(r) = rows.providers[id] /\ id \in DOMAIN rows.providers
  BY <1>2 DEF Row, There, Exists
<1>6. /\ id \in DOMAIN rows.sync_providers
      /\ id \in overlapped \/ rows.sync_providers[id] = rows.providers[id]
  BY <1>5 DEF CopyInv, ProviderCopies
<1>7. /\ DOMAIN new = {"providers", "sync_providers"}
      /\ new.providers = row /\ new.sync_providers = row
  BY DEF BothProviderRows
<1> HIDE DEF new
<1>8. AsOneStep(r, new)
  <2>1. ProvidersWhole(new) /\ KeyTables \cap DOMAIN new = {}
    BY <1>7 DEF ProvidersWhole, KeyTables
  <2>2. \A t \in Tables \cap DOMAIN new :
          /\ id \in DOMAIN rows[t]
          /\ IsStale(r) \/ id \in overlapped \/ new[t] = Overlay(rows[t][id], body[r].set)
    BY <1>4, <1>5, <1>6, <1>7
  <2> QED
    BY <2>1, <2>2 DEF AsOneStep
<1>9. pc'[r] = "done"
  BY <1>1 DEF Update, Reply, CopyInv
<1> QED
  BY <1>1, <1>8, <1>9, Zenon DEF Effect

LEMMA CatalogEffects ==
  ASSUME CopyInv, NEW r \in Requests, body' = body, CatalogNext(r)
  PROVE  Effect(r) /\ HasRead(r)'
<1>0. body \in Scenarios /\ r \in DOMAIN pc
  BY DEF CopyInv
<1>1. CASE AdminProviders(r)
  <2>1. ProvidersWhole(BothProviderRows(body[r].row)) /\ KeysWhole(BothProviderRows(body[r].row))
    BY DEF ProvidersWhole, KeysWhole, BothProviderRows, KeyTables
  <2>2. LookUp(r, "insert") => Effect(r) /\ pc'[r] \in {"insert", "done"}
    BY PostEffects
  <2>3. Insert(r, BothProviderRows(body[r].row), FALSE) => Effect(r) /\ pc'[r] \in {"again", "done"}
    BY <2>1, PostEffects
  <2>4. Effect(r) /\ pc'[r] \in {"insert", "again", "done"}
    BY <1>1, <2>2, <2>3, PostEffects DEF AdminProviders
  <2> QED
    BY <2>4, PlacesOfRead
<1>2. CASE AdminProviderResource(r)
  <2>0. body[r].table = "providers" /\ body[r].op \in {"patch", "delete"}
    BY <1>2 DEF AdminProviderResource
  <2>1. CASE ReadRow(r, "write")
    <3>1. /\ Effect(r)
          /\ pc'[r] = "done" \/ (pc'[r] = "write" /\ There(r)' /\ body[r].table \in DOMAIN mem'[r])
      BY <2>1, PatchEffects
    <3> QED
      BY <2>0, <3>1 DEF HasRead
  <2>2. CASE UpdateAdminProvider(r)
    BY <2>0, <2>2, ProviderUpdateEffects, PlacesOfRead
  <2>3. CASE WriteFails(r)
    BY <2>3, PatchEffects, PlacesOfRead
  <2> QED
    BY <1>2, <2>1, <2>2, <2>3 DEF AdminProviderResource
<1>3. CASE AdminModels(r)
  <2>1. ProvidersWhole([models |-> body[r].row]) /\ KeysWhole([models |-> body[r].row])
    BY DEF ProvidersWhole, KeysWhole, KeyTables
  <2> QED
    BY <1>3, <2>1, CreateEffects DEF AdminModels
<1>4. CASE AdminModelListings(r)
  <2>1. /\ ProvidersWhole([model_listings |-> body[r].row])
        /\ KeysWhole([model_listings |-> body[r].row])
    BY DEF ProvidersWhole, KeysWhole, KeyTables
  <2> QED
    BY <1>4, <2>1, CreateEffects DEF AdminModelListings
<1>5. CASE AdminModelResource(r)
  <2>1. /\ Resource(r, "models", {"name", "status"}) /\ body[r].table = "models"
        /\ body[r].op = "patch" => DOMAIN body[r].set \subseteq {"name", "status"}
    BY <1>0, <1>5, BodyColumns DEF AdminModelResource, Resource
  <2> QED
    BY <2>1, ResourceEffects DEF KeyTables
<1>6. CASE AdminModelListingResource(r)
  <2>1. /\ Resource(r, "model_listings", {"name", "status"}) /\ body[r].table = "model_listings"
        /\ body[r].op = "patch" => DOMAIN body[r].set \subseteq {"name", "status"}
    BY <1>0, <1>6, BodyColumns DEF AdminModelListingResource, Resource
  <2> QED
    BY <2>1, ResourceEffects DEF KeyTables
<1>7. CASE AdminModelCustomerPrices(r)
  <2>1. Effect(r)
    BY <1>7 DEF AdminModelCustomerPrices, Replace, TakeLock, CheckList, StartDelete,
      FinishDelete, ListFails, CommitList, StayRows, historyVars, Effect
  <2>2. pc'[r] \in {"lock", "check", "delete", "deleting", "commit", "done"}
    BY <1>0, <1>7 DEF AdminModelCustomerPrices, Replace, TakeLock, CheckList, StartDelete,
      FinishDelete, ListFails, CommitList, End, Goto, Reply
  <2> QED
    BY <2>1, <2>2, PlacesOfRead
<1> QED
  BY <1>1, <1>2, <1>3, <1>4, <1>5, <1>6, <1>7 DEF CatalogNext

(* Changing a row and copying it commute.                                  *)
LEMMA OverlayOfCopies ==
  ASSUME NEW row, KeyColumns \subseteq DOMAIN row, NEW set
  PROVE  /\ BifrostRow(Overlay(row, set)) = Overlay(BifrostRow(row), set)
         /\ BillingRow(Overlay(row, set)) = Overlay(BillingRow(row), set)
<1>1. \A f \in KeyColumns : Overlay(row, set)[f] = IF f \in DOMAIN set THEN set[f] ELSE row[f]
  BY DEF Overlay
<1>2. BifrostRow(Overlay(row, set)) = Overlay(BifrostRow(row), set)
  BY <1>1 DEF KeyColumns, BifrostRow, Overlay
<1>3. BillingRow(Overlay(row, set)) = Overlay(BillingRow(row), set)
  BY <1>1 DEF KeyColumns, BillingRow, Overlay
<1> QED
  BY <1>2, <1>3

(* What updateAdminProviderKey writes back of an unchanged name and status *)
(* changes nothing.                                                        *)
LEMMA OverlayOfChange ==
  ASSUME NEW row, KeyColumns \subseteq DOMAIN row, NEW set, DOMAIN set \subseteq {"name", "status"}
  PROVE  LET change == Overlay([name |-> row.name, status |-> row.status], set) IN
         /\ Overlay(row, change) = Overlay(row, set)
         /\ Overlay(BifrostRow(row), change) = Overlay(BifrostRow(row), set)
         /\ Overlay(BillingRow(row), change) = Overlay(BillingRow(row), set)
<1> DEFINE change == Overlay([name |-> row.name, status |-> row.status], set)
<1>1. /\ DOMAIN change = {"name", "status"}
      /\ \A f \in {"name", "status"} : change[f] = IF f \in DOMAIN set THEN set[f] ELSE row[f]
  BY DEF Overlay
<1> HIDE DEF change
<1>2. ASSUME NEW any, \A f \in DOMAIN any : f \in {"name", "status"} => any[f] = row[f]
      PROVE  Overlay(any, change) = Overlay(any, set)
  <2>1. \A f \in DOMAIN any : (IF f \in DOMAIN change THEN change[f] ELSE any[f])
                              = (IF f \in DOMAIN set THEN set[f] ELSE any[f])
    BY <1>1, <1>2
  <2> QED
    BY <2>1 DEF Overlay
<1>3. Overlay(row, change) = Overlay(row, set)
  BY <1>2
<1>4. Overlay(BifrostRow(row), change) = Overlay(BifrostRow(row), set)
  BY <1>2 DEF BifrostRow
<1>5. Overlay(BillingRow(row), change) = Overlay(BillingRow(row), set)
  BY <1>2 DEF BillingRow
<1> QED
  BY <1>3, <1>4, <1>5 DEF change

(* What a request that changes a key knows when it writes.                 *)
LEMMA KeyRead ==
  ASSUME CopyInv, NEW r \in Requests, pc[r] = "write", body[r].table = "sync",
         body[r].op \in {"patch", "delete", "rotate", "disable"}
  PROVE  LET k == body[r].id IN
         /\ k \in DOMAIN rows.sync /\ k \in DOMAIN rows.bifrost /\ k \in DOMAIN rows.billing
         /\ KeyColumns \subseteq DOMAIN rows.sync[k]
         /\ IsStale(r) \/ k \in overlapped \/
              /\ rows.bifrost[k] = BifrostRow(rows.sync[k])
              /\ rows.billing[k] = BillingRow(rows.sync[k])
              /\ mem[r].bifrost = rows.bifrost[k]
              /\ body[r].op # "disable" => mem[r].sync = rows.sync[k]
<1>1. HasRead(r) /\ KeyCopies
  BY DEF CopyInv
<1>2. /\ There(r) /\ "bifrost" \in DOMAIN mem[r]
      /\ body[r].op # "disable" => "sync" \in DOMAIN mem[r]
  BY <1>1 DEF HasRead, WritesBack
<1> QED
  BY <1>1, <1>2 DEF There, Exists, KeyCopies, IsStale

(* The three updates of a key.                                             *)
LEMMA KeyUpdateEffects ==
  ASSUME CopyInv, NEW r \in Requests, body[r].table = "sync",
         \/ body[r].op \in {"patch", "delete"} /\ UpdateAdminProviderKey(r)
         \/ /\ body[r].op = "rotate"
            /\ UpdateKey(r, [bifrost |-> Overlay(mem[r].bifrost, body[r].set),
                             sync    |-> Overlay(rows.sync[body[r].id], body[r].set)])
         \/ /\ body[r].op = "disable"
            /\ UpdateKey(r, [bifrost |-> Overlay(mem[r].bifrost, body[r].set),
                             billing |-> Overlay(rows.billing[body[r].id], body[r].set),
                             sync    |-> Overlay(rows.sync[body[r].id], body[r].set)])
  PROVE  Effect(r) /\ pc'[r] = "done"
<1> DEFINE k == body[r].id
           set == body[r].set
           change == Overlay([name |-> mem[r].sync.name, status |-> mem[r].sync.status], set)
           unchanged == ~IsStale(r) /\ k \notin overlapped
<1>0. pc[r] = "write" /\ body \in Scenarios
  BY DEF UpdateAdminProviderKey, UpdateKey, CopyInv
<1>1. /\ k \in DOMAIN rows.sync /\ k \in DOMAIN rows.bifrost /\ k \in DOMAIN rows.billing
      /\ KeyColumns \subseteq DOMAIN rows.sync[k]
      /\ unchanged =>
           /\ rows.bifrost[k] = BifrostRow(rows.sync[k])
           /\ rows.billing[k] = BillingRow(rows.sync[k])
           /\ mem[r].bifrost = rows.bifrost[k]
           /\ body[r].op # "disable" => mem[r].sync = rows.sync[k]
  BY <1>0, KeyRead
<1>2. \A s : DOMAIN Overlay(rows.sync[k], s) = DOMAIN rows.sync[k]
  BY DEF Overlay
<1>3. ASSUME NEW new, Update(r, new), AsOneStep(r, new) PROVE Effect(r) /\ pc'[r] = "done"
  BY <1>3 DEF Effect, Update, Reply, CopyInv
<1>4. CASE body[r].op \in {"patch", "delete"} /\ UpdateAdminProviderKey(r)
  <2> DEFINE new == [bifrost |-> Overlay(mem[r].bifrost, change),
                     billing |-> Overlay(rows.billing[k], change),
                     sync    |-> Overlay(rows.sync[k], change)]
  <2>1. Update(r, new)
    BY <1>4 DEF UpdateAdminProviderKey, UpdateKey
  <2>2. DOMAIN set \subseteq {"name", "status"}
    BY <1>0, <1>4, BodyColumns
  <2>3. unchanged => /\ new.sync = Overlay(rows.sync[k], set)
                     /\ new.bifrost = Overlay(rows.bifrost[k], set)
                     /\ new.billing = Overlay(rows.billing[k], set)
    <3> SUFFICES ASSUME unchanged
                 PROVE  /\ Overlay(rows.sync[k], change) = Overlay(rows.sync[k], set)
                        /\ Overlay(mem[r].bifrost, change) = Overlay(rows.bifrost[k], set)
                        /\ Overlay(rows.billing[k], change) = Overlay(rows.billing[k], set)
      OBVIOUS
    <3>1. change = Overlay([name |-> rows.sync[k].name, status |-> rows.sync[k].status], set)
      BY <1>1, <1>4
    <3> HIDE DEF change
    <3> QED
      BY <1>1, <2>2, <3>1, OverlayOfChange
  <2>4. DOMAIN new = KeyTables /\ KeyColumns \subseteq DOMAIN new.sync
    BY <1>1, <1>2 DEF KeyTables
  <2> HIDE DEF new, change, unchanged
  <2>5. unchanged => new.bifrost = BifrostRow(new.sync) /\ BillingRow(new.sync) = new.billing
    BY <1>1, <2>3, OverlayOfCopies
  <2>6. \A t \in Tables \cap DOMAIN new :
          k \in DOMAIN rows[t] /\ (unchanged => new[t] = Overlay(rows[t][k], set))
    BY <1>1, <2>3, <2>4 DEF KeyTables
  <2>7. ProvidersWhole(new)
    BY <2>4 DEF ProvidersWhole, KeyTables
  <2>8. AsOneStep(r, new)
    BY <2>4, <2>5, <2>6, <2>7 DEF AsOneStep, KeyTables, unchanged
  <2> QED
    BY <1>3, <2>1, <2>8
<1>5. CASE /\ body[r].op = "rotate"
           /\ UpdateKey(r, [bifrost |-> Overlay(mem[r].bifrost, set),
                            sync    |-> Overlay(rows.sync[k], set)])
  <2> DEFINE new == [bifrost |-> Overlay(mem[r].bifrost, set), sync |-> Overlay(rows.sync[k], set)]
  <2>1. Update(r, new)
    BY <1>5 DEF UpdateKey
  <2>2. DOMAIN set \subseteq {"secret"}
    BY <1>0, <1>5, BodyColumns
  <2>3. /\ new.sync = Overlay(rows.sync[k], set)
        /\ unchanged => new.bifrost = Overlay(rows.bifrost[k], set)
    BY <1>1
  <2>4. DOMAIN new = {"bifrost", "sync"} /\ KeyColumns \subseteq DOMAIN new.sync
    BY <1>1, <1>2
  <2>5. BillingRow(Overlay(rows.sync[k], set)) = BillingRow(rows.sync[k])
    BY <1>1, <2>2 DEF KeyColumns, BillingRow, Overlay
  <2> HIDE DEF new, unchanged
  <2>6. unchanged => new.bifrost = BifrostRow(new.sync) /\ BillingRow(new.sync) = rows.billing[k]
    BY <1>1, <2>3, <2>5, OverlayOfCopies
  <2>7. \A t \in Tables \cap DOMAIN new :
          k \in DOMAIN rows[t] /\ (unchanged => new[t] = Overlay(rows[t][k], set))
    BY <1>1, <2>3, <2>4
  <2>8. ProvidersWhole(new)
    BY <2>4 DEF ProvidersWhole
  <2>9. AsOneStep(r, new)
    BY <2>4, <2>6, <2>7, <2>8 DEF AsOneStep, unchanged
  <2> QED
    BY <1>3, <2>1, <2>9
<1>6. CASE /\ body[r].op = "disable"
           /\ UpdateKey(r, [bifrost |-> Overlay(mem[r].bifrost, set),
                            billing |-> Overlay(rows.billing[k], set),
                            sync    |-> Overlay(rows.sync[k], set)])
  <2> DEFINE new == [bifrost |-> Overlay(mem[r].bifrost, set),
                     billing |-> Overlay(rows.billing[k], set),
                     sync    |-> Overlay(rows.sync[k], set)]
  <2>1. Update(r, new)
    BY <1>6 DEF UpdateKey
  <2>2. /\ new.sync = Overlay(rows.sync[k], set) /\ new.billing = Overlay(rows.billing[k], set)
        /\ unchanged => new.bifrost = Overlay(rows.bifrost[k], set)
    BY <1>1
  <2>3. DOMAIN new = KeyTables /\ KeyColumns \subseteq DOMAIN new.sync
    BY <1>1, <1>2 DEF KeyTables
  <2> HIDE DEF new, unchanged
  <2>4. unchanged => new.bifrost = BifrostRow(new.sync) /\ BillingRow(new.sync) = new.billing
    BY <1>1, <2>2, OverlayOfCopies
  <2>5. \A t \in Tables \cap DOMAIN new :
          k \in DOMAIN rows[t] /\ (unchanged => new[t] = Overlay(rows[t][k], set))
    BY <1>1, <2>2, <2>3 DEF KeyTables
  <2>6. ProvidersWhole(new)
    BY <2>3 DEF ProvidersWhole, KeyTables
  <2>7. AsOneStep(r, new)
    BY <2>3, <2>4, <2>5, <2>6 DEF AsOneStep, KeyTables, unchanged
  <2> QED
    BY <1>3, <2>1, <2>7
<1> QED
  BY <1>4, <1>5, <1>6

(* The handlers that create keys.                                          *)
LEMMA InsertKeyEffects ==
  ASSUME CopyInv, NEW r \in Requests, body[r].op \in {"create", "ownerCreate"},
         body[r].table = "sync", InsertKey(r)
  PROVE  Effect(r) /\ pc'[r] \in {"again", "done"}
<1> DEFINE new == KeyRows(body[r].row)
<1>1. Insert(r, new, FALSE)
  BY DEF InsertKey
<1>2. KeyColumns \subseteq DOMAIN body[r].row
  BY KeysAssumption DEF CopyInv, Requests
<1>3. ProvidersWhole(new) /\ KeysWhole(new)
  BY <1>2 DEF KeyRows, ProvidersWhole, KeysWhole, KeyTables
<1> HIDE DEF new
<1> QED
  BY <1>1, <1>3, PostEffects

LEMMA KeyPostEffects ==
  ASSUME CopyInv, NEW r \in Requests, AdminProviderKeys(r) \/ CreateProviderKey(r)
  PROVE  Effect(r) /\ HasRead(r)'
<1>0. r \in DOMAIN pc
  BY DEF CopyInv
<1>1. Stay => Effect(r)
  BY DEF Stay, StayRows, historyVars, Effect
<1>2. ModelUnusable(r) => Effect(r) /\ pc'[r] \in {"again", "done"}
  BY <1>0, <1>1 DEF ModelUnusable, Goto, Reply
<1>3. InsertKeyFails(r) => Effect(r) /\ pc'[r] \in {"again", "done"}
  BY PostEffects DEF InsertKeyFails
<1>4. OwnerMerchant(r) => Effect(r) /\ pc'[r] \in {"insert", "done"}
  BY <1>0 DEF OwnerMerchant, AskMerchant, Goto, Reply, StayRows, historyVars, Effect
<1>5. CASE AdminProviderKeys(r)
  <2>1. InsertKey(r) => Effect(r) /\ pc'[r] \in {"again", "done"}
    BY <1>5, InsertKeyEffects DEF AdminProviderKeys, Is
  <2>2. CASE InsertKey(r) \/ ModelUnusable(r) \/ InsertKeyFails(r)
    BY <1>2, <1>3, <2>1, <2>2, PlacesOfRead
  <2>3. CASE LookUpFails(r)
    BY <2>3, PostEffects, PlacesOfRead
  <2>4. CASE ~(InsertKey(r) \/ ModelUnusable(r) \/ InsertKeyFails(r) \/ LookUpFails(r))
    <3>1. Stay /\ pc'[r] \in {"prices", "parent", "insert", "done"}
      BY <1>0, <1>5, <2>4 DEF AdminProviderKeys, CompareKey, ReplySame, Goto, Reply
    <3> QED
      BY <1>1, <3>1, PlacesOfRead
  <2> QED
    BY <2>2, <2>3, <2>4
<1>6. CASE CreateProviderKey(r)
  <2>1. InsertKey(r) => Effect(r) /\ pc'[r] \in {"again", "done"}
    BY <1>6, InsertKeyEffects DEF CreateProviderKey, Is
  <2>2. CASE InsertKey(r) \/ ModelUnusable(r) \/ InsertKeyFails(r) \/ OwnerMerchant(r)
    BY <1>2, <1>3, <1>4, <2>1, <2>2, PlacesOfRead
  <2>3. CASE ~(InsertKey(r) \/ ModelUnusable(r) \/ InsertKeyFails(r) \/ OwnerMerchant(r))
    <3>1. Stay /\ pc'[r] \in {"lookup", "merchant", "done"}
      BY <1>0, <1>6, <2>3 DEF CreateProviderKey, ReplySame, Goto, Reply
    <3> QED
      BY <1>1, <3>1, PlacesOfRead
  <2> QED
    BY <2>2, <2>3
<1> QED
  BY <1>5, <1>6

(* The handlers that change, rotate and disable keys.                      *)
LEMMA KeyPatchEffects ==
  ASSUME CopyInv, NEW r \in Requests, body' = body,
         AdminProviderKeyResource(r) \/ AdminProviderKeyRotateSecret(r) \/ DisableProviderKey(r)
  PROVE  Effect(r) /\ HasRead(r)'
<1>0. r \in DOMAIN pc /\ r \in DOMAIN mem
  BY DEF CopyInv
<1>1. body[r].table = "sync" /\ body[r].op \in {"patch", "delete", "rotate", "disable"}
  BY DEF AdminProviderKeyResource, AdminProviderKeyRotateSecret, DisableProviderKey, Is
<1>2. Stay => StayRows
  BY DEF Stay, StayRows, historyVars
<1>3. CASE KeyFails(r)
  BY <1>0, <1>2, <1>3, PlacesOfRead DEF KeyFails, Reply, StayRows, historyVars, Effect
<1>4. CASE ReadRow(r, "record")
  <2>1. /\ Effect(r)
        /\ pc'[r] = "done" \/ (pc'[r] = "record" /\ There(r)' /\ body[r].table \in DOMAIN mem'[r])
    BY <1>4, PatchEffects
  <2> QED
    BY <2>1 DEF HasRead
<1>5. CASE ReadRecord(r)
  <2>1. pc[r] = "record" /\ StayRows
    BY <1>2, <1>5 DEF ReadRecord
  <2>2. There(r) /\ (body[r].op # "disable" => body[r].table \in DOMAIN mem[r])
    BY <1>1, <2>1 DEF CopyInv, HasRead, WritesBack
  <2>3. mem'[r] = With(mem[r], "bifrost", rows.bifrost[body[r].id]) /\ pc'[r] = "write"
    BY <1>0, <1>5 DEF ReadRecord, Read
  <2>4. DOMAIN mem'[r] = {"bifrost"} \cup DOMAIN mem[r]
    BY <2>3 DEF With
  <2>5. There(r)'
    BY <2>1, <2>2 DEF StayRows, There, Exists
  <2> QED
    BY <2>1, <2>2, <2>4, <2>5 DEF HasRead, StayRows, historyVars, Effect
<1>6. CASE pc[r] = "sent" /\ Owns(r) /\ Goto(r, "record") /\ Stay /\ body[r].op = "disable"
  <2>1. pc'[r] = "record" /\ There(r)'
    BY <1>0, <1>2, <1>6 DEF StayRows, Goto, Owns, There, Exists
  <2> QED
    BY <1>2, <1>6, <2>1 DEF HasRead, StayRows, historyVars, Effect
<1>7. CASE pc[r] = "sent" /\ Reply(r, "missing") /\ Stay
  BY <1>0, <1>2, <1>7, PlacesOfRead DEF Reply, StayRows, historyVars, Effect
<1>8. ASSUME \/ body[r].op \in {"patch", "delete"} /\ UpdateAdminProviderKey(r)
             \/ /\ body[r].op = "rotate"
                /\ UpdateKey(r, [bifrost |-> Overlay(mem[r].bifrost, body[r].set),
                                 sync    |-> Overlay(rows.sync[body[r].id], body[r].set)])
             \/ /\ body[r].op = "disable"
                /\ UpdateKey(r, [bifrost |-> Overlay(mem[r].bifrost, body[r].set),
                                 billing |-> Overlay(rows.billing[body[r].id], body[r].set),
                                 sync    |-> Overlay(rows.sync[body[r].id], body[r].set)])
      PROVE  Effect(r) /\ HasRead(r)'
  BY <1>1, <1>8, KeyUpdateEffects, PlacesOfRead
<1>9. CASE AdminProviderKeyResource(r)
  BY <1>3, <1>4, <1>5, <1>8, <1>9, Zenon DEF AdminProviderKeyResource
<1>10. CASE AdminProviderKeyRotateSecret(r)
  BY <1>3, <1>4, <1>5, <1>8, <1>10, Zenon DEF AdminProviderKeyRotateSecret, Is
<1>11. CASE DisableProviderKey(r)
  BY <1>3, <1>5, <1>6, <1>7, <1>8, <1>11, Zenon DEF DisableProviderKey, Is
<1> QED
  BY <1>9, <1>10, <1>11

LEMMA KeyEffects ==
  ASSUME CopyInv, NEW r \in Requests, body' = body, KeyNext(r)
  PROVE  Effect(r) /\ HasRead(r)'
<1>0. r \in DOMAIN pc
  BY DEF CopyInv
<1>1. CASE AdminProviderKeyPrices(r) \/ PutProviderKeyPrices(r)
  <2>1. Effect(r)
    BY <1>1 DEF AdminProviderKeyPrices, PutProviderKeyPrices, Replace, TakeLock, CheckList,
      StartDelete, FinishDelete, ListFails, CommitKeyList, CommitList, Stay, StayRows,
      historyVars, Effect
  <2>2. pc'[r] \in {"lock", "check", "delete", "deleting", "commit", "done"}
    BY <1>0, <1>1 DEF AdminProviderKeyPrices, PutProviderKeyPrices, Replace, TakeLock, CheckList,
      StartDelete, FinishDelete, ListFails, CommitKeyList, CommitList, End, Goto, Reply
  <2> QED
    BY <2>1, <2>2, PlacesOfRead
<1>2. CASE ResolveCall(r)
  <2>1. Effect(r)
    BY <1>2 DEF ResolveCall, ResolveModel, ResolveKeys, ResolveKey, Stay, StayRows, historyVars,
      Effect
  <2>2. pc'[r] \in {"keys", "each", "done"}
    BY <1>0, <1>2 DEF ResolveCall, ResolveModel, ResolveKeys, ResolveKey, Read, Reply
  <2> QED
    BY <2>1, <2>2, PlacesOfRead
<1> QED
  BY <1>1, <1>2, CatalogEffects, KeyPostEffects, KeyPatchEffects DEF KeyNext

-----------------------------------------------------------------------------
(* An UPDATE of the columns of the body only, without a read before.       *)
LEMMA DirectEffects ==
  ASSUME CopyInv, NEW r \in Requests, There(r),
         body[r].table \notin {"providers", "sync_providers"} \cup KeyTables,
         NEW new, DOMAIN new = {body[r].table},
         new[body[r].table] = Overlay(Row(r), body[r].set), Update(r, new)
  PROVE  Effect(r) /\ HasRead(r)'
<1>1. ProvidersWhole(new) /\ KeyTables \cap DOMAIN new = {}
  BY DEF ProvidersWhole
<1>2. AsOneStep(r, new)
  BY <1>1 DEF AsOneStep, There, Exists, Row
<1>3. pc'[r] = "done"
  BY DEF Update, Reply, CopyInv
<1> QED
  BY <1>2, <1>3, PlacesOfRead, Zenon DEF Effect

(* A PATCH of an owner.                                                    *)
LEMMA OwnerEffects ==
  ASSUME CopyInv, NEW r \in Requests, body' = body, NEW t, NEW owns, NEW columns,
         OwnerResource(r, t, owns, columns),
         t \notin {"providers", "sync_providers", "subscriptions"} \cup KeyTables,
         DOMAIN body[r].set \subseteq columns
  PROVE  Effect(r) /\ HasRead(r)'
<1>0. r \in DOMAIN pc
  BY DEF CopyInv
<1>1. body[r].op = "ownerPatch" /\ body[r].table = t /\ t # "sync" /\ WritesBack(r)
  BY DEF OwnerResource, Is, KeyTables, WritesBack
<1>2. CASE ReadRow(r, "write")
  <2>1. /\ Effect(r)
        /\ pc'[r] = "done" \/ (pc'[r] = "write" /\ There(r)' /\ body[r].table \in DOMAIN mem'[r])
    BY <1>2, PatchEffects
  <2> QED
    BY <1>1, <2>1 DEF HasRead
<1>3. CASE WriteRow(r, columns)
  <2>1. Effect(r) /\ pc'[r] = "done"
    BY <1>1, <1>3, PatchEffects
  <2> QED
    BY <2>1, PlacesOfRead
<1>4. CASE WriteFails(r)
  BY <1>4, PatchEffects, PlacesOfRead
<1>5. CASE Reply(r, "missing") /\ StayRows
  BY <1>0, <1>5, PlacesOfRead DEF Reply, StayRows, historyVars, Effect
<1> QED
  BY <1>2, <1>3, <1>4, <1>5 DEF OwnerResource

(* A step that leaves the rows alone.                                      *)
LEMMA QuietEffects ==
  ASSUME NEW r, StayRows, pc'[r] \notin {"record", "write", "provider", "update"}
  PROVE  Effect(r) /\ HasRead(r)'
BY PlacesOfRead DEF StayRows, historyVars, Effect

LEMMA InitializeEffects ==
  ASSUME CopyInv, NEW r \in Requests, InitializeIdentity(r)
  PROVE  Effect(r) /\ HasRead(r)'
<1>0. r \in DOMAIN pc /\ body[r].table = "users"
  BY DEF CopyInv, InitializeIdentity, Is
<1>1. CASE CommitIdentity(r)
  <2>1. pc'[r] = "done"
    BY <1>0, <1>1 DEF CommitIdentity, Reply
  <2> QED
    BY <1>0, <1>1, <2>1, PlacesOfRead DEF Effect
<1>2. CASE ~CommitIdentity(r)
  <2>1. StayRows
    BY <1>2 DEF InitializeIdentity, InitializeLookUp, InitializeRequested, UpsertUser,
      InsertMerchant, CheckDefault, InitializeFails
  <2>2. CASE InitializeLookUp(r) \/ InitializeRequested(r) \/ UpsertUser(r) \/ InitializeFails(r)
    BY <1>0, <2>1, <2>2, QuietEffects DEF InitializeLookUp, InitializeRequested, UpsertUser,
      InitializeFails, Goto, Reply
  <2>3. CASE InsertMerchant(r)
    BY <1>0, <2>1, <2>3, QuietEffects DEF InsertMerchant, Read
  <2>4. CASE CheckDefault(r)
    <3>1. \/ \E how : Reply(r, how)
          \/ \E what : Read(r, what, "commit")
      BY <2>4, Zenon DEF CheckDefault
    <3> QED
      BY <1>0, <2>1, <3>1, QuietEffects DEF Reply, Read
  <2> QED
    BY <1>2, <2>2, <2>3, <2>4 DEF InitializeIdentity
<1> QED
  BY <1>1, <1>2

LEMMA MerchantEffects ==
  ASSUME CopyInv, NEW r \in Requests, body' = body,
         \/ Merchants(r) \/ MerchantProducts(r) \/ MerchantResource(r) \/ ProductResource(r)
         \/ AdminProducts(r) \/ AdminProductResource(r)
         \/ AdminProductListings(r) \/ AdminProductListingResource(r)
  PROVE  Effect(r) /\ HasRead(r)'
<1>0. r \in DOMAIN pc /\ body \in Scenarios
  BY DEF CopyInv
<1>1. ASSUME NEW there, InsertFresh(r, there) PROVE Effect(r) /\ HasRead(r)'
  BY <1>0, <1>1, QuietEffects DEF InsertFresh, Goto, Reply
<1>2. ASSUME NEW new, AddAt(NewID[r], new), ProvidersWhole(new), KeysWhole(new), Reply(r, "created"),
             failed' = failed
      PROVE  Effect(r) /\ HasRead(r)'
  <2>1. pc'[r] = "done"
    BY <1>0, <1>2 DEF Reply
  <2> QED
    BY <1>2, <2>1, PlacesOfRead, Zenon DEF Effect
<1>3. CASE Merchants(r)
  <2>1. ProvidersWhole([merchants |-> body[r].row]) /\ KeysWhole([merchants |-> body[r].row])
    BY DEF ProvidersWhole, KeysWhole, KeyTables
  <2> QED
    BY <1>1, <1>2, <1>3, <2>1 DEF Merchants
<1>4. CASE MerchantProducts(r)
  <2>1. ProvidersWhole([products |-> body[r].row]) /\ KeysWhole([products |-> body[r].row])
    BY DEF ProvidersWhole, KeysWhole, KeyTables
  <2> QED
    BY <1>1, <1>2, <1>4, <2>1 DEF MerchantProducts
<1>5. CASE MerchantResource(r)
  <2>1. CASE OwnerResource(r, "merchants", OwnsMerchant(r, body[r].id), {"name", "status"})
    <3>1. DOMAIN body[r].set \subseteq {"name", "status"}
      BY <1>0, <2>1, BodyColumns DEF OwnerResource, Is
    <3> QED
      BY <2>1, <3>1, OwnerEffects DEF KeyTables
  <2>2. CASE Reply(r, "in use") /\ StayRows
    BY <1>0, <2>2, QuietEffects DEF Reply
  <2> QED
    BY <1>5, <2>1, <2>2 DEF MerchantResource
<1>6. CASE ProductResource(r)
  <2>1. DOMAIN body[r].set \subseteq {"name", "status"}
    BY <1>0, <1>6, BodyColumns DEF ProductResource, OwnerResource, Is
  <2> QED
    BY <1>6, <2>1, OwnerEffects DEF ProductResource, KeyTables
<1>7. CASE AdminProducts(r)
  <2>1. ProvidersWhole([products |-> body[r].row]) /\ KeysWhole([products |-> body[r].row])
    BY DEF ProvidersWhole, KeysWhole, KeyTables
  <2> QED
    BY <1>7, <2>1, CreateEffects DEF AdminProducts
<1>8. CASE AdminProductResource(r)
  <2>1. /\ Resource(r, "products", {"name", "status", "published", "terms"})
        /\ body[r].table = "products"
        /\ body[r].op = "patch" =>
             DOMAIN body[r].set \subseteq {"name", "status", "published", "terms"}
    BY <1>0, <1>8, BodyColumns DEF AdminProductResource, Resource
  <2> QED
    BY <2>1, ResourceEffects DEF KeyTables
<1>9. CASE AdminProductListings(r)
  <2>1. /\ ProvidersWhole([product_listings |-> body[r].row])
        /\ KeysWhole([product_listings |-> body[r].row])
    BY DEF ProvidersWhole, KeysWhole, KeyTables
  <2> QED
    BY <1>9, <2>1, CreateEffects DEF AdminProductListings
<1>10. CASE AdminProductListingResource(r)
  <2>1. /\ Resource(r, "product_listings", {"name", "status"})
        /\ body[r].table = "product_listings"
        /\ body[r].op = "patch" => DOMAIN body[r].set \subseteq {"name", "status"}
    BY <1>0, <1>10, BodyColumns DEF AdminProductListingResource, Resource
  <2> QED
    BY <2>1, ResourceEffects DEF KeyTables
<1> QED
  BY <1>3, <1>4, <1>5, <1>6, <1>7, <1>8, <1>9, <1>10

LEMMA SubscriptionEffects ==
  ASSUME CopyInv, NEW r \in Requests, body' = body,
         \/ CreateSubscription(r) \/ SubscriptionResource(r)
         \/ SubscriptionKeys(r) \/ RevokeSubscriptionKey(r)
  PROVE  Effect(r) /\ HasRead(r)'
<1>0. r \in DOMAIN pc /\ (pc[r] = "write" => There(r))
  BY DEF CopyInv, HasRead
<1>1. ASSUME NEW how, Reply(r, how), StayRows PROVE Effect(r) /\ HasRead(r)'
  BY <1>0, <1>1, QuietEffects DEF Reply
<1>2. ASSUME NEW at, at \in {"terms", "other", "lookup", "insert"}, Goto(r, at), StayRows
      PROVE  Effect(r) /\ HasRead(r)'
  BY <1>0, <1>2, QuietEffects DEF Goto
<1>3. ASSUME There(r), Goto(r, "write"), StayRows, body[r].op = "revoke" \/ body[r].table = "subscriptions"
      PROVE  Effect(r) /\ HasRead(r)'
  BY <1>0, <1>3 DEF Goto, StayRows, historyVars, Effect, HasRead, WritesBack, There, Exists
<1>4. ASSUME NEW taken, InsertOrAgain(r, taken),
             body[r].table \notin {"providers", "sync_providers"} \cup KeyTables
      PROVE  Effect(r) /\ HasRead(r)'
  <2>1. CASE Goto(r, "again") /\ UNCHANGED <<rows, historyVars, failed>>
    BY <1>0, <2>1, PlacesOfRead DEF Goto, historyVars, Effect
  <2>2. CASE AddAt(body[r].id, Only(body[r].table, body[r].row)) /\ Reply(r, "created")
             /\ failed' = failed
    <3>1. pc'[r] = "done"
      BY <1>0, <2>2 DEF Reply
    <3>2. /\ ProvidersWhole(Only(body[r].table, body[r].row))
          /\ KeysWhole(Only(body[r].table, body[r].row))
      BY <1>4, NoCopies
    <3> QED
      BY <2>2, <3>1, <3>2, PlacesOfRead, Zenon DEF Effect
  <2> QED
    BY <1>4, <2>1, <2>2 DEF InsertOrAgain
<1>5. ASSUME InsertErrors(r) \/ InsertedByOther(r) PROVE Effect(r) /\ HasRead(r)'
  <2>1. LookUpFails(r) \/ (StayRows /\ \E how : Reply(r, how))
    BY <1>5, Zenon DEF InsertErrors, InsertedByOther
  <2> QED
    BY <1>1, <2>1, PostEffects, PlacesOfRead
<1>6. CASE CreateSubscription(r)
  <2>0. body[r].table = "subscriptions"
    BY <1>6 DEF CreateSubscription, Is
  <2>1. CASE InsertOrAgain(r, Subscribed(r) # {})
    BY <1>4, <2>0, <2>1 DEF KeyTables
  <2>2. CASE ~ (InsertOrAgain(r, Subscribed(r) # {}) \/ InsertErrors(r) \/ InsertedByOther(r))
    <3>1. \/ \E how : Reply(r, how)
          \/ \E at \in {"terms", "other", "insert"} : Goto(r, at)
      BY <1>6, <2>2 DEF CreateSubscription, LookUpContent
    <3>2. StayRows
      BY <1>6, <2>2, Zenon DEF CreateSubscription
    <3> QED
      BY <1>1, <1>2, <3>1, <3>2
  <2> QED
    BY <1>5, <2>1, <2>2
<1>7. CASE SubscriptionResource(r)
  <2>0. body[r].table = "subscriptions"
    BY <1>7 DEF SubscriptionResource, Is
  <2>1. CASE pc[r] = "sent"
    <3>1. StayRows /\ (Reply(r, "missing") \/ (There(r) /\ Goto(r, "write")))
      BY <1>7, <2>0, <2>1 DEF SubscriptionResource, WriteFails, OwnsSubscription, There, Exists
    <3> QED
      BY <1>1, <1>3, <2>0, <3>1
  <2>2. CASE WriteFails(r)
    BY <2>2, PatchEffects, PlacesOfRead
  <2>3. CASE pc[r] = "write" /\ Update(r, [subscriptions |-> Overlay(Row(r), body[r].set)])
    <3> DEFINE row == Overlay(Row(r), body[r].set)
               new == [subscriptions |-> row]
    <3>1. DOMAIN new = {body[r].table} /\ new[body[r].table] = row /\ There(r) /\ Update(r, new)
      BY <1>0, <2>0, <2>3
    <3> HIDE DEF new
    <3> QED
      BY <2>0, <3>1, DirectEffects DEF KeyTables
  <2> QED
    BY <1>7, <2>1, <2>2, <2>3 DEF SubscriptionResource
<1>8. CASE SubscriptionKeys(r)
  <2>0. body[r].table = "keys"
    BY <1>8 DEF SubscriptionKeys, Is
  <2>1. CASE InsertOrAgain(r, FALSE)
    BY <1>4, <2>0, <2>1 DEF KeyTables
  <2>2. CASE ~ (InsertOrAgain(r, FALSE) \/ InsertErrors(r) \/ InsertedByOther(r))
    <3>1. \/ \E how : Reply(r, how)
          \/ \E at \in {"lookup", "insert"} : Goto(r, at)
      BY <1>8, <2>2 DEF SubscriptionKeys, LookUpContent
    <3>2. StayRows
      BY <1>8, <2>2, Zenon DEF SubscriptionKeys
    <3> QED
      BY <1>1, <1>2, <3>1, <3>2
  <2> QED
    BY <1>5, <2>1, <2>2
<1>9. CASE RevokeSubscriptionKey(r)
  <2>0. body[r].table = "keys" /\ body[r].op = "revoke"
    BY <1>9 DEF RevokeSubscriptionKey, Is
  <2>1. CASE pc[r] = "sent"
    <3>1. StayRows /\ (Reply(r, "missing") \/ (There(r) /\ Goto(r, "write")))
      BY <1>9, <2>1 DEF RevokeSubscriptionKey, WriteFails
    <3> QED
      BY <1>1, <1>3, <2>0, <3>1
  <2>2. CASE Reply(r, "ok") /\ StayRows
    BY <1>1, <2>2
  <2>3. CASE pc[r] = "write" /\ Update(r, [keys |-> Overlay(Row(r), body[r].set)])
    <3> DEFINE row == Overlay(Row(r), body[r].set)
               new == [keys |-> row]
    <3>1. DOMAIN new = {body[r].table} /\ new[body[r].table] = row /\ There(r) /\ Update(r, new)
      BY <1>0, <2>0, <2>3
    <3> HIDE DEF new
    <3> QED
      BY <2>0, <3>1, DirectEffects DEF KeyTables
  <2>4. CASE WriteFails(r)
    BY <2>4, PatchEffects, PlacesOfRead
  <2> QED
    BY <1>9, <2>1, <2>2, <2>3, <2>4 DEF RevokeSubscriptionKey
<1> QED
  BY <1>6, <1>7, <1>8, <1>9

LEMMA PrincipalEffects ==
  ASSUME CopyInv, NEW r \in Requests, body' = body,
         \/ ServiceAccounts(r) \/ RevokeServiceAccount(r)
         \/ AdminServicePrincipals(r) \/ AdminServicePrincipalResource(r)
  PROVE  Effect(r) /\ HasRead(r)'
<1>0. /\ r \in DOMAIN pc /\ body \in Scenarios
      /\ pc[r] \in {"provider", "update"} => There(r)
  BY DEF CopyInv, HasRead
<1>1. ASSUME NEW how, Reply(r, how), StayRows PROVE Effect(r) /\ HasRead(r)'
  BY <1>0, <1>1, QuietEffects DEF Reply
<1>2. ASSUME There(r), NEW at, at \in {"provider", "update"}, Goto(r, at), StayRows
      PROVE  Effect(r) /\ HasRead(r)'
  BY <1>0, <1>2 DEF Goto, StayRows, historyVars, Effect, HasRead, There, Exists
<1>3. CASE ServiceAccounts(r)
  <2>1. CASE StayRows
    <3>1. Goto(r, "store") \/ Reply(r, "error") \/ Reply(r, "created")
      BY <1>3 DEF ServiceAccounts
    <3>2. Goto(r, "store") => pc'[r] = "store"
      BY <1>0 DEF Goto
    <3> QED
      BY <1>1, <2>1, <3>1, <3>2, QuietEffects
  <2>2. CASE AddAt(NewID[r], [principals |-> [body[r].row EXCEPT !.key = NewID[r]]])
             /\ Reply(r, "created") /\ failed' = failed
    <3> DEFINE row == [body[r].row EXCEPT !.key = NewID[r]]
               new == [principals |-> row]
    <3>1. ProvidersWhole(new) /\ KeysWhole(new)
      BY DEF ProvidersWhole, KeysWhole, KeyTables
    <3>2. pc'[r] = "done" /\ AddAt(NewID[r], new) /\ failed' = failed
      BY <1>0, <2>2 DEF Reply
    <3> HIDE DEF new
    <3> QED
      BY <3>1, <3>2, PlacesOfRead, Zenon DEF Effect
  <2> QED
    BY <1>3, <2>1, <2>2, Zenon DEF ServiceAccounts
<1>4. CASE RevokeServiceAccount(r)
  <2>0. body[r].table = "principals"
    BY <1>4 DEF RevokeServiceAccount, Is
  <2>1. CASE LockPrincipal(r)
    <3>1. StayRows /\ (Reply(r, "missing") \/ (There(r) /\ Goto(r, "provider")))
      BY <2>1 DEF LockPrincipal
    <3> QED
      BY <1>1, <1>2, <3>1
  <2>2. CASE RevokeCredential(r)
    <3>1. StayRows /\ (Reply(r, "error") \/ (There(r) /\ Goto(r, "update")))
      BY <1>0, <2>2 DEF RevokeCredential
    <3> QED
      BY <1>1, <1>2, <3>1
  <2>3. CASE Reply(r, "error") /\ StayRows
    BY <1>1, <2>3
  <2>4. CASE pc[r] = "update" /\ Update(r, [principals |-> Overlay(Row(r), body[r].set)])
    <3> DEFINE row == Overlay(Row(r), body[r].set)
               new == [principals |-> row]
    <3>1. DOMAIN new = {body[r].table} /\ new[body[r].table] = row /\ There(r) /\ Update(r, new)
      BY <1>0, <2>0, <2>4
    <3> HIDE DEF new
    <3> QED
      BY <2>0, <3>1, DirectEffects DEF KeyTables
  <2> QED
    BY <1>4, <2>1, <2>2, <2>3, <2>4 DEF RevokeServiceAccount, CommitRevocation
<1>5. CASE AdminServicePrincipals(r)
  <2>1. ProvidersWhole([principals |-> body[r].row]) /\ KeysWhole([principals |-> body[r].row])
    BY DEF ProvidersWhole, KeysWhole, KeyTables
  <2> QED
    BY <1>5, <2>1, CreateEffects DEF AdminServicePrincipals
<1>6. CASE AdminServicePrincipalResource(r)
  <2> DEFINE columns == IF body[r].op = "delete" THEN {"status"} ELSE {"name", "roles"}
  <2>1. /\ body[r].table = "principals" /\ body[r].op \in {"patch", "delete"} /\ WritesBack(r)
        /\ DOMAIN body[r].set \subseteq columns
        /\ ReadRow(r, "write") \/ WriteRow(r, columns) \/ WriteFails(r)
    BY <1>0, <1>6, BodyColumns DEF AdminServicePrincipalResource, WritesBack
  <2> HIDE DEF columns
  <2>2. CASE ReadRow(r, "write")
    <3>1. /\ Effect(r)
          /\ pc'[r] = "done" \/ (pc'[r] = "write" /\ There(r)' /\ body[r].table \in DOMAIN mem'[r])
      BY <2>2, PatchEffects
    <3> QED
      BY <2>1, <3>1 DEF HasRead
  <2>3. CASE WriteRow(r, columns)
    <3>1. Effect(r) /\ pc'[r] = "done"
      BY <2>1, <2>3, PatchEffects DEF KeyTables
    <3> QED
      BY <3>1, PlacesOfRead
  <2>4. CASE WriteFails(r)
    BY <2>4, PatchEffects, PlacesOfRead
  <2> QED
    BY <2>1, <2>2, <2>3, <2>4
<1> QED
  BY <1>3, <1>4, <1>5, <1>6

LEMMA DirectoryEffects ==
  ASSUME CopyInv, NEW r \in Requests, body' = body, DirectoryStep(r)
  PROVE  Effect(r) /\ HasRead(r)'
BY InitializeEffects, MerchantEffects, SubscriptionEffects, PrincipalEffects
DEF DirectoryStep, DirectoryNext

-----------------------------------------------------------------------------
(* Each step leaves the copies what they were, or changes all of them.     *)
LEMMA EffectKeepsCopies ==
  ASSUME CopyInv, NEW r \in Requests, body' = body, MovesOn(r), Writes(r), Effect(r), HasRead(r)'
  PROVE  CopyInv'
<1>1. /\ Requests' = Requests /\ DOMAIN pc' = Requests /\ DOMAIN rows' = Tables
      /\ \A q \in Requests \ {r} : pc'[q] = pc[q]
      /\ \A q \in Requests : body[q].table \in Tables /\ There(q) => There(q)'
  BY OthersStay DEF CopyInv
<1>2. DOMAIN mem' = Requests /\ \A q \in Requests \ {r} : mem'[q] = mem[q]
  BY DEF CopyInv, MovesOn
<1>3. \A q \in Requests : body[q].table \in Tables
  BY BodyColumns DEF CopyInv
<1>4. \A q \in Requests : HasRead(q)'
  <2> SUFFICES ASSUME NEW q \in Requests \ {r} PROVE HasRead(q)'
    OBVIOUS
  <2>1. HasRead(q) /\ WritesBack(q)' = WritesBack(q)
    BY DEF CopyInv, WritesBack
  <2>2. pc'[q] = pc[q] /\ mem'[q] = mem[q] /\ (There(q) => There(q)')
    BY <1>1, <1>2, <1>3
  <2> QED
    BY <2>1, <2>2 DEF HasRead
<1>5. /\ DOMAIN ideal' = Tables /\ \A t \in Tables : DOMAIN rows'[t] = DOMAIN ideal'[t]
      /\ SerialUnlessOverlapped' /\ ProviderCopies' /\ KeyCopies'
  <2>1. CASE UNCHANGED <<rows, historyVars>>
    BY <2>1 DEF historyVars, CopyInv, SerialUnlessOverlapped, ProviderCopies, KeyCopies
  <2>2. CASE \E id, new : AddAt(id, new) /\ ProvidersWhole(new) /\ KeysWhole(new)
    BY <2>2, AddsKeepCopies
  <2>3. CASE \E new : Update(r, new) /\ AsOneStep(r, new)
    BY <2>3, UpdatesKeepCopies
  <2>4. CASE CommitIdentity(r)
    BY <2>4, CommitKeepsCopies
  <2> QED
    BY <2>1, <2>2, <2>3, <2>4 DEF Effect
<1> QED
  BY <1>1, <1>2, <1>4, <1>5 DEF CopyInv

LEMMA CopyInvInit == Init => CopyInv
<1> SUFFICES ASSUME Init PROVE CopyInv
  OBVIOUS
<1>1. /\ body \in Scenarios /\ rows = Seed /\ ideal = Seed
      /\ pc = [r \in Requests |-> "sent"] /\ mem = [r \in Requests |-> Nothing]
  BY DEF Init, RowsInit
<1>2. SerialUnlessOverlapped
  BY <1>1 DEF SerialUnlessOverlapped
<1>3. ProviderCopies
  BY <1>1, CatalogAssumption DEF ProviderCopies
<1>4. KeyCopies
  BY <1>1, KeysAssumption DEF KeyCopies
<1>5. \A r \in Requests : HasRead(r)
  BY <1>1 DEF HasRead
<1> QED
  BY <1>1, <1>2, <1>3, <1>4, <1>5 DEF CopyInv, Tables

LEMMA CopiesAreKept == Spec => []CopyInv
<1>1. ASSUME CopyInv, NEW r \in Requests, Step(r) PROVE CopyInv'
  <2>1. body' = body /\ MovesOn(r) /\ Writes(r)
    BY <1>1, KeyMoves, DirectoryMoves, KeyWrites, DirectoryWrites, ReadFailsIsQuiet
    DEF Step, Writes
  <2>2. Effect(r) /\ HasRead(r)'
    <3>1. CASE ReadFails(r)
      <4>1. UNCHANGED <<rows, historyVars, failed>> /\ pc'[r] = "done"
        BY <1>1, <3>1, ReadFailsIsQuiet DEF CopyInv, Reply
      <4>2. Effect(r)
        BY <4>1 DEF Effect
      <4> QED
        BY <4>1, <4>2, PlacesOfRead
    <3> QED
      BY <1>1, <2>1, <3>1, KeyEffects, DirectoryEffects DEF Step
  <2> QED
    BY <1>1, <2>1, <2>2, EffectKeepsCopies
<1>2. CopyInv /\ UNCHANGED vars => CopyInv'
  BY DEF vars, rowVars, CopyInv, SerialUnlessOverlapped, ProviderCopies, KeyCopies, HasRead,
    WritesBack, Requests, There, Exists
<1>3. CopyInv /\ [Next]_vars => CopyInv'
  BY <1>1, <1>2 DEF Next, Finished
<1> QED
  BY <1>3, CopyInvInit, PTL DEF Spec

(* The two rows of a provider and the three of a key, which one            *)
(* transaction writes, differ only where an update was written from a copy *)
(* that another one had made stale.                                        *)
THEOREM CopiesStayAgreed == Spec => []CopiesAgreeUnlessOverlapped
<1>1. CopyInv => CopiesAgreeUnlessOverlapped
  BY DEF CopyInv, ProviderCopies, KeyCopies, CopiesAgreeUnlessOverlapped
<1> QED
  BY <1>1, CopiesAreKept, PTL

-----------------------------------------------------------------------------
(* Default merchants stay on.                                              *)

DefaultsAreOn ==
  \A m \in DOMAIN rows.merchants :
    rows.merchants[m].default =>
      "status" \in DOMAIN rows.merchants[m] /\ rows.merchants[m].status = "on"

\* The copy that an owner's PATCH writes back; the row has not changed hands.
MerchantRead(r) ==
  body[r].op = "ownerPatch" /\ body[r].table = "merchants" /\ pc[r] = "write" =>
    /\ OwnsMerchant(r, body[r].id)
    /\ Row(r).default => mem[r].merchants.status = "on"

DefaultInv == DefaultsAreOn /\ \A r \in Requests : MerchantRead(r)

\* A step gives no merchant away, and makes none the default one or another.
MerchantsSame ==
  \A m \in DOMAIN rows.merchants :
    /\ m \in DOMAIN rows'.merchants
    /\ rows'.merchants[m].owner = rows.merchants[m].owner
    /\ rows'.merchants[m].default = rows.merchants[m].default

LEMMA DefaultsStay ==
  ASSUME IdentityInv, DefaultInv, NEW r \in Requests, body' = body, MovesOn(r), Writes(r),
         MerchantsSame, DefaultsAreOn', MerchantRead(r)'
  PROVE  DefaultInv'
<1>1. /\ Requests' = Requests
      /\ \A q \in Requests \ {r} : pc'[q] = pc[q] /\ mem'[q] = mem[q]
  BY IdentitiesOfOthers
<1>2. ASSUME NEW q \in Requests \ {r} PROVE MerchantRead(q)'
  <2> SUFFICES ASSUME body[q].op = "ownerPatch", body[q].table = "merchants", pc[q] = "write"
               PROVE  /\ OwnsMerchant(q, body[q].id)'
                      /\ Row(q)'.default => mem[q].merchants.status = "on"
    BY <1>1 DEF MerchantRead
  <2>1. OwnsMerchant(q, body[q].id) /\ (Row(q).default => mem[q].merchants.status = "on")
    BY DEF DefaultInv, MerchantRead
  <2>2. body[q].id \in DOMAIN rows.merchants /\ rows.merchants[body[q].id].owner = body[q].owner
    BY <2>1 DEF OwnsMerchant, Exists
  <2>3. Row(q) = rows.merchants[body[q].id] /\ Row(q)' = rows'.merchants[body[q].id]
    BY DEF Row
  <2> QED
    BY <2>1, <2>2, <2>3 DEF OwnsMerchant, Exists, MerchantsSame
<1> QED
  BY <1>1, <1>2 DEF DefaultInv

(* MerchantResource: the guard and the copy keep the status of a default   *)
(* merchant.                                                               *)
LEMMA PatchKeepsDefaults ==
  ASSUME IdentityInv, DefaultInv, NEW r \in Requests, body' = body, MovesOn(r),
         MerchantResource(r)
  PROVE  MerchantsSame /\ DefaultsAreOn' /\ MerchantRead(r)'
<1>0. /\ body[r].op = "ownerPatch" /\ body[r].table = "merchants" /\ body \in Scenarios
      /\ r \in DOMAIN pc /\ r \in DOMAIN mem /\ "merchants" \in Tables
  BY IdentitiesAssumption DEF MerchantResource, Is, IdentityInv, Tables
<1>1. CASE StayRows /\ pc'[r] # "write"
  BY <1>1 DEF StayRows, MerchantsSame, DefaultInv, DefaultsAreOn, MerchantRead
<1>2. CASE OwnsMerchant(r, body[r].id) /\ ReadRow(r, "write") /\ pc'[r] = "write"
  <2>1. rows' = rows /\ mem'[r] = Only("merchants", Row(r))
    BY <1>0, <1>2 DEF ReadRow, StayRows, Read, Reply
  <2>2. Row(r) = rows.merchants[body[r].id] /\ body[r].id \in DOMAIN rows.merchants
    BY <1>0, <1>2 DEF Row, OwnsMerchant, Exists
  <2>3. Row(r).default => Row(r).status = "on"
    BY <2>2 DEF DefaultInv, DefaultsAreOn
  <2>4. mem'[r].merchants = Row(r) /\ Row(r)' = Row(r)
    BY <2>1 DEF Only, Row
  <2> QED
    BY <1>2, <2>1, <2>3, <2>4 DEF MerchantsSame, DefaultInv, DefaultsAreOn, MerchantRead,
      OwnsMerchant, Exists
<1>3. CASE /\ OwnsMerchant(r, body[r].id) => KeepsDefault(r)
           /\ WriteRow(r, {"name", "status"})
  <2> DEFINE row == Changed(r, Row(r), {"name", "status"})
             m   == body[r].id
             set == body[r].set
  <2>1. pc[r] = "write" /\ Update(r, Only("merchants", row)) /\ pc'[r] = "done"
    BY <1>0, <1>3 DEF WriteRow, Update, Reply
  <2>2. /\ OwnsMerchant(r, m) /\ KeepsDefault(r)
        /\ Row(r).default => mem[r].merchants.status = "on"
    BY <1>0, <1>3, <2>1 DEF DefaultInv, MerchantRead
  <2>3. m \in DOMAIN rows.merchants /\ Row(r) = rows.merchants[m]
    BY <1>0, <2>2 DEF OwnsMerchant, Exists, Row
  <2>4. rows'.merchants = With(rows.merchants, m, row)
    BY <1>0, <2>1 DEF Update, StoreAt, Only
  <2>5. /\ row.owner = rows.merchants[m].owner /\ row.default = rows.merchants[m].default
        /\ DOMAIN row = DOMAIN rows.merchants[m]
    BY <2>3 DEF IdentityInv, MerchantRows, Changed
  <2>6. "status" \in DOMAIN set => set.status \in {"on", "off"}
    BY <1>0, DirectoryAssumption DEF Requests
  <2>7. row.default => "status" \in DOMAIN row /\ row.status = "on"
    <3> SUFFICES ASSUME rows.merchants[m].default
                 PROVE  "status" \in DOMAIN row /\ row.status = "on"
      BY <2>5
    <3>1. "status" \in DOMAIN rows.merchants[m]
      BY <2>3 DEF DefaultInv, DefaultsAreOn
    <3>2. row.status = IF "status" \in DOMAIN set THEN set.status ELSE mem[r].merchants.status
      BY <1>0, <2>3, <3>1 DEF Changed
    <3> QED
      BY <2>2, <2>3, <2>5, <2>6, <3>1, <3>2 DEF KeepsDefault
  <2> HIDE DEF row
  <2>8. MerchantsSame
    BY <2>3, <2>4, <2>5 DEF MerchantsSame, With
  <2>9. DefaultsAreOn'
    BY <2>3, <2>4, <2>7 DEF DefaultInv, DefaultsAreOn, With
  <2> QED
    BY <2>1, <2>8, <2>9 DEF MerchantRead
<1>4. \/ StayRows /\ pc'[r] # "write"
      \/ OwnsMerchant(r, body[r].id) /\ ReadRow(r, "write") /\ pc'[r] = "write"
      \/ (OwnsMerchant(r, body[r].id) => KeepsDefault(r)) /\ WriteRow(r, {"name", "status"})
  BY <1>0 DEF MerchantResource, OwnerResource, ReadRow, WriteFails, Reply
<1> QED
  BY <1>1, <1>2, <1>3, <1>4

LEMMA DefaultsStep ==
  ASSUME IdentityInv, DefaultInv, NEW r \in Requests, Step(r)
  PROVE  DefaultInv'
<1>1. body' = body /\ MovesOn(r) /\ Writes(r)
  BY KeyMoves, DirectoryMoves, KeyWrites, DirectoryWrites, ReadFailsIsQuiet DEF Step, Writes
<1>2. /\ body \in Scenarios /\ r \in DOMAIN body /\ r \in DOMAIN pc
      /\ {"users", "profiles", "merchants"} \subseteq Tables
  BY IdentitiesAssumption DEF IdentityInv, Requests, Tables
<1>3. ASSUME rows'.merchants = rows.merchants, body[r].op # "ownerPatch" \/ body[r].table # "merchants"
      PROVE  DefaultInv'
  <2>1. MerchantsSame /\ DefaultsAreOn' /\ MerchantRead(r)'
    BY <1>1, <1>3 DEF MerchantsSame, DefaultInv, DefaultsAreOn, MerchantRead
  <2> QED
    BY <1>1, <2>1, DefaultsStay
<1>4. CASE body[r].table \notin {"users", "merchants", "profiles"}
  <2>1. rows'.merchants = rows.merchants
    BY <1>1, <1>2, <1>4, RowsGrow DEF TablesOf, KeyTables, IdentityInv
  <2> QED
    BY <1>3, <1>4, <2>1
<1>5. CASE body[r].table = "merchants" /\ Merchants(r)
  <2>1. body[r].op = "post"
    BY <1>5 DEF Merchants, Is
  <2>2. CASE rows' = rows
    BY <1>3, <2>1, <2>2
  <2>3. CASE rows' # rows
    <3>1. AddAt(NewID[r], [merchants |-> body[r].row]) /\ Reply(r, "created")
      BY <1>5, <2>3 DEF Merchants, InsertFresh, StayRows
    <3>2. rows'.merchants = With(rows.merchants, NewID[r], body[r].row)
      BY <1>2, <3>1 DEF AddAt, StoreAt
    <3>3. ~body[r].row.default
      BY <1>2, <1>5, <2>1, IdentitiesAssumption
    <3>4. NewID[r] \notin DOMAIN rows.merchants
      BY <1>1 DEF MovesOn, IdentityInv, UnusedMerchants
    <3>5. MerchantsSame
      BY <3>2, <3>4 DEF MerchantsSame, With
    <3>6. DefaultsAreOn'
      BY <3>2, <3>3, <3>4 DEF DefaultInv, DefaultsAreOn, With
    <3>7. MerchantRead(r)'
      BY <1>1, <2>1 DEF MerchantRead
    <3> QED
      BY <1>1, <3>5, <3>6, <3>7, DefaultsStay
  <2> QED
    BY <2>2, <2>3
<1>6. CASE body[r].table = "merchants" /\ MerchantResource(r)
  BY <1>1, <1>6, PatchKeepsDefaults, DefaultsStay
<1>7. CASE body[r].table = "users" /\ InitializeIdentity(r)
  <2>1. CASE CommitIdentity(r)
    <3>1. Initializes(r) /\ pc[r] = "commit"
      BY <1>7, <2>1 DEF InitializeIdentity, Initializes, CommitIdentity
    <3>2. /\ DOMAIN rows'.merchants = Pending(r) \cup DOMAIN rows.merchants
          /\ \A m \in Pending(r) :
               "status" \in DOMAIN rows'.merchants[m] /\ rows'.merchants[m].status = "on"
          /\ \A m \in DOMAIN rows.merchants \ Pending(r) : rows'.merchants[m] = rows.merchants[m]
      BY <2>1, <3>1, CommitIdentityAdds
    <3>3. Pending(r) \cap DOMAIN rows.merchants = {}
      BY <3>1 DEF IdentityInv, PendingIsNew
    <3>4. MerchantsSame /\ DefaultsAreOn'
      BY <3>2, <3>3 DEF MerchantsSame, DefaultInv, DefaultsAreOn
    <3>5. MerchantRead(r)'
      BY <1>1, <1>7 DEF MerchantRead
    <3> QED
      BY <1>1, <3>4, <3>5, DefaultsStay
  <2>2. CASE ~CommitIdentity(r)
    <3>1. rows' = rows
      BY <1>7, <2>2 DEF InitializeIdentity, InitializeLookUp, InitializeRequested, UpsertUser,
        InsertMerchant, CheckDefault, InitializeFails, StayRows
    <3> QED
      BY <1>3, <1>7, <3>1
  <2> QED
    BY <2>1, <2>2
<1>8. CASE ReadFails(r)
  <2>1. rows' = rows /\ pc'[r] = "done"
    BY <1>2, <1>8, ReadFailsIsQuiet DEF Reply
  <2>2. MerchantsSame /\ DefaultsAreOn' /\ MerchantRead(r)'
    BY <2>1 DEF MerchantsSame, DefaultInv, DefaultsAreOn, MerchantRead
  <2> QED
    BY <1>1, <2>2, DefaultsStay
<1> QED
  BY <1>4, <1>5, <1>6, <1>7, <1>8, KeyHandlers, DirectoryHandlers DEF Step

(* No order of updates resets a column that a request does not name, and   *)
(* none switches a default merchant off.                                   *)
THEOREM UpdatesStayAddedUp == Spec => []UpdatesAddUp
<1>1. Init => DefaultInv
  <2> SUFFICES ASSUME Init PROVE DefaultInv
    OBVIOUS
  <2>1. rows = Seed /\ \A r \in Requests : pc[r] = "sent"
    BY DEF Init, RowsInit
  <2>2. DefaultsAreOn
    BY <2>1, IdentitiesAssumption DEF DefaultsAreOn
  <2> QED
    BY <2>1, <2>2 DEF DefaultInv, MerchantRead
<1>2. DefaultInv /\ UNCHANGED vars => DefaultInv'
  BY DEF vars, rowVars, DefaultInv, DefaultsAreOn, MerchantRead, OwnsMerchant, Row, Exists, Requests
<1>3. IdentityInv /\ DefaultInv /\ [Next]_vars => DefaultInv'
  BY <1>2, DefaultsStep DEF Next, Finished
<1>4. CopyInv /\ DefaultInv => UpdatesAddUp
  BY DEF CopyInv, DefaultInv, DefaultsAreOn, UpdatesAddUp
<1> QED
  BY <1>1, <1>3, <1>4, CopiesAreKept, IdentitiesAreKept, PTL DEF Spec

-----------------------------------------------------------------------------
(* POSTs settle.                                                           *)

Posts(r) == body[r].op \in {"create", "ownerCreate"}

\* What the tables have held so far of the row of a POST, and against it.
HeldSame(r) ==
  \E h \in everHeld[body[r].table] : h[1] = body[r].id /\ SameSent(body[r].table, h[2], body[r].row)
HeldOther(r) ==
  \E h \in everHeld[body[r].table] : h[1] = body[r].id /\ ~SameSent(body[r].table, h[2], body[r].row)
HasRival(r) ==
  \E h \in everHeld[body[r].table] : GizWayRival(r, h[1], h[2]) \/ GizPayRival(r, h[1], h[2])

Excused(r) == r \in failed \/ HeldOther(r) \/ HasRival(r)

RowsAreHeld ==
  \A t \in Tables \ {"users", "profiles"} : \A id \in DOMAIN rows[t] :
    <<id, rows[t][id]>> \in everHeld[t]

ListsAreHeld ==
  /\ \A k \in DOMAIN rows.sync : k \in DOMAIN lists /\ k \in DOMAIN json
  /\ \A o \in DOMAIN lists : <<o, Prices(lists[o])>> \in everListed
  /\ \A k \in DOMAIN json : <<k, json[k]>> \in everListed

\* How a POST has been answered, and what it knows at the places where it looks again.
Settled(r) ==
  Posts(r) =>
    /\ answer[r] = "created" => There(r)
    /\ answer[r] = "repeated" => HeldSame(r)
    /\ answer[r] = "conflict" => Excused(r)
    /\ pc[r] = "again" /\ body[r].op = "create" => r \in failed \/ There(r) \/ HasRival(r)
    /\ pc[r] = "prices" => There(r) /\ HeldSame(r)

CreatedOnce ==
  \A r, q \in Requests :
    /\ Posts(r) /\ Posts(q) /\ body[r].table = body[q].table /\ body[r].id = body[q].id
    /\ answer[r] = "created" /\ answer[q] = "created"
    => r = q

PostInv ==
  /\ DOMAIN answer = Requests /\ DOMAIN everHeld = Tables
  /\ RowsAreHeld /\ ListsAreHeld /\ CreatedOnce
  /\ \A r \in Requests : Settled(r)

(* What the tables have held they have held, and each row they hold.       *)
LEMMA HeldGrows ==
  ASSUME CopyInv, PostInv, NEW r \in Requests, Effect(r)
  PROVE  /\ DOMAIN everHeld' = Tables /\ failed \subseteq failed'
         /\ \A t \in Tables : everHeld[t] \subseteq everHeld'[t]
         /\ RowsAreHeld'
<1>0. DOMAIN everHeld = Tables /\ RowsAreHeld
  BY DEF PostInv
<1>1. CASE UNCHANGED <<rows, historyVars>> /\ failed \subseteq failed'
  BY <1>0, <1>1 DEF historyVars, RowsAreHeld
<1>2. CASE failed' = failed /\ \E id, new : StoreAt(id, new)
  <2>1. PICK id, new : StoreAt(id, new)
    BY <1>2
  <2>2. /\ DOMAIN everHeld' = Tables
        /\ \A t \in Tables \cap DOMAIN new : /\ rows'[t] = With(rows[t], id, new[t])
                                             /\ everHeld'[t] = everHeld[t] \cup {<<id, new[t]>>}
        /\ \A t \in Tables \ DOMAIN new : rows'[t] = rows[t] /\ everHeld'[t] = everHeld[t]
    BY <2>1 DEF StoreAt
  <2>3. \A t \in Tables : everHeld[t] \subseteq everHeld'[t]
    BY <2>2
  <2>4. RowsAreHeld'
    <3> SUFFICES ASSUME NEW t \in Tables \ {"users", "profiles"}, NEW i \in DOMAIN rows'[t]
                 PROVE  <<i, rows'[t][i]>> \in everHeld'[t]
      BY DEF RowsAreHeld
    <3>1. CASE t \in DOMAIN new
      <4>1. rows'[t] = With(rows[t], id, new[t]) /\ everHeld'[t] = everHeld[t] \cup {<<id, new[t]>>}
        BY <2>2, <3>1
      <4>2. CASE i = id
        <5>1. rows'[t][i] = new[t]
          BY <4>1, <4>2 DEF With
        <5> QED
          BY <4>1, <4>2, <5>1
      <4>3. CASE i # id
        <5>1. i \in DOMAIN rows[t] /\ rows'[t][i] = rows[t][i]
          BY <4>1, <4>3 DEF With
        <5> QED
          BY <1>0, <4>1, <5>1 DEF RowsAreHeld
      <4> QED
        BY <4>2, <4>3
    <3>2. CASE t \notin DOMAIN new
      BY <1>0, <2>2, <3>2 DEF RowsAreHeld
    <3> QED
      BY <3>1, <3>2
  <2> QED
    BY <1>2, <2>2, <2>3, <2>4
<1>3. CASE CommitIdentity(r)
  <2> DEFINE added == [m \in mem[r].inserted |->
                         [owner |-> body[r].id, name |-> body[r].name, status |-> "on",
                          default |-> TRUE]]
             new == {<<m, added[m]>> : m \in DOMAIN added}
  <2>1. "merchants" \in Tables
    BY IdentitiesAssumption DEF Tables
  <2>2. everHeld' = [everHeld EXCEPT !.merchants = @ \cup new]
    BY <1>3, Zenon DEF CommitIdentity
  <2>3. rows'.merchants = [m \in DOMAIN added \cup DOMAIN rows.merchants |->
                             IF m \in DOMAIN added THEN added[m] ELSE rows.merchants[m]]
    BY <1>3, <2>1 DEF CommitIdentity
  <2>4. \A t \in Tables \ {"users", "profiles", "merchants"} : rows'[t] = rows[t]
    BY <1>3 DEF CommitIdentity
  <2> HIDE DEF added
  <2>5. \A m \in DOMAIN rows'.merchants : <<m, rows'.merchants[m]>> \in everHeld.merchants \cup new
    <3> SUFFICES ASSUME NEW m \in DOMAIN rows'.merchants
                 PROVE  <<m, rows'.merchants[m]>> \in everHeld.merchants \cup new
      OBVIOUS
    <3>1. CASE m \in DOMAIN added
      BY <2>3, <3>1
    <3>2. CASE m \notin DOMAIN added
      <4>1. m \in DOMAIN rows.merchants /\ rows'.merchants[m] = rows.merchants[m]
        BY <2>3, <3>2
      <4> QED
        BY <1>0, <2>1, <4>1 DEF RowsAreHeld
    <3> QED
      BY <3>1, <3>2
  <2> HIDE DEF new
  <2>6. DOMAIN everHeld' = Tables /\ \A t \in Tables : everHeld[t] \subseteq everHeld'[t]
    BY <1>0, <2>2
  <2>7. everHeld'.merchants = everHeld.merchants \cup new
    BY <1>0, <2>1, <2>2
  <2>8. RowsAreHeld'
    BY <1>0, <2>4, <2>5, <2>6, <2>7 DEF RowsAreHeld
  <2>9. failed' = failed
    BY <1>3 DEF CommitIdentity
  <2> QED
    BY <2>6, <2>8, <2>9
<1>4. (\E id, new : AddAt(id, new)) \/ (\E new : Update(r, new)) => \E id, new : StoreAt(id, new)
  BY Zenon DEF AddAt, Update
<1>5. (\E new : Update(r, new)) => failed' = failed
  BY DEF Update
<1> QED
  BY <1>1, <1>2, <1>3, <1>4, <1>5, Zenon DEF Effect

\* What a step of a POST answers, and what it knows where it looks again.
Outcome(r) ==
  /\ \/ answer' = answer
     \/ \E how : /\ answer' = [answer EXCEPT ![r] = how]
                 /\ how = "created" => ~There(r) /\ There(r)'
                 /\ how = "repeated" => HeldSame(r)
                 /\ how = "conflict" => Excused(r) \/ r \in failed'
  /\ pc'[r] = "again" /\ body[r].op = "create" => r \in failed' \/ There(r) \/ HasRival(r)
  /\ pc'[r] = "prices" => There(r) /\ HeldSame(r)

(* What has been held against a POST stays held against it.                *)
LEMMA PostsStaySettled ==
  ASSUME PostInv, CopyInv, NEW r \in Requests, body' = body, MovesOn(r), Writes(r), Effect(r),
         Posts(r) => Outcome(r), everListed \subseteq everListed', ListsAreHeld'
  PROVE  PostInv'
<1>1. /\ Requests' = Requests
      /\ \A q \in Requests \ {r} : pc'[q] = pc[q] /\ answer'[q] = answer[q]
      /\ DOMAIN answer' = Requests
      /\ \A q \in Requests : body[q].table \in Tables /\ (There(q) => There(q)')
  BY OthersStay, BodyColumns DEF CopyInv, PostInv, MovesOn
<1>2. /\ DOMAIN everHeld' = Tables /\ failed \subseteq failed' /\ RowsAreHeld'
      /\ \A t \in Tables : everHeld[t] \subseteq everHeld'[t]
  BY HeldGrows
<1>3. ASSUME NEW q \in Requests
      PROVE  /\ HeldSame(q) => HeldSame(q)'
             /\ HasRival(q) => HasRival(q)'
             /\ Excused(q) => Excused(q)'
  <2>1. everHeld[body[q].table] \subseteq everHeld'[body[q].table]
    BY <1>1, <1>2
  <2>2. \A id, row : /\ GizWayRival(q, id, row) => GizWayRival(q, id, row)'
                     /\ GizPayRival(q, id, row) => GizPayRival(q, id, row)'
    BY DEF GizWayRival, GizPayRival
  <2>3. HeldSame(q) => HeldSame(q)'
    BY <2>1 DEF HeldSame
  <2>4. HeldOther(q) => HeldOther(q)'
    BY <2>1 DEF HeldOther
  <2>5. HasRival(q) => HasRival(q)'
    BY <2>1, <2>2 DEF HasRival
  <2> QED
    BY <1>2, <2>3, <2>4, <2>5 DEF Excused
<1>4. ASSUME NEW q \in Requests PROVE Settled(q)'
  <2> SUFFICES ASSUME Posts(q) PROVE Settled(q)'
    BY DEF Settled, Posts
  <2>1. Settled(q) /\ (There(q) => There(q)') /\ (q \in failed => q \in failed')
    BY <1>1, <1>2 DEF PostInv
  <2>2. CASE q # r
    BY <1>1, <1>3, <2>1, <2>2 DEF Settled
  <2>3. CASE q = r
    <3>1. Outcome(r)
      BY <2>3
    <3>2. /\ answer'[r] = "created" => There(r)'
          /\ answer'[r] = "repeated" => HeldSame(r)
          /\ answer'[r] = "conflict" => Excused(r) \/ r \in failed'
      BY <2>1, <2>3, <3>1 DEF Outcome, Settled, PostInv
    <3>3. Excused(r) \/ r \in failed' => Excused(r)'
      BY <1>3 DEF Excused
    <3> QED
      BY <1>3, <2>1, <2>3, <3>1, <3>2, <3>3 DEF Outcome, Settled
  <2> QED
    BY <2>2, <2>3
<1>5. CreatedOnce'
  <2> SUFFICES ASSUME NEW p \in Requests, NEW q \in Requests, p # q, Posts(p), Posts(q),
                      body[p].table = body[q].table, body[p].id = body[q].id,
                      answer'[p] = "created", answer'[q] = "created"
               PROVE  FALSE
    BY <1>1 DEF CreatedOnce, Posts
  <2>1. \A x \in Requests : Posts(x) /\ answer[x] = "created" => There(x)
    BY DEF PostInv, Settled
  <2>2. There(p) = There(q)
    BY DEF There
  <2>3. ASSUME NEW x \in Requests, Posts(x), answer'[x] = "created"
        PROVE  answer[x] = "created" \/ (x = r /\ ~There(x))
    BY <1>1, <2>3 DEF Outcome
  <2>4. ~(answer[p] = "created" /\ answer[q] = "created")
    BY DEF PostInv, CreatedOnce
  <2> QED
    BY <2>1, <2>2, <2>3, <2>4
<1> QED
  BY <1>1, <1>2, <1>4, <1>5 DEF PostInv

(* The row of a POST speaks for it or against it.                          *)
LEMMA RowSpeaks ==
  ASSUME PostInv, NEW r \in Requests, There(r), body[r].table \in Tables \ {"users", "profiles"}
  PROVE  /\ SameSent(body[r].table, Row(r), body[r].row) => HeldSame(r)
         /\ ~SameSent(body[r].table, Row(r), body[r].row) => HeldOther(r) /\ Excused(r)
         /\ Same(r) => HeldSame(r)
         /\ body[r].table \notin {"subscriptions", "keys"} /\ ~Same(r) => Excused(r)
<1>1. <<body[r].id, Row(r)>> \in everHeld[body[r].table]
  BY DEF PostInv, RowsAreHeld, There, Exists, Row
<1>2. SameSent(body[r].table, Row(r), body[r].row) => HeldSame(r)
  BY <1>1 DEF HeldSame
<1>3. ~SameSent(body[r].table, Row(r), body[r].row) => HeldOther(r)
  BY <1>1 DEF HeldOther
<1>4. Same(r) => SameSent(body[r].table, Row(r), body[r].row)
  BY DEF Same, SameSent
<1>5. body[r].table \notin {"subscriptions", "keys"} /\ ~Same(r) =>
        ~SameSent(body[r].table, Row(r), body[r].row)
  BY DEF Same, SameSent
<1> QED
  BY <1>2, <1>3, <1>4, <1>5 DEF Excused

(* The statements of a POST.                                               *)
LEMMA QuietOutcome ==
  ASSUME CopyInv, NEW r \in Requests
  PROVE  /\ \A at : Goto(r, at) /\ at \notin {"again", "prices"} => Outcome(r)
         /\ \A how : Reply(r, how) /\ how \notin {"created", "repeated", "conflict"} => Outcome(r)
         /\ Reply(r, "repeated") /\ HeldSame(r) => Outcome(r)
         /\ Reply(r, "conflict") /\ Excused(r) => Outcome(r)
         /\ LookUpFails(r) => Outcome(r)
         /\ Goto(r, "again") /\ (r \in failed' \/ There(r) \/ HasRival(r)) => Outcome(r)
         /\ Goto(r, "again") /\ body[r].op = "ownerCreate" => Outcome(r)
         /\ Goto(r, "prices") /\ There(r) /\ HeldSame(r) => Outcome(r)
<1>1. r \in DOMAIN pc
  BY DEF CopyInv
<1>2. ASSUME NEW at, Goto(r, at) PROVE pc'[r] = at /\ answer' = answer
  BY <1>1, <1>2 DEF Goto
<1>3. ASSUME NEW how, Reply(r, how) PROVE pc'[r] = "done" /\ answer' = [answer EXCEPT ![r] = how]
  BY <1>1, <1>3 DEF Reply
<1>4. \A at : Goto(r, at) /\ at \notin {"again", "prices"} => Outcome(r)
  BY <1>2 DEF Outcome
<1>5. \A how : Reply(r, how) /\ how \notin {"created", "repeated", "conflict"} => Outcome(r)
  BY <1>3 DEF Outcome
<1>6. Reply(r, "repeated") /\ HeldSame(r) => Outcome(r)
  BY <1>3 DEF Outcome
<1>7. /\ Reply(r, "conflict") /\ Excused(r) => Outcome(r)
      /\ LookUpFails(r) => Outcome(r)
  BY <1>3 DEF LookUpFails, Outcome
<1>8. Goto(r, "again") /\ (r \in failed' \/ There(r) \/ HasRival(r)) => Outcome(r)
  BY <1>2 DEF Outcome
<1>9. Goto(r, "again") /\ body[r].op = "ownerCreate" => Outcome(r)
  BY <1>2 DEF Outcome
<1>10. Goto(r, "prices") /\ There(r) /\ HeldSame(r) => Outcome(r)
  BY <1>2 DEF Outcome
<1> QED
  BY <1>4, <1>5, <1>6, <1>7, <1>8, <1>9, <1>10

LEMMA AddedOutcome ==
  ASSUME CopyInv, NEW r \in Requests, body' = body, ~There(r), NEW new,
         body[r].table \in Tables \cap DOMAIN new, AddAt(body[r].id, new), Reply(r, "created")
  PROVE  Outcome(r)
<1>1. pc'[r] = "done" /\ answer' = [answer EXCEPT ![r] = "created"]
  BY DEF Reply, CopyInv
<1>2. rows'[body[r].table] = With(rows[body[r].table], body[r].id, new[body[r].table])
  BY DEF AddAt, StoreAt
<1>3. There(r)'
  BY <1>2 DEF There, Exists, With
<1>4. \E how : /\ answer' = [answer EXCEPT ![r] = how]
               /\ how = "created" => ~There(r) /\ There(r)'
               /\ how = "repeated" => HeldSame(r)
               /\ how = "conflict" => Excused(r) \/ r \in failed'
  <2>1. "created" # "repeated" /\ "created" # "conflict"
    OBVIOUS
  <2> QED
    BY <1>1, <1>3, <2>1, Zenon
<1>5. pc'[r] # "again" /\ pc'[r] # "prices"
  BY <1>1
<1> QED
  BY <1>4, <1>5, Zenon DEF Outcome

LEMMA StatementOutcomes ==
  ASSUME CopyInv, PostInv, NEW r \in Requests, body' = body, body[r].op = "create",
         body[r].table \in Tables \ {"users", "profiles", "subscriptions", "keys"}
  PROVE  /\ \A next : LookUp(r, next) /\ next \notin {"again", "prices"} => Outcome(r)
         /\ \A there : CheckParent(r, there) => Outcome(r)
         /\ \A new, taken : /\ Insert(r, new, taken) /\ body[r].table \in DOMAIN new
                            /\ taken => HasRival(r)
                            => Outcome(r)
         /\ InsertFails(r) => Outcome(r)
         /\ LookAgain(r) => Outcome(r)
<1>1. ASSUME NEW next, LookUp(r, next), next \notin {"again", "prices"} PROVE Outcome(r)
  <2>1. CASE There(r)
    BY <1>1, <2>1, RowSpeaks, QuietOutcome DEF LookUp
  <2>2. CASE ~There(r)
    BY <1>1, <2>2, QuietOutcome DEF LookUp
  <2> QED
    BY <2>1, <2>2
<1>2. ASSUME NEW there, CheckParent(r, there) PROVE Outcome(r)
  <2>1. Goto(r, "insert") \/ Reply(r, "missing")
    BY <1>2 DEF CheckParent
  <2> QED
    BY <2>1, QuietOutcome
<1>3. ASSUME NEW new, NEW taken, Insert(r, new, taken), body[r].table \in DOMAIN new,
             taken => HasRival(r)
      PROVE  Outcome(r)
  <2>1. CASE There(r) \/ taken
    BY <1>3, <2>1, QuietOutcome DEF Insert
  <2>2. CASE ~(There(r) \/ taken)
    <3>1. AddAt(body[r].id, new) /\ Reply(r, "created")
      BY <1>3, <2>2 DEF Insert
    <3> QED
      BY <1>3, <2>2, <3>1, AddedOutcome
  <2> QED
    BY <2>1, <2>2
<1>4. ASSUME InsertFails(r) PROVE Outcome(r)
  <2>1. Goto(r, "again") /\ r \in failed'
    BY <1>4 DEF InsertFails
  <2> QED
    BY <2>1, QuietOutcome
<1>5. ASSUME LookAgain(r) PROVE Outcome(r)
  <2>1. CASE LookUpFails(r)
    BY <2>1, QuietOutcome
  <2>2. CASE Reply(r, IF Same(r) THEN "repeated" ELSE "conflict")
    <3>1. CASE There(r)
      BY <2>2, <3>1, RowSpeaks, QuietOutcome
    <3>2. CASE ~There(r)
      <4>1. r \in failed \/ HasRival(r)
        BY <1>5, <3>2 DEF PostInv, Settled, Posts, LookAgain
      <4>2. Reply(r, "conflict") /\ Excused(r)
        BY <2>2, <3>2, <4>1 DEF Same, Excused
      <4> QED
        BY <4>2, QuietOutcome
    <3> QED
      BY <3>1, <3>2
  <2> QED
    BY <1>5, <2>1, <2>2 DEF LookAgain
<1> QED
  BY <1>1, <1>2, <1>3, <1>4, <1>5

LEMMA CreateOutcome ==
  ASSUME CopyInv, PostInv, NEW r \in Requests, body' = body, NEW t, NEW new, NEW there, NEW taken,
         Create(r, t, new, there, taken), t \in DOMAIN new, taken => HasRival(r),
         t \in Tables \ {"users", "profiles", "subscriptions", "keys"}
  PROVE  Outcome(r)
<1>1. body[r].op = "create" /\ body[r].table = t
  BY DEF Create, Is
<1>2. LookUp(r, "parent") => Outcome(r)
  BY <1>1, StatementOutcomes
<1>3. Insert(r, new, taken) => Outcome(r)
  BY <1>1, StatementOutcomes
<1> QED
  BY <1>1, <1>2, <1>3, StatementOutcomes DEF Create

(* The POSTs of the catalog and of keys.                                   *)
LEMMA CatalogOutcome ==
  ASSUME CopyInv, PostInv, NEW r \in Requests, body' = body, CatalogNext(r), Posts(r)
  PROVE  Outcome(r)
<1>0. body[r].table \in Tables
  BY BodyColumns DEF CopyInv
<1>1. CASE AdminProviders(r)
  <2>1. body[r].op = "create" /\ body[r].table = "providers"
    BY <1>1 DEF AdminProviders, Is
  <2>2. LookUp(r, "insert") => Outcome(r)
    BY <1>0, <2>1, StatementOutcomes
  <2>3. Insert(r, BothProviderRows(body[r].row), FALSE) => Outcome(r)
    <3>1. "providers" \in DOMAIN BothProviderRows(body[r].row)
      BY DEF BothProviderRows
    <3> QED
      BY <1>0, <2>1, <3>1, StatementOutcomes
  <2> QED
    BY <1>0, <1>1, <2>1, <2>2, <2>3, StatementOutcomes DEF AdminProviders
<1>2. CASE AdminModels(r)
  <2>1. body[r].table = "models" /\ "models" \in DOMAIN [models |-> body[r].row]
    BY <1>2 DEF AdminModels, Create, Is
  <2> QED
    BY <1>0, <1>2, <2>1, CreateOutcome DEF AdminModels
<1>3. CASE AdminModelListings(r)
  <2>1. /\ body[r].table = "model_listings"
        /\ "model_listings" \in DOMAIN [model_listings |-> body[r].row]
    BY <1>3 DEF AdminModelListings, Create, Is
  <2>2. ListingTaken(r) => HasRival(r)
    <3> SUFFICES ASSUME NEW id \in DOMAIN rows.model_listings,
                        rows.model_listings[id].parent = body[r].row.parent
                 PROVE  HasRival(r)
      BY DEF ListingTaken
    <3>1. <<id, rows.model_listings[id]>> \in everHeld.model_listings
      BY <1>0, <2>1 DEF PostInv, RowsAreHeld
    <3> QED
      BY <2>1, <3>1 DEF HasRival, GizWayRival
  <2> QED
    BY <1>0, <1>3, <2>1, <2>2, CreateOutcome DEF AdminModelListings
<1> QED
  BY <1>1, <1>2, <1>3 DEF CatalogNext, Posts, AdminProviderResource, AdminModelResource,
    AdminModelListingResource, AdminModelCustomerPrices, Resource, Is

(* Other prices of the same key are other content.                         *)
LEMMA OtherPrices ==
  ASSUME PostInv, NEW r \in Requests, body[r].table = "sync", HeldSame(r),
         NEW prices, <<body[r].id, prices>> \in everListed, prices # body[r].prices
  PROVE  Excused(r)
<1>1. PICK h \in everHeld["sync"] : h[1] = body[r].id
  BY DEF HeldSame
<1>2. \E e \in {f \in everListed : f[1] = body[r].id} : e[2] # body[r].prices
  OBVIOUS
<1>3. GizWayRival(r, h[1], h[2])
  BY <1>1, <1>2 DEF GizWayRival
<1> QED
  BY <1>1, <1>3 DEF HasRival, Excused

LEMMA KeyPostOutcome ==
  ASSUME CopyInv, PostInv, NEW r \in Requests, body' = body,
         AdminProviderKeys(r) \/ CreateProviderKey(r)
  PROVE  Outcome(r)
<1> DEFINE k == body[r].id
<1>0. /\ body[r].table = "sync" /\ body[r].op \in {"create", "ownerCreate"}
      /\ body[r].table \in Tables \ {"users", "profiles", "subscriptions", "keys"}
  BY BodyColumns DEF CopyInv, AdminProviderKeys, CreateProviderKey, Is
<1>1. There(r) => /\ k \in DOMAIN lists /\ <<k, Prices(ListAt(k))>> \in everListed
                  /\ <<k, json[k]>> \in everListed
  BY <1>0 DEF PostInv, ListsAreHeld, There, Exists, ListAt
<1>2. ASSUME CompareKey(r), There(r) \/ (pc[r] = "again" /\ body[r].op = "create") PROVE Outcome(r)
  <2>1. CASE Same(r)
    BY <1>0, <1>2, <2>1, RowSpeaks, QuietOutcome DEF CompareKey, Same
  <2>2. CASE ~Same(r) /\ There(r)
    <3>1. Reply(r, "conflict") /\ Excused(r)
      BY <1>0, <1>2, <2>2, RowSpeaks DEF CompareKey
    <3> QED
      BY <3>1, QuietOutcome
  <2>3. CASE ~There(r)
    <3>1. Reply(r, "conflict")
      BY <1>2, <2>3 DEF CompareKey, Same
    <3>2. Excused(r)
      BY <1>2, <2>3 DEF PostInv, Settled, Posts, Excused
    <3> QED
      BY <3>1, <3>2, QuietOutcome
  <2> QED
    BY <2>1, <2>2, <2>3
<1>3. ASSUME There(r), ReplySame(r, SameOwnerKey(r)) PROVE Outcome(r)
  <2>1. CASE SameOwnerKey(r)
    <3>1. Reply(r, "repeated") /\ HeldSame(r)
      BY <1>0, <1>3, <2>1, RowSpeaks DEF ReplySame, SameOwnerKey
    <3> QED
      BY <3>1, QuietOutcome
  <2>2. CASE ~SameOwnerKey(r)
    <3>1. Reply(r, "conflict")
      BY <1>3, <2>2 DEF ReplySame
    <3>2. CASE ~Same(r)
      BY <1>0, <1>3, <3>1, <3>2, RowSpeaks, QuietOutcome
    <3>3. CASE Same(r)
      <4>1. json[k] # body[r].prices /\ HeldSame(r)
        BY <1>0, <1>3, <2>2, <3>3, RowSpeaks DEF SameOwnerKey
      <4>2. Excused(r)
        BY <1>0, <1>1, <1>3, <4>1, OtherPrices
      <4> QED
        BY <3>1, <4>2, QuietOutcome
    <3> QED
      BY <3>2, <3>3
  <2> QED
    BY <2>1, <2>2
<1>4. ASSUME pc[r] = "prices", ReplySame(r, SameAdminPrices(r)) PROVE Outcome(r)
  <2>1. There(r) /\ HeldSame(r)
    BY <1>0, <1>4 DEF PostInv, Settled, Posts
  <2>2. CASE SameAdminPrices(r)
    BY <1>4, <2>1, <2>2, QuietOutcome DEF ReplySame
  <2>3. CASE ~SameAdminPrices(r)
    <3>1. Reply(r, "conflict") /\ Prices(ListAt(k)) # body[r].prices
      BY <1>4, <2>3 DEF ReplySame, SameAdminPrices
    <3>2. Excused(r)
      BY <1>0, <1>1, <2>1, <3>1, OtherPrices
    <3> QED
      BY <3>1, <3>2, QuietOutcome
  <2> QED
    BY <2>2, <2>3
<1>5. ASSUME InsertKey(r) PROVE Outcome(r)
  <2> DEFINE new == KeyRows(body[r].row)
  <2>1. Insert(r, new, FALSE) /\ body[r].table \in DOMAIN new
    BY <1>0, <1>5 DEF InsertKey, KeyRows
  <2> HIDE DEF new
  <2>2. CASE There(r)
    BY <2>1, <2>2, QuietOutcome DEF Insert
  <2>3. CASE ~There(r)
    BY <1>0, <2>1, <2>3, AddedOutcome DEF Insert
  <2> QED
    BY <2>2, <2>3
<1>6. ASSUME ModelUnusable(r) PROVE Outcome(r)
  <2>1. Reply(r, "missing") \/ (Goto(r, "again") /\ body[r].op = "ownerCreate")
    BY <1>0, <1>6 DEF ModelUnusable
  <2> QED
    BY <2>1, QuietOutcome
<1>7. ASSUME InsertKeyFails(r) PROVE Outcome(r)
  <2>1. Goto(r, "again") /\ r \in failed'
    BY <1>7 DEF InsertKeyFails, InsertFails
  <2> QED
    BY <2>1, QuietOutcome
<1>8. ASSUME OwnerMerchant(r) PROVE Outcome(r)
  <2>1. Goto(r, "insert") \/ Reply(r, "error")
    BY <1>8 DEF OwnerMerchant, AskMerchant
  <2> QED
    BY <2>1, QuietOutcome
<1>9. CASE AdminProviderKeys(r)
  <2>1. body[r].op = "create"
    BY <1>9 DEF AdminProviderKeys, Is
  <2>2. \/ There(r) /\ CompareKey(r)
        \/ pc[r] = "again" /\ CompareKey(r)
        \/ pc[r] = "prices" /\ ReplySame(r, SameAdminPrices(r))
        \/ InsertKey(r) \/ ModelUnusable(r) \/ InsertKeyFails(r)
        \/ Goto(r, "parent") \/ Goto(r, "insert") \/ Reply(r, "missing") \/ LookUpFails(r)
    BY <1>9 DEF AdminProviderKeys
  <2>3. Goto(r, "parent") \/ Goto(r, "insert") \/ Reply(r, "missing") \/ LookUpFails(r) =>
          Outcome(r)
    BY QuietOutcome
  <2> QED
    BY <1>2, <1>4, <1>5, <1>6, <1>7, <2>1, <2>2, <2>3
<1>10. CASE CreateProviderKey(r)
  <2>1. \/ There(r) /\ ReplySame(r, SameOwnerKey(r))
        \/ OwnerMerchant(r) \/ InsertKey(r) \/ ModelUnusable(r) \/ InsertKeyFails(r)
        \/ Goto(r, "lookup") \/ Goto(r, "merchant") \/ Reply(r, "missing") \/ Reply(r, "error")
    BY <1>10 DEF CreateProviderKey
  <2>2. Goto(r, "lookup") \/ Goto(r, "merchant") \/ Reply(r, "missing") \/ Reply(r, "error") =>
          Outcome(r)
    BY QuietOutcome
  <2> QED
    BY <1>3, <1>5, <1>6, <1>7, <1>8, <2>1, <2>2
<1> QED
  BY <1>9, <1>10

LEMMA KeyOutcome ==
  ASSUME CopyInv, PostInv, NEW r \in Requests, body' = body, KeyNext(r), Posts(r)
  PROVE  Outcome(r)
BY CatalogOutcome, KeyPostOutcome DEF KeyNext, Posts, AdminProviderKeyResource,
  AdminProviderKeyRotateSecret, DisableProviderKey, AdminProviderKeyPrices, PutProviderKeyPrices,
  ResolveCall, Is

(* The POSTs of GizPay.                                                    *)
LEMMA InsertedOutcome ==
  ASSUME CopyInv, PostInv, NEW r \in Requests, body' = body, body[r].op = "create",
         body[r].table \in Tables \cap {"subscriptions", "keys"}
  PROVE  /\ \A next : next \notin {"again", "prices"} /\ LookUpContent(r, next) => Outcome(r)
         /\ \A taken : InsertOrAgain(r, taken) /\ (taken => HasRival(r)) => Outcome(r)
         /\ InsertErrors(r) => Outcome(r)
         /\ InsertedByOther(r) => Outcome(r)
<1>1. There(r) => /\ SameContent(r) => HeldSame(r)
                  /\ ~SameContent(r) => Excused(r)
  <2> SUFFICES ASSUME There(r)
               PROVE  /\ SameContent(r) => HeldSame(r)
                      /\ ~SameContent(r) => Excused(r)
    OBVIOUS
  <2>1. SameContent(r) = SameSent(body[r].table, Row(r), body[r].row)
    BY DEF SameContent, SameSent
  <2> QED
    BY <2>1, RowSpeaks
<1>2. ASSUME NEW next, next \notin {"again", "prices"}, LookUpContent(r, next) PROVE Outcome(r)
  <2>1. \/ Goto(r, next)
        \/ Reply(r, "repeated") /\ HeldSame(r)
        \/ Reply(r, "conflict") /\ Excused(r)
    BY <1>1, <1>2 DEF LookUpContent
  <2> QED
    BY <1>2, <2>1, QuietOutcome
<1>3. ASSUME NEW taken, InsertOrAgain(r, taken), taken => HasRival(r) PROVE Outcome(r)
  <2>1. CASE There(r) \/ taken
    BY <1>3, <2>1, QuietOutcome DEF InsertOrAgain
  <2>2. CASE ~(There(r) \/ taken)
    <3> DEFINE new == Only(body[r].table, body[r].row)
    <3>1. AddAt(body[r].id, new) /\ Reply(r, "created")
      BY <1>3, <2>2 DEF InsertOrAgain
    <3>2. body[r].table \in DOMAIN new
      BY DEF Only
    <3> HIDE DEF new
    <3> QED
      BY <2>2, <3>1, <3>2, AddedOutcome
  <2> QED
    BY <2>1, <2>2
<1>4. InsertErrors(r) => Outcome(r)
  BY QuietOutcome DEF InsertErrors
<1>5. ASSUME InsertedByOther(r) PROVE Outcome(r)
  <2>1. ~There(r) => Excused(r)
    BY <1>5 DEF PostInv, Settled, Posts, InsertedByOther, Excused
  <2>2. \/ Reply(r, IF SameContent(r) THEN "repeated" ELSE "conflict")
        \/ LookUpFails(r) \/ Reply(r, "error")
    BY <1>5, Zenon DEF InsertedByOther
  <2>3. CASE Reply(r, IF SameContent(r) THEN "repeated" ELSE "conflict")
    <3>1. \/ Reply(r, "repeated") /\ HeldSame(r)
          \/ Reply(r, "conflict") /\ Excused(r)
      BY <1>1, <2>1, <2>3 DEF SameContent
    <3> QED
      BY <3>1, QuietOutcome
  <2>4. CASE LookUpFails(r) \/ Reply(r, "error")
    BY <2>4, QuietOutcome
  <2> QED
    BY <2>2, <2>3, <2>4
<1> QED
  BY <1>2, <1>3, <1>4, <1>5

LEMMA SubscriptionOutcome ==
  ASSUME CopyInv, PostInv, NEW r \in Requests, body' = body,
         CreateSubscription(r) \/ SubscriptionKeys(r)
  PROVE  Outcome(r)
<1>0. /\ body[r].op = "create"
      /\ body[r].table \in Tables \cap {"subscriptions", "keys"}
  BY BodyColumns DEF CopyInv, CreateSubscription, SubscriptionKeys, Is
<1>1. InsertErrors(r) \/ InsertedByOther(r) => Outcome(r)
  BY <1>0, InsertedOutcome
<1>2. LookUpContent(r, "terms") \/ LookUpContent(r, "insert") => Outcome(r)
  BY <1>0, InsertedOutcome
<1>3. Goto(r, "other") \/ Goto(r, "lookup") \/ Reply(r, "missing") \/ Reply(r, "other terms")
        => Outcome(r)
  BY QuietOutcome
<1>4. CASE CreateSubscription(r)
  <2>0. body[r].table = "subscriptions"
    BY <1>4 DEF CreateSubscription, Is
  <2>1. Subscribed(r) # {} => HasRival(r)
    <3> SUFFICES ASSUME NEW s \in DOMAIN rows.subscriptions,
                        rows.subscriptions[s].owner = body[r].row.owner,
                        rows.subscriptions[s].parent = body[r].row.parent
                 PROVE  HasRival(r)
      BY DEF Subscribed
    <3>1. <<s, rows.subscriptions[s]>> \in everHeld.subscriptions
      BY <1>0, <2>0 DEF PostInv, RowsAreHeld
    <3> QED
      BY <2>0, <3>1 DEF HasRival, GizPayRival
  <2>2. InsertOrAgain(r, Subscribed(r) # {}) => Outcome(r)
    <3> DEFINE taken == Subscribed(r) # {}
    <3>1. taken => HasRival(r)
      BY <2>1
    <3> HIDE DEF taken
    <3>2. InsertOrAgain(r, taken) => Outcome(r)
      BY <1>0, <3>1, InsertedOutcome
    <3> QED
      BY <3>2 DEF taken
  <2>3. Reply(r, "conflict") /\ ~(Subscribed(r) \subseteq {body[r].id}) => Outcome(r)
    <3> SUFFICES ASSUME Reply(r, "conflict"), Subscribed(r) # {} PROVE Outcome(r)
      OBVIOUS
    <3>1. Excused(r)
      BY <2>1 DEF Excused
    <3> QED
      BY <3>1, QuietOutcome
  <2>4. \/ LookUpContent(r, "terms") \/ LookUpContent(r, "insert")
        \/ Goto(r, "other") \/ Reply(r, "missing") \/ Reply(r, "other terms")
        \/ Reply(r, "conflict") /\ ~(Subscribed(r) \subseteq {body[r].id})
        \/ InsertOrAgain(r, Subscribed(r) # {}) \/ InsertErrors(r) \/ InsertedByOther(r)
    BY <1>4, Zenon DEF CreateSubscription
  <2> QED
    BY <1>1, <1>2, <1>3, <2>2, <2>3, <2>4
<1>5. CASE SubscriptionKeys(r)
  <2>1. InsertOrAgain(r, FALSE) => Outcome(r)
    BY <1>0, InsertedOutcome
  <2>2. \/ LookUpContent(r, "insert") \/ Goto(r, "lookup") \/ Reply(r, "missing")
        \/ InsertOrAgain(r, FALSE) \/ InsertErrors(r) \/ InsertedByOther(r)
    BY <1>5, Zenon DEF SubscriptionKeys
  <2> QED
    BY <1>1, <1>2, <1>3, <2>1, <2>2
<1> QED
  BY <1>4, <1>5

LEMMA DirectoryOutcome ==
  ASSUME CopyInv, PostInv, NEW r \in Requests, body' = body, DirectoryStep(r), Posts(r)
  PROVE  Outcome(r)
<1>0. body[r].table \in Tables
  BY BodyColumns DEF CopyInv
<1>1. CASE AdminProducts(r)
  <2>1. body[r].table = "products" /\ "products" \in DOMAIN [products |-> body[r].row]
    BY <1>1 DEF AdminProducts, Create, Is
  <2> QED
    BY <1>0, <1>1, <2>1, CreateOutcome DEF AdminProducts
<1>2. CASE AdminProductListings(r)
  <2>1. /\ body[r].table = "product_listings"
        /\ "product_listings" \in DOMAIN [product_listings |-> body[r].row]
    BY <1>2 DEF AdminProductListings, Create, Is
  <2>2. ProductListingTaken(r) => HasRival(r)
    <3> SUFFICES ASSUME NEW id \in DOMAIN rows.product_listings,
                        rows.product_listings[id].parent = body[r].row.parent,
                        rows.product_listings[id].site = body[r].row.site
                 PROVE  HasRival(r)
      BY DEF ProductListingTaken
    <3>1. <<id, rows.product_listings[id]>> \in everHeld.product_listings
      BY <1>0, <2>1 DEF PostInv, RowsAreHeld
    <3> QED
      BY <2>1, <3>1 DEF HasRival, GizPayRival
  <2> QED
    BY <1>0, <1>2, <2>1, <2>2, CreateOutcome DEF AdminProductListings
<1>3. CASE AdminServicePrincipals(r)
  <2>1. body[r].table = "principals" /\ "principals" \in DOMAIN [principals |-> body[r].row]
    BY <1>3 DEF AdminServicePrincipals, Create, Is
  <2>2. SubjectTaken(r) => HasRival(r)
    <3> SUFFICES ASSUME NEW id \in DOMAIN rows.principals,
                        rows.principals[id].subject = body[r].row.subject
                 PROVE  HasRival(r)
      BY DEF SubjectTaken
    <3>1. <<id, rows.principals[id]>> \in everHeld.principals
      BY <1>0, <2>1 DEF PostInv, RowsAreHeld
    <3> QED
      BY <2>1, <3>1 DEF HasRival, GizPayRival
  <2> QED
    BY <1>0, <1>3, <2>1, <2>2, CreateOutcome DEF AdminServicePrincipals
<1>4. CASE CreateSubscription(r) \/ SubscriptionKeys(r)
  BY <1>4, SubscriptionOutcome
<1>5. ~(\/ InitializeIdentity(r) \/ Merchants(r) \/ MerchantProducts(r) \/ MerchantResource(r)
        \/ ProductResource(r) \/ AdminProductResource(r) \/ AdminProductListingResource(r)
        \/ SubscriptionResource(r) \/ RevokeSubscriptionKey(r) \/ AdminServicePrincipalResource(r)
        \/ ServiceAccounts(r) \/ RevokeServiceAccount(r))
  BY DEF Posts, InitializeIdentity, Merchants, MerchantProducts, MerchantResource, ProductResource,
    OwnerResource, AdminProductResource, AdminProductListingResource, Resource,
    SubscriptionResource, RevokeSubscriptionKey, AdminServicePrincipalResource, ServiceAccounts,
    RevokeServiceAccount, Is
<1> QED
  BY <1>1, <1>2, <1>3, <1>4, <1>5 DEF DirectoryStep, DirectoryNext

-----------------------------------------------------------------------------
(* A key is added with its list and its JSON, and only so.                 *)
LEMMA DirectoryKeepsKeys ==
  ASSUME CopyInv, NEW r \in Requests, Writes(r), DirectoryStep(r)
  PROVE  rows'.sync = rows.sync
<1>1. body[r].table # "sync"
  BY DEF DirectoryStep, DirectoryNext, InitializeIdentity, Merchants, MerchantProducts,
    MerchantResource, ProductResource, OwnerResource, AdminProducts, AdminProductResource,
    AdminProductListings, AdminProductListingResource, CreateSubscription, SubscriptionResource,
    SubscriptionKeys, RevokeSubscriptionKey, AdminServicePrincipals,
    AdminServicePrincipalResource, ServiceAccounts, RevokeServiceAccount, Create, Resource, Is
<1>2. "sync" \notin TablesOf(r) /\ "sync" \in Tables
  BY <1>1, CopiedTables DEF TablesOf, TablesThere, KeyTables
<1> QED
  BY <1>2, RowsGrow DEF CopyInv

LEMMA KeysAdded ==
  ASSUME CopyInv, NEW r \in Requests, Writes(r), KeyNext(r)
  PROVE  \/ DOMAIN rows'.sync = DOMAIN rows.sync
         \/ InsertKey(r) /\ body[r].op \in {"create", "ownerCreate"} /\ body[r].table = "sync"
<1>0. "sync" \in Tables /\ DOMAIN rows = Tables
  BY CopiedTables DEF CopyInv, TablesThere, KeyTables
<1>1. CASE body[r].table # "sync"
  <2>1. "sync" \notin TablesOf(r)
    BY <1>1 DEF TablesOf
  <2> QED
    BY <1>0, <2>1, RowsGrow
<1>2. CASE AdminProviderKeys(r) \/ CreateProviderKey(r)
  BY <1>2 DEF AdminProviderKeys, CreateProviderKey, OwnerMerchant, ModelUnusable,
    InsertKeyFails, InsertFails, LookUpFails, Stay, StayRows, Is
<1>3. CASE AdminProviderKeyPrices(r) \/ PutProviderKeyPrices(r)
  BY <1>3 DEF AdminProviderKeyPrices, PutProviderKeyPrices, CommitKeyList, Replace, TakeLock,
    CheckList, StartDelete, FinishDelete, ListFails, CommitList, Stay, StayRows
<1>4. CASE AdminProviderKeyResource(r) \/ AdminProviderKeyRotateSecret(r) \/ DisableProviderKey(r)
  <2>0. body[r].table = "sync"
    BY <1>4 DEF AdminProviderKeyResource, AdminProviderKeyRotateSecret, DisableProviderKey, Is
  <2>1. rows' = rows \/ \E new : pc[r] = "write" /\ Update(r, new)
    <3>1. ReadRow(r, "record") \/ ReadRecord(r) \/ KeyFails(r) => rows' = rows
      BY DEF ReadRow, ReadRecord, KeyFails, Stay, StayRows
    <3>2. ASSUME NEW new, UpdateKey(r, new) PROVE \E n : pc[r] = "write" /\ Update(r, n)
      BY <3>2 DEF UpdateKey
    <3>3. CASE AdminProviderKeyResource(r)
      BY <3>1, <3>2, <3>3 DEF AdminProviderKeyResource, UpdateAdminProviderKey
    <3>4. CASE AdminProviderKeyRotateSecret(r)
      BY <3>1, <3>2, <3>4 DEF AdminProviderKeyRotateSecret
    <3>5. CASE DisableProviderKey(r)
      BY <3>1, <3>2, <3>5 DEF DisableProviderKey, Stay, StayRows
    <3> QED
      BY <1>4, <3>3, <3>4, <3>5
  <2>2. ASSUME NEW new, pc[r] = "write", Update(r, new) PROVE DOMAIN rows'.sync = DOMAIN rows.sync
    <3>1. body[r].id \in DOMAIN rows.sync
      BY <2>0, <2>2 DEF CopyInv, HasRead, There, Exists
    <3>2. \/ rows'.sync = With(rows.sync, body[r].id, new["sync"])
          \/ rows'.sync = rows.sync
      BY <1>0, <2>2 DEF Update, StoreAt
    <3> QED
      BY <3>1, <3>2 DEF With
  <2> QED
    BY <2>1, <2>2
<1> QED
  BY <1>1, <1>2, <1>3, <1>4 DEF KeyNext, CatalogNext, AdminProviders, AdminProviderResource,
    AdminModels, AdminModelResource, AdminModelListings, AdminModelListingResource,
    AdminModelCustomerPrices, ResolveCall, Create, Resource, Is

(* Every list and every JSON has been listed.                              *)
LEMMA ListsStayHeld ==
  ASSUME CopyInv, PostInv, NEW r \in Requests, body' = body, Writes(r), KeyNext(r)
  PROVE  everListed \subseteq everListed' /\ ListsAreHeld'
<1> DEFINE k == body[r].id
<1>0. ListsAreHeld /\ body \in Scenarios
  BY DEF PostInv, CopyInv
<1>1. CASE UNCHANGED <<listVars, json>> /\ DOMAIN rows'.sync = DOMAIN rows.sync
  BY <1>0, <1>1 DEF ListsAreHeld, listVars
<1>2. CASE InsertKey(r) /\ body[r].op \in {"create", "ownerCreate"} /\ body[r].table = "sync"
  <2>1. CASE There(r)
    <3>1. rows' = rows /\ UNCHANGED <<listVars, json>>
      BY <1>2, <2>1 DEF InsertKey, Insert, keyVars
    <3> QED
      BY <1>1, <3>1
  <2>2. CASE ~There(r)
    <3>1. /\ lists' = With(lists, k, ListOf(r)) /\ json' = With(json, k, body[r].prices)
          /\ everListed' = everListed \cup {<<k, body[r].prices>>}
      BY <1>2, <2>2 DEF InsertKey
    <3>2. AddAt(k, KeyRows(body[r].row))
      BY <1>2, <2>2 DEF InsertKey, Insert
    <3>3. rows'.sync = With(rows.sync, k, body[r].row)
      BY <3>2, CopiedTables DEF AddAt, StoreAt, KeyRows, TablesThere, KeyTables
    <3>4. Prices(ListOf(r)) = body[r].prices
      BY <1>0, <1>2, PricesOfList
    <3>5. \A i \in DOMAIN rows'.sync : i \in DOMAIN lists' /\ i \in DOMAIN json'
      BY <1>0, <3>1, <3>3 DEF ListsAreHeld, With
    <3>6. \A o \in DOMAIN lists' : <<o, Prices(lists'[o])>> \in everListed'
      BY <1>0, <3>1, <3>4 DEF ListsAreHeld, With
    <3>7. \A i \in DOMAIN json' : <<i, json'[i]>> \in everListed'
      BY <1>0, <3>1 DEF ListsAreHeld, With
    <3>8. \A x : Prices(x)' = Prices(x)
      BY DEF Prices
    <3> QED
      BY <3>1, <3>5, <3>6, <3>7, <3>8 DEF ListsAreHeld
  <2> QED
    BY <2>1, <2>2
<1>3. CASE rows' = rows /\ PutStep(r)
  <2>1. CASE UNCHANGED <<lists, everListed, json>>
    BY <1>0, <1>3, <2>1 DEF ListsAreHeld, Prices
  <2>2. CASE CommitList(r) /\ json' \in {json, With(json, k, body[r].prices)}
    <3>1. /\ lists' = With(lists, k, Replaced(r))
          /\ everListed' = everListed \cup {<<k, Prices(Replaced(r))>>, <<k, body[r].prices>>}
      BY <2>2 DEF CommitList
    <3>2. \A i \in DOMAIN rows'.sync : i \in DOMAIN lists' /\ i \in DOMAIN json'
      BY <1>0, <1>3, <2>2, <3>1 DEF ListsAreHeld, With
    <3>3. \A o \in DOMAIN lists' : <<o, Prices(lists'[o])>> \in everListed'
      BY <1>0, <3>1 DEF ListsAreHeld, With
    <3>4. \A i \in DOMAIN json' : <<i, json'[i]>> \in everListed'
      BY <1>0, <2>2, <3>1 DEF ListsAreHeld, With
    <3> QED
      BY <3>1, <3>2, <3>3, <3>4 DEF ListsAreHeld, Prices
  <2> QED
    BY <1>3, <2>1, <2>2 DEF PutStep, listVars, TakeLock, StartDelete, FinishDelete, ListFails,
      CheckList
<1>4. CASE DOMAIN rows'.sync = DOMAIN rows.sync
  <2>1. ListStep(r)
    BY ListSteps
  <2> QED
    BY <1>1, <1>2, <1>3, <1>4, <2>1, Zenon DEF ListStep
<1> QED
  BY <1>2, <1>4, KeysAdded

LEMMA PostInvInit == Init => PostInv
<1> SUFFICES ASSUME Init PROVE PostInv
  OBVIOUS
<1>1. /\ rows = Seed /\ lists = SeedLists
      /\ answer = [r \in Requests |-> "none"] /\ pc = [r \in Requests |-> "sent"]
      /\ everHeld = [t \in Tables |-> {<<id, Seed[t][id]>> : id \in DOMAIN Seed[t]}]
      /\ everListed = {<<o, Prices(SeedLists[o])>> : o \in DOMAIN SeedLists}
      /\ json = [k \in DOMAIN Seed.sync |-> Prices(SeedLists[k])]
  BY DEF Init, RowsInit, CatalogInit, KeysInit
<1>2. RowsAreHeld
  BY <1>1 DEF RowsAreHeld
<1>3. ListsAreHeld
  BY <1>1, KeysAssumption DEF ListsAreHeld
<1>4. CreatedOnce
  BY <1>1 DEF CreatedOnce
<1>5. \A r \in Requests : Settled(r)
  BY <1>1 DEF Settled
<1> QED
  BY <1>1, <1>2, <1>3, <1>4, <1>5 DEF PostInv

LEMMA PostStep ==
  ASSUME CopyInv, PostInv, NEW r \in Requests, Step(r)
  PROVE  PostInv'
<1>1. body' = body /\ MovesOn(r) /\ Writes(r)
  BY KeyMoves, DirectoryMoves, KeyWrites, DirectoryWrites, ReadFailsIsQuiet DEF Step, Writes
<1>2. CASE KeyNext(r)
  <2>1. Effect(r)
    BY <1>1, <1>2, KeyEffects
  <2>2. Posts(r) => Outcome(r)
    BY <1>1, <1>2, KeyOutcome
  <2>3. everListed \subseteq everListed' /\ ListsAreHeld'
    BY <1>1, <1>2, ListsStayHeld
  <2> QED
    BY <1>1, <2>1, <2>2, <2>3, PostsStaySettled
<1>3. CASE DirectoryStep(r) /\ UNCHANGED <<listVars, keyVars>>
  <2>1. Effect(r)
    BY <1>1, <1>3, DirectoryEffects
  <2>2. Posts(r) => Outcome(r)
    BY <1>1, <1>3, DirectoryOutcome
  <2>3. rows'.sync = rows.sync
    BY <1>1, <1>3, DirectoryKeepsKeys
  <2>4. everListed \subseteq everListed' /\ ListsAreHeld'
    BY <1>3, <2>3 DEF PostInv, ListsAreHeld, Prices, listVars, keyVars
  <2> QED
    BY <1>1, <2>1, <2>2, <2>4, PostsStaySettled
<1>4. CASE ReadFails(r)
  <2>1. Reply(r, "error") /\ UNCHANGED <<rows, historyVars, failed, listVars, keyVars>>
    BY <1>4, ReadFailsIsQuiet
  <2>2. Effect(r)
    BY <2>1 DEF Effect
  <2>3. Outcome(r)
    BY <2>1, QuietOutcome
  <2>4. everListed \subseteq everListed' /\ ListsAreHeld'
    BY <2>1 DEF PostInv, ListsAreHeld, Prices, listVars, keyVars
  <2> QED
    BY <1>1, <2>2, <2>3, <2>4, PostsStaySettled
<1> QED
  BY <1>2, <1>3, <1>4 DEF Step

LEMMA PostsAreKept == Spec => []PostInv
<1>1. PostInv /\ UNCHANGED vars => PostInv'
  BY DEF vars, rowVars, listVars, keyVars, PostInv, RowsAreHeld, ListsAreHeld, CreatedOnce,
    Settled, Excused, HeldSame, HeldOther, HasRival, GizWayRival, GizPayRival, Posts, Requests,
    There, Exists, Prices
<1>2. CopyInv /\ PostInv /\ [Next]_vars => PostInv'
  BY <1>1, PostStep DEF Next, Finished
<1> QED
  BY <1>2, PostInvInit, CopiesAreKept, PTL DEF Spec

(* A POST may be repeated while it runs: it creates its row at most once,  *)
(* "repeated" is the answer to content that the row has had, and a         *)
(* conflict has a reason: other content, a row with the same unique        *)
(* columns, or a statement of its own that failed: the INSERT, or a        *)
(* look-up that compares the row with what was sent.                       *)
THEOREM PostsAlwaysSettle == Spec => []PostsSettle
<1>1. ASSUME CopyInv, PostInv PROVE PostsSettle
  <2>1. ASSUME NEW t, NEW id
        PROVE  Cardinality({r \in Creates(t, id) : answer[r] = "created"}) <= 1
    <3> DEFINE S == {r \in Creates(t, id) : answer[r] = "created"}
    <3>1. \A r, q \in S : r = q
      BY <1>1 DEF PostInv, CreatedOnce, Creates, Posts
    <3>2. S = {} \/ \E r : S = {r}
      BY <3>1
    <3>3. Cardinality(S) = 0 \/ Cardinality(S) = 1
      BY <3>2, FS_EmptySet, FS_Singleton, Zenon
    <3> QED
      BY <3>3
  <2>2. ASSUME NEW t \in Tables, NEW id, NEW r \in Creates(t, id)
        PROVE  /\ answer[r] = "repeated" =>
                    \E h \in everHeld[t] : h[1] = id /\ SameSent(t, h[2], body[r].row)
               /\ answer[r] = "conflict" =>
                    \/ r \in failed
                    \/ \E h \in everHeld[t] :
                         \/ h[1] = id /\ ~SameSent(t, h[2], body[r].row)
                         \/ GizWayRival(r, h[1], h[2]) \/ GizPayRival(r, h[1], h[2])
    <3>1. r \in Requests /\ Posts(r) /\ body[r].table = t /\ body[r].id = id
      BY DEF Creates, Posts
    <3>2. /\ answer[r] = "repeated" => HeldSame(r)
          /\ answer[r] = "conflict" => Excused(r)
      BY <1>1, <3>1 DEF PostInv, Settled
    <3> QED
      BY <3>1, <3>2 DEF Excused, HeldSame, HeldOther, HasRival
  <2> QED
    BY <2>1, <2>2 DEF PostsSettle, CreatesSettle
<1> QED
  BY <1>1, CopiesAreKept, PostsAreKept, PTL
=============================================================================
