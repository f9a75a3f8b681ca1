--------------------------- MODULE MCAdministration ---------------------------
(* Administration for TLC: a user with two merchants, a product, a         *)
(* subscription, a key and two principals in GizPay; a provider, a model   *)
(* and a provider key in GizWay; and every three requests of each group    *)
(* of requests that concern each other, also the same request twice.       *)
EXTENDS Administration, TLC

(* The rows of GizPay.                                                     *)
MerchantRow(owner, name, default) == [owner |-> owner, name |-> name, status |-> "on",
                                      default |-> default]
ProductRow(name) == [parent |-> "m1", name |-> name, status |-> "on", published |-> TRUE,
                     terms |-> "v1"]
ListingRow(site, name) == [parent |-> "pr1", site |-> site, name |-> name, status |-> "on"]
SubscriptionRow(owner) == [parent |-> "pr1", owner |-> owner, terms |-> "v1", status |-> "on"]
SubscriptionKeyRow(name) == [parent |-> "s1", name |-> name, status |-> "on"]
PrincipalRow(subject, key) == [owner |-> "ann", subject |-> subject, name |-> "n",
                               roles |-> "charge", key |-> key, status |-> "on"]

(* The rows of GizWay.                                                     *)
On(parent, name) == [parent |-> parent, name |-> name, status |-> "on"]
ProviderKeyRow(owner, secret) == [parent |-> "p1", owner |-> owner, name |-> "n",
                                  status |-> "on", secret |-> secret]
Price(metric, amount) == [item |-> <<"m1", metric>>, price |-> amount]

SeedRows ==
  [users |-> "ann" :> [name |-> "a"], profiles |-> "ann" :> [name |-> "a", merchant |-> "m1"],
   merchants |-> "m1" :> MerchantRow("ann", "a", TRUE) @@ "m2" :> MerchantRow("ann", "a", FALSE),
   products |-> "pr1" :> ProductRow("p"), product_listings |-> "l0" :> ListingRow("none", "l"),
   subscriptions |-> "s1" :> SubscriptionRow("ann"), keys |-> "k1" :> SubscriptionKeyRow("k"),
   principals |-> "sp1" :> PrincipalRow("x1", "c1") @@ "sp2" :> PrincipalRow("x2", "none"),
   providers |-> "p1" :> On("none", "n"), sync_providers |-> "p1" :> On("none", "n"),
   models |-> "m1" :> On("p1", "n"), model_listings |-> "l0" :> On("m0", "n"),
   bifrost |-> "k1" :> BifrostRow(ProviderKeyRow("ann", "s")),
   billing |-> "k1" :> BillingRow(ProviderKeyRow("ann", "s")),
   sync |-> "k1" :> ProviderKeyRow("ann", "s")]
NewIDs == <<"new1", "new2", "new3">>
SeedPrices == LET seed == {[item |-> <<"m1", "in">>, price |-> 1, by |-> 0]} IN
              [m1 |-> seed, k1 |-> seed]

(* Requests.                                                               *)
Post(op, t, id, row) == [op |-> op, table |-> t, id |-> id, row |-> row]
Patch(t, id, set)    == [op |-> "patch", table |-> t, id |-> id, set |-> set]
Delete(t, id, off)   == [op |-> "delete", table |-> t, id |-> id, set |-> [status |-> off]]
Own(op, t, id, owner, set) == [op |-> op, table |-> t, id |-> id, owner |-> owner, set |-> set]
Put(op, t, id, ps)   == [op |-> op, table |-> t, id |-> id, owner |-> "ann", prices |-> ps]
NewName == [name |-> "z"]
Off     == [status |-> "off"]
Switched == [status |-> "on"]
Revoked == [status |-> "revoked"]

Initialize(i, want) == [op |-> "initialize", table |-> "users", id |-> i, want |-> want, name |-> "b"]
Subscribe(id, owner) == Post("create", "subscriptions", id, SubscriptionRow(owner))
PostProduct(name) == Post("create", "products", "pr2", ProductRow(name))
MerchantProduct(owner) == [op |-> "post", table |-> "products", id |-> "none", owner |-> owner,
                           row |-> ProductRow("q")]
PostSubscriptionKey(id, name, owner) ==
  [op |-> "create", table |-> "keys", id |-> id, owner |-> owner, row |-> SubscriptionKeyRow(name)]
PostPrincipal(id) == Post("create", "principals", id, PrincipalRow("x3", "none"))
RevokePrincipal(p) == Own("revoke", "principals", p, "ann", Revoked)
PostProvider(name) == Post("create", "providers", "p2", On("none", name))
PostModel    == Post("create", "models", "m2", On("p2", "a"))
PostListing(l) == Post("create", "model_listings", l, On("m1", "a"))
PostKeyAs(op, owner) ==
  [op |-> op, table |-> "sync", id |-> "k2", row |-> ProviderKeyRow(owner, "t"),
   prices |-> {Price("in", 1)}]
Disable(owner) == Own("disable", "sync", "k1", owner, Off)
Rotate  == Own("rotate", "sync", "k1", "ann", [secret |-> "u"])
Resolve == [op |-> "resolve", table |-> "models", id |-> "m1"]

Triples(g) == LET D == DOMAIN g IN
  {<<g[t[1]], g[t[2]], g[t[3]]>> : t \in {u \in D \X D \X D : u[1] <= u[2] /\ u[2] <= u[3]}}

GizPayGroups ==
  Triples(<<Initialize("bob", "any"), Initialize("bob", "m5"), Initialize("bob", "m6"),
            Initialize("cat", "m5"), Initialize("ann", "m2")>>)
  \cup Triples(<<Own("ownerPatch", "merchants", "m1", "ann", NewName),
                 Own("ownerPatch", "merchants", "m1", "ann", Off),
                 Own("ownerPatch", "merchants", "m1", "bob", NewName)>>)
  \cup Triples(<<Own("ownerPatch", "merchants", "m2", "ann", NewName),
                 Own("ownerPatch", "merchants", "m2", "ann", Off), Initialize("ann", "m2")>>)
  \cup Triples(<<Post("post", "merchants", "none", MerchantRow("bob", "q", FALSE)),
                 MerchantProduct("bob"), MerchantProduct("ann"), Initialize("bob", "any")>>)
  \cup Triples(<<PostProduct("a"), PostProduct("b"), Patch("products", "pr2", [published |-> FALSE]),
                 Delete("products", "pr2", "off")>>)
  \cup Triples(<<Own("ownerPatch", "products", "pr1", "ann", NewName),
                 Own("ownerPatch", "products", "pr1", "ann", Off),
                 Own("ownerPatch", "products", "pr1", "bob", NewName),
                 Patch("products", "pr1", [terms |-> "v2"]), Delete("products", "pr1", "off"),
                 Subscribe("s2", "bob")>>)
  \cup Triples(<<Post("create", "product_listings", "l1", ListingRow("web", "a")),
                 Post("create", "product_listings", "l2", ListingRow("web", "a")),
                 Patch("product_listings", "l0", NewName), Delete("product_listings", "l0", "off")>>)
  \cup Triples(<<Subscribe("s2", "bob"), Subscribe("s3", "bob"), Subscribe("s2", "cat")>>)
  \cup Triples(<<Own("ownerPatch", "subscriptions", "s1", "ann", Off),
                 PostSubscriptionKey("k2", "a", "ann"), PostSubscriptionKey("k2", "b", "ann"),
                 Own("revoke", "keys", "k1", "ann", Revoked)>>)
  \cup Triples(<<RevokePrincipal("sp1"), Delete("principals", "sp1", "revoked"),
                 Patch("principals", "sp1", NewName), RevokePrincipal("sp2")>>)
  \cup Triples(<<PostPrincipal("sp3"), PostPrincipal("sp4"),
                 Patch("principals", "sp2", [roles |-> "check"])>>)
  \cup {<<Post("post", "principals", "none", PrincipalRow("new", "none")), PostPrincipal("sp3")>>,
        <<Own("ownerPatch", "subscriptions", "s1", "bob", Off), PostSubscriptionKey("k3", "a", "bob"),
          Own("revoke", "keys", "k1", "bob", Revoked)>>}

GizWayGroups ==
  Triples(<<PostProvider("a"), PostProvider("b"), Patch("providers", "p2", NewName), PostModel>>)
  \cup Triples(<<Patch("providers", "p1", NewName), Patch("providers", "p1", Off),
                 Delete("providers", "p1", "off"), PostKeyAs("ownerCreate", "ann")>>)
  \cup Triples(<<Patch("models", "m1", NewName), Patch("models", "m1", Off),
                 Delete("models", "m1", "off"), Resolve>>)
  \cup Triples(<<PostListing("l1"), PostListing("l2"), Patch("model_listings", "l0", NewName),
                 Delete("model_listings", "l0", "off")>>)
  \cup Triples(<<Put("put", "models", "m1", {Price("in", 2)}),
                 Put("put", "models", "m1", {Price("in", 3), Price("out", 3)}), Resolve>>)
  \cup Triples(<<PostKeyAs("create", "ann"), PostKeyAs("ownerCreate", "ann"),
                 PostKeyAs("ownerCreate", "bob"), Put("put", "sync", "k2", {Price("in", 5)})>>)
  \cup Triples(<<Patch("sync", "k1", NewName), Patch("sync", "k1", Switched),
                 Delete("sync", "k1", "off"), Rotate, Disable("ann")>>)
  \cup Triples(<<Disable("ann"), Rotate, Resolve>>)
  \cup Triples(<<Put("put", "sync", "k1", {Price("in", 2)}), Put("put", "sync", "k1", {Price("out", 3)}),
                 Put("ownerPut", "sync", "k1", {Price("out", 5)}), Resolve>>)
  \cup {<<Delete("models", "m1", "off"), PostKeyAs("create", "ann"), PostKeyAs("ownerCreate", "ann")>>,
        <<Post("create", "models", "m2", On("p1", "a")), Put("put", "models", "m2", {Price("in", 2)}),
          [Resolve EXCEPT !.id = "m2"]>>,
        <<Patch("providers", "p1", Off), Resolve, PostModel>>, <<Disable("bob"), Resolve>>,
        <<Put("put", "models", "m9", {Price("in", 2)}), Delete("models", "m1", "off")>>,
        <<Put("put", "sync", "k9", {Price("in", 2)}), Put("ownerPut", "sync", "k9", {Price("in", 2)})>>}

(* An owner's first key while the owner's account is being set up.         *)
BothGroups == Triples(<<Initialize("bob", "any"), PostKeyAs("ownerCreate", "bob"),
                        Post("post", "merchants", "none", MerchantRow("bob", "q", FALSE))>>)

Groups == GizPayGroups \cup GizWayGroups \cup BothGroups

(* Two deliveries of the webhook for one user and one merchant.            *)
TwoDeliveries == {<<Initialize("bob", "m5"), Initialize("bob", "m5")>>}
=============================================================================
