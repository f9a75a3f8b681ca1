--------------------------- MODULE Administration ----------------------------
(***************************************************************************)
(* The administration of both services together: GizPay's directory, and   *)
(* GizWay's catalog and provider keys, whose owners' merchants GizWay asks *)
(* GizPay for.  Each step is a statement or a transaction of one request.  *)
(***************************************************************************)
EXTENDS ProviderKeys

vars == <<rowVars, listVars, keyVars, alive, offSince>>

Init == RowsInit /\ CatalogInit /\ KeysInit /\ DirectoryInit

\* What a request must look up, lock or insert first cannot be, also because the
\* client has gone: an internal error, or the handler takes it for not there.
ReadFails(r) ==
  /\ pc[r] \in {"sent", "parent", "lookup", "terms", "other", "requested", "user", "keys",
               "each", "lock", "insertFresh"}
  /\ Reply(r, "error")
  /\ Stay

Step(r) ==
  /\ \/ KeyNext(r) /\ StayAlive
     \/ DirectoryStep(r) /\ UNCHANGED <<listVars, keyVars>>
     \/ ReadFails(r) /\ StayAlive
  /\ WatchKeys(r)
  /\ UNCHANGED body

Finished == AllAnswered /\ UNCHANGED vars

Next == (\E r \in Requests : Step(r)) \/ Finished

Spec == Init /\ [][Next]_vars

-----------------------------------------------------------------------------
(* POSTs settle in both services, whatever is repeated or runs at once:    *)
(* CreatesSettle of Rows says what "created", "repeated" and "conflict"    *)
(* promise; the rivals of a row hold one of its UNIQUE columns.            *)
PostsSettle ==
  CreatesSettle(LAMBDA r, id, row : GizWayRival(r, id, row) \/ GizPayRival(r, id, row))
=============================================================================
