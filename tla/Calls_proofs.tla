---------------------------- MODULE Calls_proofs -----------------------------
(***************************************************************************)
(* What Calls guarantees about orders, logs and client secrets, for every  *)
(* set of calls, sessions, keys and ratings.                               *)
(***************************************************************************)
EXTENDS Calls, TLAPS

-----------------------------------------------------------------------------
(* The money and the log of one call.                                      *)

Places == {"provider", "open", "accept", "poll", "read", "write", "mark", "rate",
           "consume", "complete", "log", "done", "lost"}
Before == {"provider", "open", "accept"}
During == {"poll", "read", "write", "mark", "rate", "consume", "complete", "log"}
Unbilled == Before \cup {"poll", "read", "write", "mark", "rate", "consume"}

CallTypes ==
  /\ pc \in [AllCalls -> Places]
  /\ entry \in [AllCalls -> {"none", "error", "success"}]
  /\ bill \in [AllCalls -> [gross : Nat, commission : Nat]]
  /\ consumed \in [AllCalls -> Nat]
  /\ orders \in [AllCalls -> {"none", "pending", "billing_failed"}]
  /\ logs \in [AllCalls -> Seq({"error", "success", "lost"})]
  /\ outbox \subseteq AllCalls /\ called \subseteq AllCalls

Paid(c) ==
  /\ consumed[c] \in {0, bill[c].gross}
  /\ orders[c] # "none" => bill[c].gross > 0 /\ consumed[c] = bill[c].gross
  /\ orders[c] = "pending" <=> c \in outbox
  /\ c \in outbox => bill[c].commission <= bill[c].gross
  /\ pc[c] \in Unbilled => consumed[c] = 0 /\ orders[c] = "none"
  /\ pc[c] = "complete" => consumed[c] = bill[c].gross /\ orders[c] = "none"
  /\ pc[c] = "log" /\ entry[c] = "error" => consumed[c] = 0 /\ orders[c] = "none"

Logged(c) ==
  /\ pc[c] \in Before => c \notin called
  /\ pc[c] \in During => c \in called
  /\ pc[c] \notin {"done", "lost"} => logs[c] = <<>>
  /\ pc[c] = "log" => entry[c] \in {"error", "success"}
  /\ pc[c] = "done" => Len(logs[c]) = (IF c \in called THEN 1 ELSE 0)
  /\ Len(logs[c]) <= 1
  /\ logs[c] = <<"error">> => consumed[c] = 0 /\ orders[c] = "none"

CallInv == CallTypes /\ \A c \in AllCalls : Paid(c) /\ Logged(c)

(* What a step may leave of a call as it was.                              *)
Same(c) ==
  /\ pc'[c] = pc[c] /\ entry'[c] = entry[c] /\ bill'[c] = bill[c]
  /\ consumed'[c] = consumed[c] /\ orders'[c] = orders[c] /\ logs'[c] = logs[c]
  /\ (c \in outbox' <=> c \in outbox) /\ (c \in called' <=> c \in called)

callState == <<pc, entry, bill, consumed, orders, logs, outbox, called>>

(* A step of one call leaves the others alone.                             *)
LEMMA OneCall ==
  ASSUME CallInv, CallTypes', NEW c \in AllCalls,
         \A d \in AllCalls \ {c} : Same(d), Paid(c)', Logged(c)'
  PROVE  CallInv'
<1>1. ASSUME NEW d \in AllCalls PROVE Paid(d)' /\ Logged(d)'
  <2>1. CASE d = c  BY <2>1
  <2>2. CASE d # c
    <3>1. Same(d) /\ Paid(d) /\ Logged(d)  BY <2>2 DEF CallInv
    <3>2. Paid(d)'    BY <3>1 DEF Same, Paid
    <3>3. Logged(d)'  BY <3>1 DEF Same, Logged
    <3> QED  BY <3>2, <3>3
  <2> QED  BY <2>1, <2>2
<1> QED  BY <1>1 DEF CallInv

(* A step that touches no call keeps the invariant.                        *)
LEMMA NoCall == CallInv /\ UNCHANGED callState => CallInv'
BY DEF CallInv, CallTypes, Paid, Logged, callState

(* Nothing is consumed, stored or logged when a run starts.                *)
LEMMA CallInit == Init => CallInv
<1> SUFFICES ASSUME Init PROVE CallInv  OBVIOUS
<1>1. CallTypes  BY DEF Init, CallTypes, Places, Free
<1>2. ASSUME NEW c \in AllCalls PROVE Paid(c) /\ Logged(c)
  <2>1. /\ pc[c] \in {"done", "open", "provider"} /\ consumed[c] = 0
        /\ orders[c] = "none" /\ c \notin outbox /\ c \notin called /\ logs[c] = <<>>
        /\ bill[c] = Free
    BY DEF Init
  <2> QED  BY <2>1 DEF Paid, Logged, Before, During, Unbilled, Free
<1> QED  BY <1>1, <1>2 DEF CallInv

(* A call that gives up before its usage was consumed will be logged as an *)
(* error: it keeps the invariant if it has reached the provider.           *)
LEMMA GivingUp ==
  ASSUME CallInv, NEW c \in AllCalls, Fail(c),
         pc[c] \in Unbilled,
         called' = called \cup {c},
         UNCHANGED <<bill, consumed, orders, logs, outbox>>
  PROVE  CallInv'
<1> USE DEF CallInv
<1>1. CallTypes'  BY DEF CallTypes, Fail, Goto, Places
<1>2. \A d \in AllCalls \ {c} : Same(d)  BY DEF CallTypes, Same, Fail, Goto
<1>3. /\ pc'[c] = "log" /\ entry'[c] = "error" /\ c \in called' /\ logs[c] = <<>>
      /\ consumed[c] = 0 /\ orders[c] = "none" /\ c \notin outbox
  BY DEF CallTypes, Fail, Goto, Paid, Logged, Unbilled, Before
<1>4. Paid(c)'  BY <1>3 DEF CallTypes, Paid, Unbilled, Before
<1>5. Logged(c)'  BY <1>3 DEF CallTypes, Logged, Before, During
<1> QED  BY <1>1, <1>2, <1>4, <1>5, OneCall

(* A call that goes on without being billed yet keeps the invariant.       *)
LEMMA GoingOn ==
  ASSUME CallInv, NEW c \in AllCalls, NEW x,
         pc' = [pc EXCEPT ![c] = x],
         pc[c] \in Before \cup {"poll", "read", "write", "mark"},
         x \in {"poll", "read", "write", "mark", "rate"},
         called' = called \cup {c},
         UNCHANGED <<entry, bill, consumed, orders, logs, outbox>>
  PROVE  CallInv'
<1> USE DEF CallInv
<1>1. CallTypes'  BY DEF CallTypes, Places
<1>2. \A d \in AllCalls \ {c} : Same(d)  BY DEF CallTypes, Same
<1>3. /\ pc'[c] = x /\ c \in called' /\ logs[c] = <<>>
      /\ consumed[c] = 0 /\ orders[c] = "none" /\ c \notin outbox
  BY DEF CallTypes, Paid, Logged, Unbilled, Before
<1>4. Paid(c)'  BY <1>3 DEF CallTypes, Paid, Unbilled, Before
<1>5. Logged(c)'  BY <1>3 DEF CallTypes, Logged, Before, During
<1> QED  BY <1>1, <1>2, <1>4, <1>5, OneCall

(* A socket that waits, or is turned away, has reached no provider.        *)
LEMMA NotCalled ==
  ASSUME CallInv, NEW c \in AllCalls, NEW x,
         pc' = [pc EXCEPT ![c] = x],
         pc[c] \in {"open", "accept"}, x \in {"accept", "done"},
         UNCHANGED <<entry, bill, consumed, orders, logs, outbox, called>>
  PROVE  CallInv'
<1> USE DEF CallInv
<1>1. CallTypes'  BY DEF CallTypes, Places
<1>2. \A d \in AllCalls \ {c} : Same(d)  BY DEF CallTypes, Same
<1>3. /\ pc'[c] = x /\ c \notin called' /\ logs[c] = <<>>
      /\ consumed[c] = 0 /\ orders[c] = "none" /\ c \notin outbox
  BY DEF CallTypes, Paid, Logged, Unbilled, Before
<1>4. Paid(c)'  BY <1>3 DEF CallTypes, Paid, Unbilled, Before
<1>5. Logged(c)'  BY <1>3 DEF CallTypes, Logged, Before, During
<1> QED  BY <1>1, <1>2, <1>4, <1>5, OneCall

(* Rating and consumption: the quota is consumed by what was rated.        *)
LEMMA RatedKeeps == ASSUME CallInv, NEW c \in AllCalls, Rated(c) PROVE CallInv'
<1> USE DEF CallInv
<1>1. PICK rating \in Ratings : bill' = [bill EXCEPT ![c] = rating]  BY DEF Rated
<1>2. rating \in [gross : Nat, commission : Nat]  BY RatingsAreCosts
<1>3. /\ pc[c] = "rate" /\ pc' = [pc EXCEPT ![c] = "consume"]
      /\ UNCHANGED <<entry, called, orders, outbox, consumed, logs>>
  BY DEF Rated, At, Goto, billVars
<1>4. CallTypes'  BY <1>1, <1>2, <1>3 DEF CallTypes, Places
<1>5. \A d \in AllCalls \ {c} : Same(d)  BY <1>1, <1>3 DEF CallTypes, Same
<1>6. /\ pc'[c] = "consume" /\ c \in called /\ logs[c] = <<>>
      /\ consumed[c] = 0 /\ orders[c] = "none" /\ c \notin outbox
  BY <1>3 DEF CallTypes, Paid, Logged, Unbilled, During
<1>7. Paid(c)'  BY <1>3, <1>6 DEF CallTypes, Paid, Unbilled, Before
<1>8. Logged(c)'  BY <1>3, <1>6 DEF CallTypes, Logged, Before, During
<1> QED  BY <1>4, <1>5, <1>7, <1>8, OneCall

(* ConsumeLocalCredit takes the gross amount once, since nothing was taken *)
(* before.                                                                 *)
LEMMA ConsumeKeeps ==
  ASSUME CallInv, NEW c \in AllCalls, ConsumeLocalCredit(c) PROVE CallInv'
<1> USE DEF CallInv
<1>1. /\ pc[c] = "consume" /\ pc' = [pc EXCEPT ![c] = "complete"]
      /\ consumed' = [consumed EXCEPT ![c] = @ + bill[c].gross]
      /\ UNCHANGED <<entry, called, orders, outbox, bill, logs>>
  BY DEF ConsumeLocalCredit, At, Goto
<1>2. consumed[c] = 0 /\ consumed[c] + bill[c].gross = bill[c].gross /\ bill[c].gross \in Nat
  BY <1>1 DEF CallTypes, Paid, Unbilled
<1>3. CallTypes'  BY <1>1, <1>2 DEF CallTypes, Places
<1>4. \A d \in AllCalls \ {c} : Same(d)  BY <1>1 DEF CallTypes, Same
<1>5. /\ pc'[c] = "complete" /\ c \in called /\ logs[c] = <<>>
      /\ consumed'[c] = bill[c].gross /\ orders[c] = "none" /\ c \notin outbox
  BY <1>1, <1>2 DEF CallTypes, Paid, Logged, Unbilled, During
<1>6. Paid(c)'  BY <1>1, <1>5 DEF CallTypes, Paid, Unbilled, Before
<1>7. Logged(c)'  BY <1>1, <1>5 DEF CallTypes, Logged, Before, During
<1> QED  BY <1>3, <1>4, <1>6, <1>7, OneCall

(* completeCall stores at most one order, for what has been consumed.      *)
LEMMA CompleteKeeps ==
  ASSUME CallInv, NEW c \in AllCalls, CompleteCall(c) PROVE CallInv'
<1> USE DEF CallInv
<1>1. /\ pc[c] = "complete" /\ pc' = [pc EXCEPT ![c] = "log"]
      /\ entry' = [entry EXCEPT ![c] = "success"]
      /\ UNCHANGED <<called, consumed, bill, logs>>
  BY DEF CompleteCall, At, Goto
<1>2. /\ c \in called /\ logs[c] = <<>> /\ consumed[c] = bill[c].gross
      /\ orders[c] = "none" /\ c \notin outbox
  BY <1>1 DEF CallTypes, Paid, Logged, During
<1>3. \/ /\ bill[c].gross > 0 /\ bill[c].commission > bill[c].gross
         /\ orders' = [orders EXCEPT ![c] = "billing_failed"] /\ outbox' = outbox
      \/ /\ bill[c].gross > 0 /\ ~(bill[c].commission > bill[c].gross)
         /\ orders' = [orders EXCEPT ![c] = "pending"] /\ outbox' = outbox \cup {c}
      \/ UNCHANGED <<orders, outbox>>
  BY DEF CompleteCall, StoreOrder
<1>4. CallTypes'  BY <1>1, <1>3 DEF CallTypes, Places
<1>5. \A d \in AllCalls \ {c} : Same(d)  BY <1>1, <1>3 DEF CallTypes, Same
<1>6. pc'[c] = "log" /\ entry'[c] = "success"  BY <1>1 DEF CallTypes
<1>7. bill[c].gross \in Nat /\ bill[c].commission \in Nat  BY DEF CallTypes
<1>8. Paid(c)'  BY <1>1, <1>2, <1>3, <1>6, <1>7 DEF CallTypes, Paid, Unbilled, Before
<1>9. Logged(c)'  BY <1>1, <1>2, <1>6 DEF CallTypes, Logged, Before, During
<1> QED  BY <1>4, <1>5, <1>8, <1>9, OneCall

(* The one log of a call is what its handler decided, or it is lost.       *)
LEMMA RecordKeeps ==
  ASSUME CallInv, NEW c \in AllCalls, RecordExecution(c) PROVE CallInv'
<1> USE DEF CallInv
<1>1. /\ pc[c] = "log" /\ pc' = [pc EXCEPT ![c] = "done"]
      /\ UNCHANGED <<called, consumed, bill, orders, outbox, entry>>
  BY DEF RecordExecution, At, Goto, billVars
<1>2. PICK line \in {entry[c], "lost"} : logs' = [logs EXCEPT ![c] = Append(@, line)]
  BY DEF RecordExecution
<1>3. c \in called /\ logs[c] = <<>> /\ entry[c] \in {"error", "success"}
  BY <1>1 DEF CallTypes, Logged, During
<1>4. line \in {"error", "success", "lost"}  BY <1>2, <1>3
<1>5. logs'[c] = <<line>> /\ Len(logs'[c]) = 1
  BY <1>2, <1>3, <1>4 DEF CallTypes
<1>6. CallTypes'  BY <1>1, <1>2, <1>4 DEF CallTypes, Places
<1>7. \A d \in AllCalls \ {c} : Same(d)  BY <1>1, <1>2 DEF CallTypes, Same
<1>8. pc'[c] = "done"  BY <1>1 DEF CallTypes
<1>9. Paid(c)'  BY <1>1, <1>8 DEF CallTypes, Paid, Unbilled, Before
<1>10. logs'[c] = <<"error">> => consumed[c] = 0 /\ orders[c] = "none"
  <2>1. logs'[c] = <<"error">> => line = "error"  BY <1>5
  <2>2. line = "error" => entry[c] = "error"  BY <1>2
  <2> QED  BY <2>1, <2>2, <1>1 DEF Paid
<1>11. Logged(c)'  BY <1>1, <1>3, <1>5, <1>8, <1>10 DEF Logged, Before, During
<1> QED  BY <1>6, <1>7, <1>9, <1>11, OneCall

(* A crash leaves what was stored and logged as it was.                    *)
LEMMA CrashKeeps == CallInv /\ Crash => CallInv'
<1> SUFFICES ASSUME CallInv, Crash PROVE CallInv'  OBVIOUS
<1>1. /\ pc' = [c \in AllCalls |-> IF pc[c] = "done" THEN "done" ELSE "lost"]
      /\ UNCHANGED <<entry, bill, consumed, orders, logs, outbox, called>>
  BY DEF Crash, At, billVars, usedVars
<1>2. CallTypes'  BY <1>1 DEF CallInv, CallTypes, Places
<1>3. ASSUME NEW c \in AllCalls PROVE Paid(c)' /\ Logged(c)'
  <2>1. pc'[c] \in {"done", "lost"} /\ (pc'[c] = "done" => pc[c] = "done")  BY <1>1
  <2>2. Paid(c) /\ Logged(c)  BY DEF CallInv
  <2>3. Paid(c)'  BY <1>1, <2>1, <2>2 DEF Paid, Unbilled, Before
  <2>4. Logged(c)'  BY <1>1, <2>1, <2>2 DEF Logged, Before, During
  <2> QED  BY <2>3, <2>4
<1> QED  BY <1>2, <1>3 DEF CallInv

(* The steps of a socket before its usage is rated.                        *)
LEMMA SocketKeeps ==
  ASSUME CallInv, NEW c \in Sockets, Socket(c) PROVE CallInv'
<1> USE DEF billVars, At, Goto
<1>0. c \in AllCalls  BY DEF AllCalls
<1>1. ASSUME pc[c] \in During PROVE called = called \cup {c}
  BY <1>0, <1>1 DEF CallInv, Logged
<1>2. ASSUME TakeSession(c) PROVE CallInv'
  <2>1. \/ pc' = [pc EXCEPT ![c] = "accept"] \/ pc' = [pc EXCEPT ![c] = "done"]
    BY <1>2 DEF TakeSession
  <2> QED  BY <1>0, <1>2, <2>1, NotCalled DEF TakeSession
<1>3. ASSUME AcceptFails(c) PROVE CallInv'  BY <1>0, <1>3, NotCalled DEF AcceptFails
<1>4. ASSUME DialFails(c) PROVE CallInv'
  BY <1>0, <1>4, GivingUp DEF DialFails, Calling, Unbilled, Before
<1>5. ASSUME Connect(c) PROVE CallInv'
  BY <1>0, <1>5, GoingOn DEF Connect, Calling, Before
<1>6. ASSUME Poll(c) PROVE CallInv'
  <2>1. pc[c] = "poll" /\ called = called \cup {c}  BY <1>1, <1>6 DEF Poll, During
  <2>2. CASE Fail(c)
    BY <1>0, <1>6, <2>1, <2>2, GivingUp DEF Poll, Unbilled
  <2>3. CASE pc' = [pc EXCEPT ![c] = "read"] /\ UNCHANGED entry
    BY <1>0, <1>6, <2>1, <2>3, GoingOn DEF Poll
  <2> QED  BY <1>6, <2>2, <2>3 DEF Poll
<1>7. ASSUME ReadFails(c) PROVE CallInv'
  BY <1>0, <1>1, <1>7, GivingUp DEF ReadFails, Unbilled, During
<1>8. ASSUME ReadEvent(c) PROVE CallInv'
  BY <1>0, <1>1, <1>8, GoingOn DEF ReadEvent, During
<1>9. ASSUME WriteEvent(c) PROVE CallInv'
  <2>1. /\ pc[c] = "write" /\ called = called \cup {c}
        /\ UNCHANGED <<called, bill, consumed, orders, logs, outbox>>
    BY <1>1, <1>9 DEF WriteEvent, During
  <2>2. CASE Fail(c)  BY <1>0, <2>1, <2>2, GivingUp DEF Unbilled
  <2>3. CASE pc' = [pc EXCEPT ![c] = "poll"] /\ UNCHANGED entry
    BY <1>0, <2>1, <2>3, GoingOn
  <2>4. CASE pc' = [pc EXCEPT ![c] = "mark"] /\ UNCHANGED entry
    BY <1>0, <2>1, <2>4, GoingOn
  <2> QED  BY <1>9, <2>2, <2>3, <2>4 DEF WriteEvent, Answered
<1>10. ASSUME Relay(c) PROVE CallInv'
  BY <1>10, NoCall DEF Relay, RelayStops, RelayFails, RelayEnds, RelaySends, callVars, callState
<1> QED  BY <1>2, <1>3, <1>4, <1>5, <1>6, <1>7, <1>8, <1>9, <1>10 DEF Socket

(* Every step keeps the invariant.                                         *)
LEMMA CallStep == CallInv /\ [Next]_vars => CallInv'
<1> SUFFICES ASSUME CallInv, [Next]_vars PROVE CallInv'  OBVIOUS
<1> USE DEF billVars, At, Goto
<1>1. ASSUME NEW c \in Chats \cup Streams, ProviderFails(c) PROVE CallInv'
  BY <1>1, GivingUp DEF ProviderFails, Calling, Unbilled, Before, AllCalls
<1>2. ASSUME NEW c \in Chats \cup Streams, ProviderAnswers(c) PROVE CallInv'
  <2>1. /\ pc[c] = "provider" /\ called' = called \cup {c} /\ c \in AllCalls
        /\ UNCHANGED <<entry, bill, consumed, orders, logs, outbox>>
    BY <1>2 DEF ProviderAnswers, Calling, AllCalls
  <2>2. PICK x \in {"mark", "rate"} : pc' = [pc EXCEPT ![c] = x]
    BY <1>2 DEF ProviderAnswers, Answered
  <2> QED  BY <2>1, <2>2, GoingOn DEF Before
<1>3. ASSUME NEW c \in AllCalls, Settle(c) PROVE CallInv'
  <2>1. ASSUME pc[c] \in During PROVE called = called \cup {c}
    BY <2>1 DEF CallInv, Logged
  <2>2. ASSUME MarkProviderKeyUsed(c) PROVE CallInv'
    BY <2>1, <2>2, GoingOn DEF MarkProviderKeyUsed, During
  <2>3. ASSUME Unbillable(c) PROVE CallInv'
    BY <2>1, <2>3, GivingUp DEF Unbillable, During, Unbilled
  <2> QED  BY <1>3, <2>2, <2>3, RatedKeeps, ConsumeKeeps, CompleteKeeps, RecordKeeps DEF Settle
<1>4. ASSUME NEW c \in AllCalls, ClientLeaves(c) PROVE CallInv'
  BY <1>4, NoCall DEF ClientLeaves, callState
<1>5. ASSUME NEW s \in Sessions, CreateRealtimeSecret(s) PROVE CallInv'
  BY <1>5, NoCall DEF CreateRealtimeSecret, callState, callVars
<1>6. ASSUME AdvanceClock PROVE CallInv'
  BY <1>6, NoCall DEF AdvanceClock, callState, callVars
<1>7. ASSUME UNCHANGED vars PROVE CallInv'
  BY <1>7, NoCall DEF vars, callState, callVars
<1> QED  BY <1>1, <1>2, <1>3, <1>4, <1>5, <1>6, <1>7, SocketKeeps, CrashKeeps
         DEF Next, Finished

(* For every set of calls and ratings, an order is only stored for what    *)
(* the local quota has paid, and a Charge only asked for when the gross    *)
(* amount covers the commission: completeCall.                             *)
THEOREM OrdersPaidFor == Spec => []OrdersArePaidFor
<1>1. CallInv => OrdersArePaidFor  BY DEF CallInv, Paid, CallTypes, OrdersArePaidFor
<1> QED  BY <1>1, CallInit, CallStep, PTL DEF Spec

(* A call that has reached the provider is logged exactly once, and as an  *)
(* error only if nothing was taken for it: recordExecution.                *)
THEOREM LoggedOnce == Spec => []OneLogPerCall
<1>1. CallInv => OneLogPerCall  BY DEF CallInv, Logged, OneLogPerCall
<1> QED  BY <1>1, CallInit, CallStep, PTL DEF Spec
-----------------------------------------------------------------------------
(* The client secrets.                                                     *)

Tries == [session : Sessions, right : BOOLEAN, at : Nat, ok : BOOLEAN]

SecretTypes ==
  /\ open \subseteq Sessions /\ expires \in [Sessions -> Nat]
  /\ tries \in [Sockets -> Tries \cup {NoTry}] /\ clock \in Nat /\ crashed \in BOOLEAN

Used(s) == \E d \in Sockets : Served(d) /\ tries[d].session = s

(* An open session is unused, and one that is gone in its time was used or *)
(* lost with its process.                                                  *)
SessionInv(s) ==
  /\ s \in open => expires[s] # 0 /\ ~Used(s)
  /\ s \notin open /\ clock < expires[s] => crashed \/ Used(s)

TryInv(c) ==
  /\ pc[c] = "open" => tries[c] = NoTry
  /\ tries[c] # NoTry =>
       LET inTime == tries[c].right /\ tries[c].at < expires[tries[c].session] IN
       /\ tries[c].right => expires[tries[c].session] # 0
       /\ tries[c].ok => inTime
       /\ inTime /\ ~tries[c].ok => crashed \/ Used(tries[c].session)

OneSocket ==
  \A c, d \in Sockets : Served(c) /\ Served(d) /\ tries[c].session = tries[d].session => c = d

SecretInv == /\ SecretTypes /\ OneSocket
             /\ \A s \in Sessions : SessionInv(s)
             /\ \A c \in Sockets : TryInv(c)

(* The handlers that hold no lock of the sessions leave them alone.        *)
LEMMA SecretsKept ==
  ASSUME SecretInv, UNCHANGED <<open, expires, tries, crashed>>,
         clock' \in Nat, clock <= clock',
         \A c \in Sockets : pc'[c] = "open" => pc[c] = "open"
  PROVE  SecretInv'
<1>1. \A s : Used(s)' <=> Used(s)  BY DEF Used, Served
<1>2. SecretTypes' /\ OneSocket'  BY DEF SecretInv, SecretTypes, OneSocket, Served
<1>3. ASSUME NEW s \in Sessions PROVE SessionInv(s)'
  <2>1. SessionInv(s) /\ expires[s] \in Nat /\ clock \in Nat  BY DEF SecretInv, SecretTypes
  <2> QED  BY <1>1, <2>1 DEF SessionInv
<1>4. ASSUME NEW c \in Sockets PROVE TryInv(c)'
  <2>1. TryInv(c)  BY DEF SecretInv
  <2> QED  BY <1>1, <2>1 DEF TryInv
<1> QED  BY <1>2, <1>3, <1>4 DEF SecretInv

(* createRealtimeSecret prunes sessions that have expired only.            *)
LEMMA CreateKeepsSecrets ==
  ASSUME SecretInv, NEW s \in Sessions, CreateRealtimeSecret(s) PROVE SecretInv'
<1>1. /\ expires[s] = 0 /\ expires' = [expires EXCEPT ![s] = clock + RealtimeSessionTTL]
      /\ open' = {o \in open : clock < expires[o]} \cup {s}
      /\ UNCHANGED <<tries, clock, crashed, pc>>
  BY DEF CreateRealtimeSecret, Unexpired, callVars
<1>2. /\ open \subseteq Sessions /\ expires \in [Sessions -> Nat] /\ clock \in Nat
      /\ tries \in [Sockets -> Tries \cup {NoTry}]
  BY DEF SecretInv, SecretTypes
<1>3. clock + RealtimeSessionTTL \in Nat \ {0}  BY <1>2, TimesAreNumbers
<1>4. /\ expires' \in [Sessions -> Nat] /\ expires'[s] # 0
      /\ \A t \in Sessions \ {s} : expires'[t] = expires[t]
  BY <1>1, <1>2, <1>3
<1>5. SecretTypes'  BY <1>1, <1>2, <1>4 DEF SecretInv, SecretTypes
<1>6. OneSocket' /\ \A t : Used(t)' <=> Used(t)
  BY <1>1 DEF SecretInv, OneSocket, Used, Served
<1>7. \A d \in Sockets : tries[d] # NoTry =>
        /\ tries[d] \in Tries /\ tries[d].session \in Sessions
        /\ tries[d].at \in Nat
  BY <1>2 DEF Tries
<1>8. ~Used(s)
  <2> SUFFICES ASSUME NEW d \in Sockets, Served(d), tries[d].session = s PROVE FALSE
    BY DEF Used
  <2>1. TryInv(d)  BY DEF SecretInv
  <2> QED  BY <1>1, <2>1 DEF TryInv, Served
<1>9. ASSUME NEW t \in Sessions PROVE SessionInv(t)'
  <2>1. SessionInv(t)  BY DEF SecretInv
  <2>2. CASE t = s  BY <1>1, <1>4, <1>6, <1>8, <2>2 DEF SessionInv
  <2>3. CASE t # s  BY <1>1, <1>4, <1>6, <2>1, <2>3 DEF SessionInv
  <2> QED  BY <2>2, <2>3
<1>10. ASSUME NEW c \in Sockets PROVE TryInv(c)'
  <2>1. TryInv(c)  BY DEF SecretInv
  <2>2. CASE tries[c] = NoTry  BY <1>1, <2>1, <2>2 DEF TryInv
  <2>3. CASE tries[c] # NoTry /\ tries[c].session = s
    <3>1. ~tries[c].right  BY <1>1, <2>1, <2>3 DEF TryInv
    <3> QED  BY <1>1, <2>1, <2>3, <3>1 DEF TryInv
  <2>4. CASE tries[c] # NoTry /\ tries[c].session # s
    <3>1. expires'[tries[c].session] = expires[tries[c].session]
      BY <1>4, <1>7, <2>4
    <3> QED  BY <1>1, <1>6, <2>1, <2>4, <3>1 DEF TryInv
  <2> QED  BY <2>2, <2>3, <2>4
<1> QED  BY <1>5, <1>6, <1>9, <1>10 DEF SecretInv

(* realtimeSocket looks a session up and deletes it under one mutex.       *)
LEMMA TakeKeepsSecrets ==
  ASSUME SecretInv, CallTypes, NEW c \in Sockets, TakeSession(c) PROVE SecretInv'
<1>1. PICK s \in Sessions, right \in BOOLEAN :
        LET ok == s \in open /\ Unexpired(s) /\ right IN
        /\ right => expires[s] # 0
        /\ Present(c, s, right, ok)
        /\ open' = (IF ok THEN open \ {s} ELSE open)
        /\ Goto(c, IF ok THEN "accept" ELSE "done")
  BY DEF TakeSession
<1> DEFINE ok == s \in open /\ Unexpired(s) /\ right
           try == [session |-> s, right |-> right, at |-> clock, ok |-> ok]
<1>2. /\ pc[c] = "open" /\ UNCHANGED <<expires, clock, crashed>>
      /\ tries' = [tries EXCEPT ![c] = try]
      /\ open' = (IF ok THEN open \ {s} ELSE open)
      /\ pc' = [pc EXCEPT ![c] = IF ok THEN "accept" ELSE "done"]
  BY <1>1 DEF TakeSession, At, Goto, Present
<1>3. /\ open \subseteq Sessions /\ expires \in [Sessions -> Nat] /\ clock \in Nat
      /\ tries \in [Sockets -> Tries \cup {NoTry}]
  BY DEF SecretInv, SecretTypes
<1>4. ok \in BOOLEAN /\ (ok <=> s \in open /\ clock < expires[s] /\ right)  BY DEF Unexpired
<1> HIDE DEF ok
<1>5. /\ try \in Tries /\ try # NoTry
      /\ try.session = s /\ try.right = right /\ try.at = clock /\ try.ok = ok
  BY <1>3, <1>4 DEF Tries, NoTry
<1> HIDE DEF try
<1>6. tries'[c] = try /\ \A d \in Sockets \ {c} : tries'[d] = tries[d]  BY <1>2, <1>3
<1>7. SecretTypes'  BY <1>2, <1>3, <1>5 DEF SecretInv, SecretTypes
<1>8. tries[c] = NoTry  BY <1>2 DEF SecretInv, TryInv
<1>9. \A t : Used(t)' <=> (Used(t) \/ (ok /\ t = s))
  BY <1>5, <1>6, <1>8 DEF Used, Served
<1>10. ok => ~Used(s)  BY <1>4 DEF SecretInv, SessionInv
<1>11. OneSocket'
  <2> SUFFICES ASSUME NEW d \in Sockets, NEW e \in Sockets, Served(d)', Served(e)',
                      tries'[d].session = tries'[e].session
               PROVE  d = e
    BY DEF OneSocket
  <2>1. CASE d # c /\ e # c  BY <1>6, <2>1 DEF SecretInv, OneSocket, Served
  <2>2. CASE d = c /\ e # c
    BY <1>5, <1>6, <1>10, <2>2 DEF Served, Used
  <2>3. CASE d # c /\ e = c
    BY <1>5, <1>6, <1>10, <2>3 DEF Served, Used
  <2> QED  BY <2>1, <2>2, <2>3
<1>12. ASSUME NEW t \in Sessions PROVE SessionInv(t)'
  <2>1. SessionInv(t)  BY DEF SecretInv
  <2> QED  BY <1>2, <1>9, <2>1 DEF SessionInv
<1>13. ASSUME NEW d \in Sockets PROVE TryInv(d)'
  <2>1. TryInv(d) /\ SessionInv(s)  BY DEF SecretInv
  <2>2. pc'[c] # "open" /\ \A e \in Sockets \ {c} : pc'[e] = pc[e]
    BY <1>2 DEF CallTypes, AllCalls
  <2>3. CASE d = c
    BY <1>1, <1>2, <1>4, <1>5, <1>6, <1>9, <2>1, <2>2, <2>3 DEF TryInv, SessionInv
  <2>4. CASE d # c
    BY <1>2, <1>6, <1>9, <2>1, <2>2, <2>4 DEF TryInv
  <2> QED  BY <2>3, <2>4
<1> QED  BY <1>7, <1>11, <1>12, <1>13 DEF SecretInv

(* A crash loses every open session.                                       *)
LEMMA CrashKeepsSecrets == ASSUME SecretInv, CallTypes, Crash PROVE SecretInv'
<1>1. /\ open' = {} /\ crashed' = TRUE /\ UNCHANGED <<expires, tries, clock>>
      /\ pc' = [c \in AllCalls |-> IF pc[c] = "done" THEN "done" ELSE "lost"]
  BY DEF Crash, At
<1>2. SecretTypes' /\ OneSocket'  BY <1>1 DEF SecretInv, SecretTypes, OneSocket, Served
<1>3. \A s \in Sessions : SessionInv(s)'  BY <1>1 DEF SessionInv
<1>4. ASSUME NEW c \in Sockets PROVE TryInv(c)'
  <2>1. TryInv(c) /\ pc'[c] # "open"  BY <1>1 DEF SecretInv, AllCalls
  <2> QED  BY <1>1, <2>1 DEF TryInv
<1> QED  BY <1>2, <1>3, <1>4 DEF SecretInv

(* No handler puts a socket back to where its secret is presented.         *)
LEMMA OnlyForward ==
  ASSUME CallTypes, NEW c \in AllCalls, NEW x, x # "open", pc' = [pc EXCEPT ![c] = x]
  PROVE  \A d \in Sockets : pc'[d] = "open" => pc[d] = "open"
BY DEF CallTypes, AllCalls

(* Every step keeps the secrets.                                           *)
LEMMA SecretStep == CallInv /\ SecretInv /\ [Next]_vars => SecretInv'
<1> SUFFICES ASSUME CallInv, SecretInv, [Next]_vars PROVE SecretInv'  OBVIOUS
<1> DEFINE quiet == UNCHANGED <<open, expires, tries, clock, crashed>>
<1>0. CallTypes /\ clock \in Nat  BY DEF CallInv, SecretInv, SecretTypes
<1>1. ASSUME quiet, NEW c \in AllCalls, NEW x, x # "open", pc' = [pc EXCEPT ![c] = x]
      PROVE  SecretInv'
  BY <1>0, <1>1, OnlyForward, SecretsKept
<1>2. ASSUME quiet, UNCHANGED pc PROVE SecretInv'  BY <1>0, <1>2, SecretsKept
<1>3. ASSUME NEW c \in Chats \cup Streams, ProviderFails(c) \/ ProviderAnswers(c)
      PROVE  SecretInv'
  BY <1>1, <1>3 DEF ProviderFails, ProviderAnswers, Fail, Answered, Goto, socketVars, AllCalls
<1>4. ASSUME NEW c \in AllCalls, Settle(c) PROVE SecretInv'
  BY <1>1, <1>4 DEF Settle, MarkProviderKeyUsed, Unbillable, Rated, ConsumeLocalCredit,
                    CompleteCall, RecordExecution, Fail, Goto, socketVars
<1>5. ASSUME NEW c \in AllCalls, ClientLeaves(c) PROVE SecretInv'
  BY <1>2, <1>5 DEF ClientLeaves, socketVars
<1>6. ASSUME NEW c \in Sockets, Socket(c) PROVE SecretInv'
  <2>0. c \in AllCalls  BY DEF AllCalls
  <2>1. CASE TakeSession(c)  BY <1>0, <2>1, TakeKeepsSecrets
  <2>2. CASE AcceptFails(c) \/ DialFails(c) \/ Connect(c)
    BY <1>1, <2>0, <2>2 DEF AcceptFails, DialFails, Connect, Fail, Goto, socketVars
  <2>3. CASE Poll(c) \/ ReadFails(c) \/ ReadEvent(c)
    BY <1>1, <2>0, <2>3 DEF Poll, ReadFails, ReadEvent, Fail, Goto
  <2>4. CASE WriteEvent(c)
    <3>1. quiet  BY <2>4 DEF WriteEvent
    <3>2. \E x \in {"log", "poll", "mark"} : pc' = [pc EXCEPT ![c] = x]
      BY <2>4 DEF WriteEvent, Fail, Answered, Goto
    <3> QED  BY <1>1, <2>0, <3>1, <3>2
  <2>5. CASE Relay(c)
    BY <1>2, <2>5 DEF Relay, RelayStops, RelayFails, RelayEnds, RelaySends, callVars
  <2> QED  BY <1>6, <2>1, <2>2, <2>3, <2>4, <2>5 DEF Socket
<1>7. ASSUME NEW s \in Sessions, CreateRealtimeSecret(s) PROVE SecretInv'
  BY <1>7, CreateKeepsSecrets
<1>8. ASSUME AdvanceClock PROVE SecretInv'
  <2>1. /\ clock' \in Nat /\ clock <= clock'
        /\ UNCHANGED <<open, expires, tries, crashed, pc>>
    BY <1>0, <1>8 DEF AdvanceClock, callVars, socketVars
  <2> QED  BY <2>1, SecretsKept
<1>9. ASSUME UNCHANGED vars PROVE SecretInv'
  BY <1>2, <1>9 DEF vars, callVars, socketVars
<1>10. ASSUME Crash PROVE SecretInv'  BY <1>0, <1>10, CrashKeepsSecrets
<1> QED  BY <1>3, <1>4, <1>5, <1>6, <1>7, <1>8, <1>9, <1>10 DEF Next, Finished

(* For every number of sessions, sockets and instants, a client secret     *)
(* opens at most one socket, in its time, and is not lost to an attempt    *)
(* with a wrong one: realtimeSocket, createRealtimeSecret.                 *)
THEOREM SecretsOnce == Spec => []SecretsServeOnce
<1>1. Init => SecretInv
  <2> SUFFICES ASSUME Init PROVE SecretInv  OBVIOUS
  <2>1. SecretTypes /\ \A c \in Sockets : tries[c] = NoTry
    BY DEF Init, SecretTypes
  <2>2. OneSocket /\ \A s : ~Used(s)  BY <2>1 DEF OneSocket, Used, Served
  <2>3. \A s \in Sessions : SessionInv(s)  BY <2>2 DEF Init, SessionInv
  <2>4. \A c \in Sockets : TryInv(c)  BY <2>1 DEF TryInv
  <2> QED  BY <2>1, <2>2, <2>3, <2>4 DEF SecretInv
<1>2. SecretInv => SecretsServeOnce
  BY DEF SecretInv, OneSocket, TryInv, Used, SecretsServeOnce
<1> QED  BY <1>1, <1>2, SecretStep, CallInit, CallStep, PTL DEF Spec
-----------------------------------------------------------------------------
(* last_used_at of the keys.                                               *)

UsedTypes ==
  /\ lastUsed \in [billing : [Keys -> Nat], sync : [Keys -> Nat]]
  /\ stamp \in [AllCalls -> Nat] /\ marked \in [Keys -> SUBSET Nat] /\ clock \in Nat

UsedInv == UsedTypes /\ LastUsedIsLatest

(* markProviderKeyUsed keeps the later of two times in both tables.        *)
LEMMA MarkKeepsLatest ==
  ASSUME UsedInv, NEW c \in AllCalls, MarkProviderKeyUsed(c) PROVE UsedInv'
<1> USE DEF UsedInv
<1>1. UNCHANGED <<stamp, clock>>  BY DEF MarkProviderKeyUsed
<1>2. CASE UNCHANGED <<lastUsed, marked>>
  BY <1>1, <1>2 DEF UsedTypes, LastUsedIsLatest
<1>3. CASE /\ key[c] \in Keys
           /\ lastUsed' = [t \in DOMAIN lastUsed |->
                             [lastUsed[t] EXCEPT ![key[c]] = Later(@, stamp[c])]]
           /\ marked' = [marked EXCEPT ![key[c]] = @ \cup {stamp[c]}]
  <2>1. /\ DOMAIN lastUsed = {"billing", "sync"} /\ stamp[c] \in Nat
        /\ lastUsed.billing \in [Keys -> Nat] /\ lastUsed.sync \in [Keys -> Nat]
        /\ marked \in [Keys -> SUBSET Nat]
    BY DEF UsedTypes
  <2>2. /\ lastUsed'.billing = [lastUsed.billing EXCEPT ![key[c]] = Later(@, stamp[c])]
        /\ lastUsed'.sync = [lastUsed.sync EXCEPT ![key[c]] = Later(@, stamp[c])]
    BY <1>3, <2>1
  <2>3. \A k \in Keys \ {key[c]} : /\ lastUsed'.billing[k] = lastUsed.billing[k]
                                   /\ lastUsed'.sync[k] = lastUsed.sync[k]
                                   /\ marked'[k] = marked[k]
    BY <1>3, <2>1, <2>2
  <2>4. \A n \in Nat : Later(n, stamp[c]) \in Nat  BY <2>1 DEF Later
  <2>5. UsedTypes'
    <3>1. lastUsed' \in [billing : [Keys -> Nat], sync : [Keys -> Nat]]
      <4>1. /\ [lastUsed.billing EXCEPT ![key[c]] = Later(@, stamp[c])] \in [Keys -> Nat]
            /\ [lastUsed.sync EXCEPT ![key[c]] = Later(@, stamp[c])] \in [Keys -> Nat]
        BY <2>1, <2>4
      <4>2. lastUsed' = [billing |-> lastUsed'.billing, sync |-> lastUsed'.sync]
        BY <1>3, <2>1
      <4> QED  BY <2>2, <4>1, <4>2
    <3>2. marked' \in [Keys -> SUBSET Nat]  BY <1>3, <2>1
    <3> QED  BY <1>1, <3>1, <3>2 DEF UsedTypes
  <2>6. /\ lastUsed'.billing[key[c]] = Later(lastUsed.billing[key[c]], stamp[c])
        /\ lastUsed'.sync[key[c]] = Later(lastUsed.sync[key[c]], stamp[c])
        /\ marked'[key[c]] = marked[key[c]] \cup {stamp[c]}
        /\ lastUsed.sync[key[c]] \in Nat
    BY <1>3, <2>1, <2>2
  <2>7. /\ lastUsed.billing[key[c]] = lastUsed.sync[key[c]]
        /\ lastUsed.sync[key[c]] \in marked[key[c]] \cup {0}
        /\ \A time \in marked[key[c]] : time \in Nat /\ time <= lastUsed.sync[key[c]]
    BY <1>3, <2>1 DEF LastUsedIsLatest
  <2>8. ASSUME NEW k \in Keys
        PROVE  /\ lastUsed'.billing[k] = lastUsed'.sync[k]
               /\ lastUsed'.sync[k] \in marked'[k] \cup {0}
               /\ \A time \in marked'[k] : time <= lastUsed'.sync[k]
    <3>1. CASE k = key[c]  BY <2>1, <2>6, <2>7, <3>1 DEF Later
    <3>2. CASE k # key[c]  BY <2>3, <3>2 DEF LastUsedIsLatest
    <3> QED  BY <3>1, <3>2
  <2> QED  BY <2>5, <2>8 DEF LastUsedIsLatest
<1> QED  BY <1>2, <1>3 DEF MarkProviderKeyUsed

(* A call takes the time at which its provider answered.                   *)
LEMMA AnsweredKeeps ==
  ASSUME UsedInv, NEW c \in AllCalls, NEW k, Answered(c, k) \/ UNCHANGED stamp,
         UNCHANGED <<lastUsed, marked, clock>>
  PROVE  UsedInv'
<1>1. stamp' \in [AllCalls -> Nat]  BY DEF UsedInv, UsedTypes, Answered
<1> QED  BY <1>1 DEF UsedInv, UsedTypes, LastUsedIsLatest

(* Every step keeps the times.                                             *)
LEMMA UsedStep == UsedInv /\ [Next]_vars => UsedInv'
<1> SUFFICES ASSUME UsedInv, [Next]_vars PROVE UsedInv'  OBVIOUS
<1>1. ASSUME UNCHANGED <<lastUsed, marked, stamp, clock>> PROVE UsedInv'
  BY <1>1 DEF UsedInv, UsedTypes, LastUsedIsLatest
<1>2. ASSUME NEW c \in Chats \cup Streams, ProviderFails(c) \/ ProviderAnswers(c)
      PROVE  UsedInv'
  BY <1>1, <1>2, AnsweredKeeps DEF ProviderFails, ProviderAnswers, usedVars, AllCalls
<1>3. ASSUME NEW c \in AllCalls, Settle(c) PROVE UsedInv'
  BY <1>1, <1>3, MarkKeepsLatest DEF Settle, Unbillable, Rated, ConsumeLocalCredit,
       CompleteCall, RecordExecution, usedVars
<1>4. ASSUME NEW c \in Sockets, Socket(c) PROVE UsedInv'
  <2>1. CASE WriteEvent(c)
    BY <2>1, AnsweredKeeps DEF WriteEvent, AllCalls
  <2>2. CASE TakeSession(c) \/ AcceptFails(c) \/ DialFails(c) \/ Connect(c)
    BY <1>1, <2>2 DEF TakeSession, AcceptFails, DialFails, Connect, usedVars
  <2>3. CASE Poll(c) \/ ReadFails(c) \/ ReadEvent(c) \/ Relay(c)
    BY <1>1, <2>3 DEF Poll, ReadFails, ReadEvent, Relay, RelayStops, RelayFails, RelayEnds,
         RelaySends, usedVars
  <2> QED  BY <1>4, <2>1, <2>2, <2>3 DEF Socket
<1>5. ASSUME NEW c \in AllCalls, ClientLeaves(c) PROVE UsedInv'
  BY <1>1, <1>5 DEF ClientLeaves, usedVars
<1>6. ASSUME NEW s \in Sessions, CreateRealtimeSecret(s) PROVE UsedInv'
  BY <1>1, <1>6 DEF CreateRealtimeSecret, usedVars
<1>7. ASSUME AdvanceClock PROVE UsedInv'
  BY <1>7 DEF AdvanceClock, usedVars, UsedInv, UsedTypes, LastUsedIsLatest
<1>8. ASSUME Crash \/ UNCHANGED vars PROVE UsedInv'
  BY <1>1, <1>8 DEF Crash, vars, usedVars
<1> QED  BY <1>2, <1>3, <1>4, <1>5, <1>6, <1>7, <1>8 DEF Next, Finished

(* For every set of calls and keys and in every order of commits, the two  *)
(* tables hold the latest time a key was marked with: markProviderKeyUsed. *)
THEOREM LatestIsKept == Spec => []LastUsedIsLatest
<1>1. Init => UsedInv
  BY DEF Init, UsedInv, UsedTypes, LastUsedIsLatest
<1>2. UsedInv => LastUsedIsLatest  BY DEF UsedInv
<1> QED  BY <1>1, <1>2, UsedStep, PTL DEF Spec
=============================================================================
