-------------------------------- MODULE Calls --------------------------------
(***************************************************************************)
(* What happens to an admitted call of GizWay from the provider's answer   *)
(* to its order and its execution log: chat, streamChat and realtimeSocket *)
(* with its relay goroutine and the client secrets that open it.           *)
(*                                                                         *)
(* chat works under the context of the request, which ends when the client *)
(* leaves; a stream and a socket are billed under one that does not.       *)
(***************************************************************************)
EXTENDS Naturals, Sequences, FiniteSets

CONSTANTS
  Chats, Streams, Sockets,   \* the calls
  Scenarios,                 \* the sets of calls that are made
  Sessions,                  \* realtime sessions, each with a secret of its own
  Keys,                      \* provider keys of the calls' model
  Ratings,                   \* what usage may cost: [gross, commission]
  RealtimeSessionTTL, MaxTime,
  Buffer                     \* capacity of the channel clientToProvider

ASSUME CallsAreDisjoint == /\ Chats \cap Streams = {} /\ Chats \cap Sockets = {}
                           /\ Streams \cap Sockets = {}
ASSUME TimesAreNumbers == RealtimeSessionTTL \in Nat \ {0} /\ MaxTime \in Nat
ASSUME RatingsAreCosts == Ratings \subseteq [gross : Nat, commission : Nat]

AllCalls == Chats \cup Streams \cup Sockets
Free == [gross |-> 0, commission |-> 0]
NoTry == [session |-> "none"]

VARIABLES
  pc,         \* where the handler of a call stands
  gone,       \* the calls whose client has left
  key,        \* key[c]: the key the provider was called with, "none", or "unknown"
  bill,       \* bill[c]: gross and commission, once rated
  entry,      \* entry[c]: the status that recordExecution will log
  orders,     \* orders[c]: the AI order's status, or "none"
  outbox,     \* the calls with a row in charge_outbox
  logs,       \* logs[c]: what recordExecution was called with
  consumed,   \* consumed[c]: what consumeLocalCredit has taken
  lastUsed,   \* lastUsed[t][k]: last_used_at of key k in table t
  stamp,      \* stamp[c]: the time c marks its key with
  open,       \* h.realtime: the sessions that wait for their socket
  expires,    \* expires[s]: when s expires, 0 if it does not exist yet
  event,      \* event[c]: the provider's event that c has in hand
  relay,      \* relay[c]: the goroutine that reads from the client
  channel,    \* channel[c]: the number of errors in clientToProvider
  cancelled,  \* the sockets whose context is cancelled
  clock,
  \* history
  called,     \* the calls that have reached the provider
  marked,     \* marked[k]: the times that calls have marked key k with
  tries,      \* tries[c]: the session and secret that socket c came with
  crashed     \* the process has been stopped

callVars   == <<pc, gone, key, bill, entry, called>>
billVars   == <<orders, outbox, consumed>>
usedVars   == <<lastUsed, stamp, marked>>
socketVars == <<open, expires, event, relay, channel, cancelled, tries>>
vars == <<callVars, billVars, logs, usedVars, socketVars, clock, crashed>>

Init ==
  /\ \E made \in Scenarios :
       pc = [c \in AllCalls |-> IF c \notin made THEN "done"
                               ELSE IF c \in Sockets THEN "open" ELSE "provider"]
  /\ gone = {} /\ called = {}
  /\ key = [c \in AllCalls |-> "none"] /\ bill = [c \in AllCalls |-> Free]
  /\ entry = [c \in AllCalls |-> "none"]
  /\ orders = [c \in AllCalls |-> "none"] /\ outbox = {}
  /\ logs = [c \in AllCalls |-> <<>>] /\ consumed = [c \in AllCalls |-> 0]
  /\ lastUsed = [billing |-> [k \in Keys |-> 0], sync |-> [k \in Keys |-> 0]]
  /\ stamp = [c \in AllCalls |-> 0] /\ marked = [k \in Keys |-> {}]
  /\ open = {} /\ expires = [s \in Sessions |-> 0]
  /\ event = [c \in Sockets |-> "none"] /\ relay = [c \in Sockets |-> "none"]
  /\ channel = [c \in Sockets |-> 0] /\ cancelled = {}
  /\ tries = [c \in Sockets |-> NoTry]
  /\ clock = 1 /\ crashed = FALSE

Goto(c, at) == pc' = [pc EXCEPT ![c] = at]
At(c, at)   == pc[c] = at

-----------------------------------------------------------------------------
(* The end of every call: an error is logged, or the usage is billed.      *)

\* The handler gives up: the deferred functions run, a socket's cancel first.
Fail(c) ==
  /\ Goto(c, "log") /\ entry' = [entry EXCEPT ![c] = "error"]
  /\ cancelled' = (IF c \in Sockets THEN cancelled \cup {c} ELSE cancelled)

\* The provider has answered c with key k: last_used_at will be now.
Answered(c, k) ==
  /\ key' = [key EXCEPT ![c] = k] /\ stamp' = [stamp EXCEPT ![c] = clock]
  /\ Goto(c, "mark")

\* Bug: last_used_at is set, whatever it was.
LaterNot(old, new) == new

Later(old, new) == IF old < new THEN new ELSE old

\* markProviderKeyUsed: both rows in one transaction, or neither.
MarkProviderKeyUsed(c) ==
  /\ At(c, "mark")
  /\ \/ /\ key[c] \in Keys
        /\ lastUsed' = [t \in DOMAIN lastUsed |->
                          [lastUsed[t] EXCEPT ![key[c]] = Later(@, stamp[c])]]
        /\ marked' = [marked EXCEPT ![key[c]] = @ \cup {stamp[c]}]
     \/ UNCHANGED <<lastUsed, marked>>
  /\ Goto(c, "rate")
  /\ UNCHANGED <<gone, key, bill, entry, called, billVars, logs, stamp, socketVars, clock, crashed>>

\* Conversion, selected or ratedUsage fails: the result is returned without billing.
Unbillable(c) ==
  /\ At(c, "rate") /\ Fail(c)
  /\ UNCHANGED <<gone, key, bill, called, billVars, logs, usedVars,
                 open, expires, event, relay, channel, tries, clock, crashed>>

\* The selected key is one of the call's, and the usage is rated.
Rated(c) ==
  /\ At(c, "rate") /\ key[c] \in Keys
  /\ \E rating \in Ratings : bill' = [bill EXCEPT ![c] = rating]
  /\ Goto(c, "consume")
  /\ UNCHANGED <<gone, key, entry, called, billVars, logs, usedVars, socketVars, clock, crashed>>

ConsumeLocalCredit(c) ==
  /\ At(c, "consume")
  /\ consumed' = [consumed EXCEPT ![c] = @ + bill[c].gross]
  /\ Goto(c, "complete")
  /\ UNCHANGED <<gone, key, bill, entry, called, orders, outbox, logs, usedVars, socketVars,
                 clock, crashed>>

\* The context that a call is billed under is cancelled.
NoContext(c) == c \in Chats /\ c \in gone

\* Bug: the commission is not compared with the gross amount.
StoreOrderUnchecked(c) ==
  orders' = [orders EXCEPT ![c] = "pending"] /\ outbox' = outbox \cup {c}

\* The transaction of completeCall: the order, and its outbox row unless the
\* commission exceeds the gross amount.
StoreOrder(c) ==
  IF bill[c].commission > bill[c].gross
    THEN orders' = [orders EXCEPT ![c] = "billing_failed"] /\ UNCHANGED outbox
    ELSE orders' = [orders EXCEPT ![c] = "pending"] /\ outbox' = outbox \cup {c}

\* completeCall: a free call has no order; its deferred log says "success"
\* whether or not the order was stored.
CompleteCall(c) ==
  /\ At(c, "complete")
  /\ \/ bill[c].gross > 0 /\ ~NoContext(c) /\ StoreOrder(c)
     \/ UNCHANGED <<orders, outbox>>
  /\ entry' = [entry EXCEPT ![c] = "success"]
  /\ Goto(c, "log")
  /\ UNCHANGED <<gone, key, bill, called, consumed, logs, usedVars, socketVars, clock, crashed>>

\* Bug: the deferred function logs a call that is logged already.
RecordExecutionTwice(c) ==
  /\ At(c, "log")
  /\ logs' = [logs EXCEPT ![c] = Append(@, entry[c])]
  /\ IF c \in Sockets /\ entry[c] = "success" THEN Fail(c)
     ELSE Goto(c, "done") /\ UNCHANGED <<entry, cancelled>>
  /\ UNCHANGED <<gone, key, bill, called, billVars, usedVars,
                 open, expires, event, relay, channel, tries, clock, crashed>>

\* recordExecution and the return; chat's errors are logged under the request's
\* context, and the log store may fail.
RecordExecution(c) ==
  /\ At(c, "log")
  /\ \/ /\ ~(NoContext(c) /\ entry[c] = "error")
        /\ logs' = [logs EXCEPT ![c] = Append(@, entry[c])]
     \/ logs' = [logs EXCEPT ![c] = Append(@, "lost")]
  /\ Goto(c, "done")
  /\ cancelled' = (IF c \in Sockets THEN cancelled \cup {c} ELSE cancelled)
  /\ UNCHANGED <<gone, key, bill, entry, called, billVars, usedVars,
                 open, expires, event, relay, channel, tries, clock, crashed>>

Settle(c) ==
  \/ MarkProviderKeyUsed(c) \/ Unbillable(c) \/ Rated(c)
  \/ ConsumeLocalCredit(c) \/ CompleteCall(c) \/ RecordExecution(c)

-----------------------------------------------------------------------------
(* chat and streamChat.                                                    *)

Calling(c) == called' = called \cup {c}

\* The provider fails, or a stream ends without usage or selected key.
ProviderFails(c) ==
  /\ At(c, "provider") /\ Calling(c) /\ Fail(c)
  /\ UNCHANGED <<gone, key, bill, billVars, logs, usedVars,
                 open, expires, event, relay, channel, tries, clock, crashed>>

\* The provider answers and names the key; to a chat it may name none.
ProviderAnswers(c) ==
  /\ At(c, "provider") /\ Calling(c)
  /\ \/ \E k \in Keys \cup {"unknown"} : Answered(c, k)
     \/ c \in Chats /\ Goto(c, "rate") /\ UNCHANGED <<key, stamp>>
  /\ UNCHANGED <<gone, bill, entry, billVars, logs, lastUsed, marked, socketVars, clock, crashed>>

-----------------------------------------------------------------------------
(* realtimeSocket.                                                         *)

Unexpired(s) == clock < expires[s]

\* createRealtimeSecret: the sessions that have expired are pruned first.
CreateRealtimeSecret(s) ==
  /\ expires[s] = 0
  /\ open' = {o \in open : Unexpired(o)} \cup {s}
  /\ expires' = [expires EXCEPT ![s] = clock + RealtimeSessionTTL]
  /\ UNCHANGED <<callVars, billVars, logs, usedVars, event, relay, channel, cancelled, tries,
                 clock, crashed>>

Present(c, s, right, ok) ==
  tries' = [tries EXCEPT ![c] = [session |-> s, right |-> right, at |-> clock, ok |-> ok]]

\* Bug: the session is gone after any attempt.
TakeSessionAnyhow(c) ==
  /\ At(c, "open")
  /\ \E s \in Sessions, right \in BOOLEAN :
       LET ok == s \in open /\ Unexpired(s) /\ right IN
       /\ right => expires[s] # 0
       /\ Present(c, s, right, ok)
       /\ open' = open \ {s}
       /\ Goto(c, IF ok THEN "accept" ELSE "done")
  /\ UNCHANGED <<gone, key, bill, entry, called, billVars, logs, usedVars,
                 expires, event, relay, channel, cancelled, clock, crashed>>

\* The session is looked up, checked and deleted under one mutex.
TakeSession(c) ==
  /\ At(c, "open")
  /\ \E s \in Sessions, right \in BOOLEAN :
       LET ok == s \in open /\ Unexpired(s) /\ right IN
       /\ right => expires[s] # 0
       /\ Present(c, s, right, ok)
       /\ open' = (IF ok THEN open \ {s} ELSE open)
       /\ Goto(c, IF ok THEN "accept" ELSE "done")
  /\ UNCHANGED <<gone, key, bill, entry, called, billVars, logs, usedVars,
                 expires, event, relay, channel, cancelled, clock, crashed>>

\* websocket.Accept fails, and nothing has been called.
AcceptFails(c) ==
  /\ At(c, "accept") /\ Goto(c, "done")
  /\ UNCHANGED <<gone, key, bill, entry, called, billVars, logs, usedVars, socketVars, clock, crashed>>

DialFails(c) ==
  /\ At(c, "accept") /\ Calling(c) /\ Fail(c)
  /\ UNCHANGED <<gone, key, bill, billVars, logs, usedVars,
                 open, expires, event, relay, channel, tries, clock, crashed>>

\* The provider is connected and the relay goroutine runs.
Connect(c) ==
  /\ At(c, "accept") /\ c \notin gone /\ Calling(c)
  /\ relay' = [relay EXCEPT ![c] = "reading"]
  /\ Goto(c, "poll")
  /\ UNCHANGED <<gone, key, bill, entry, billVars, logs, usedVars,
                 open, expires, event, channel, cancelled, tries, clock, crashed>>

\* The loop looks for an error of the relay without waiting for one.
Poll(c) ==
  /\ At(c, "poll")
  /\ IF channel[c] > 0
       THEN channel' = [channel EXCEPT ![c] = @ - 1] /\ Fail(c)
       ELSE Goto(c, "read") /\ UNCHANGED <<channel, entry, cancelled>>
  /\ UNCHANGED <<gone, key, bill, called, billVars, logs, usedVars,
                 open, expires, event, relay, tries, clock, crashed>>

\* provider.Read or the translation fails; it does when the context is cancelled.
ReadFails(c) ==
  /\ At(c, "read") /\ Fail(c)
  /\ UNCHANGED <<gone, key, bill, called, billVars, logs, usedVars,
                 open, expires, event, relay, channel, tries, clock, crashed>>

ReadEvent(c) ==
  /\ At(c, "read") /\ c \notin cancelled
  /\ event' \in {[event EXCEPT ![c] = e] : e \in {"delta", "terminal", "terminal without usage"}}
  /\ Goto(c, "write")
  /\ UNCHANGED <<gone, key, bill, entry, called, billVars, logs, usedVars,
                 open, expires, relay, channel, cancelled, tries, clock, crashed>>

\* The event goes to the client; a terminal one with usage ends the session.
WriteEvent(c) ==
  /\ At(c, "write")
  /\ \/ Fail(c) /\ UNCHANGED <<key, stamp>>
     \/ /\ c \notin gone \cup cancelled
        /\ CASE event[c] = "delta" -> Goto(c, "poll") /\ UNCHANGED <<key, stamp, entry, cancelled>>
             [] event[c] = "terminal" -> /\ \E k \in Keys : Answered(c, k)
                                         /\ UNCHANGED <<entry, cancelled>>
             [] OTHER -> Fail(c) /\ UNCHANGED <<key, stamp>>
  /\ UNCHANGED <<gone, bill, called, billVars, logs, lastUsed, marked,
                 open, expires, event, relay, channel, tries, clock, crashed>>

(* The relay goroutine.                                                    *)

RelayEnds(c) ==
  /\ relay[c] = "reading"
  /\ relay' = [relay EXCEPT ![c] = "sending"]
  /\ cancelled' = cancelled \cup {c}
  /\ UNCHANGED <<callVars, billVars, logs, usedVars, open, expires, event, channel, tries,
                 clock, crashed>>

\* client.Read returns when its context is cancelled ...
RelayStops(c) == c \in cancelled /\ RelayEnds(c)

\* ... or it, the translation or provider.Write fails by itself.
RelayFails(c) == c \notin cancelled /\ RelayEnds(c)

\* Bug: the channel has no buffer.
RelaySendsUnbuffered(c) ==
  /\ relay[c] = "sending" /\ At(c, "poll")
  /\ channel' = [channel EXCEPT ![c] = @ + 1]
  /\ relay' = [relay EXCEPT ![c] = "ended"]
  /\ UNCHANGED <<callVars, billVars, logs, usedVars, open, expires, event, cancelled, tries,
                 clock, crashed>>

RelaySends(c) ==
  /\ relay[c] = "sending" /\ channel[c] < Buffer
  /\ channel' = [channel EXCEPT ![c] = @ + 1]
  /\ relay' = [relay EXCEPT ![c] = "ended"]
  /\ UNCHANGED <<callVars, billVars, logs, usedVars, open, expires, event, cancelled, tries,
                 clock, crashed>>

Relay(c) == RelayStops(c) \/ RelayFails(c) \/ RelaySends(c)

Socket(c) ==
  \/ TakeSession(c) \/ AcceptFails(c) \/ DialFails(c) \/ Connect(c)
  \/ Poll(c) \/ ReadFails(c) \/ ReadEvent(c) \/ WriteEvent(c) \/ Relay(c)

-----------------------------------------------------------------------------
\* To the handler of a stream this shows as a failing stream.
ClientLeaves(c) ==
  /\ c \notin gone \cup Streams /\ pc[c] \notin {"done", "lost"}
  /\ gone' = gone \cup {c}
  /\ UNCHANGED <<pc, key, bill, entry, called, billVars, logs, usedVars, socketVars, clock, crashed>>

AdvanceClock ==
  /\ clock < MaxTime /\ clock' = clock + 1
  /\ UNCHANGED <<callVars, billVars, logs, usedVars, socketVars, crashed>>

\* The process stops: calls, relays and sessions are lost.
Crash ==
  /\ ~crashed /\ crashed' = TRUE
  /\ pc' = [c \in AllCalls |-> IF At(c, "done") THEN "done" ELSE "lost"]
  /\ open' = {} /\ relay' = [c \in Sockets |-> "none"]
  /\ UNCHANGED <<gone, key, bill, entry, called, billVars, logs, usedVars,
                 expires, event, channel, cancelled, tries, clock>>

Finished == (\A c \in AllCalls : pc[c] \in {"done", "lost"}) /\ UNCHANGED vars

Next ==
  \/ \E c \in Chats \cup Streams : ProviderFails(c) \/ ProviderAnswers(c)
  \/ \E c \in AllCalls : Settle(c) \/ ClientLeaves(c)
  \/ \E c \in Sockets : Socket(c)
  \/ \E s \in Sessions : CreateRealtimeSecret(s)
  \/ AdvanceClock \/ Crash \/ Finished

Fairness == \A c \in Sockets : WF_vars(RelayStops(c)) /\ WF_vars(RelaySends(c))

Spec == Init /\ [][Next]_vars /\ Fairness

-----------------------------------------------------------------------------
(* Properties.                                                             *)

Served(c) == tries[c] # NoTry /\ tries[c].ok

(* A client secret opens at most one socket, in its time, and an attempt   *)
(* with a wrong secret does not take the session from its holder: one who  *)
(* comes in time is refused only if the secret was used, or the process    *)
(* that held the session is gone.                                          *)
SecretsServeOnce ==
  /\ \A c, d \in Sockets : Served(c) /\ Served(d) /\ tries[c].session = tries[d].session => c = d
  /\ \A c \in Sockets : tries[c] # NoTry =>
       LET inTime == tries[c].right /\ tries[c].at < expires[tries[c].session] IN
       /\ tries[c].ok => inTime
       /\ inTime /\ ~tries[c].ok =>
            crashed \/ \E d \in Sockets : Served(d) /\ tries[d].session = tries[c].session

(* A call that has reached the provider ends with exactly one execution    *)
(* log, whichever of its handler, its relay and its client gives up first; *)
(* one that was logged as an error was neither billed nor taken from the   *)
(* local quota.                                                            *)
OneLogPerCall ==
  /\ \A c \in AllCalls : pc[c] = "done" => Len(logs[c]) = (IF c \in called THEN 1 ELSE 0)
  /\ \A c \in AllCalls : Len(logs[c]) <= 1
  /\ \A c \in AllCalls : logs[c] = <<"error">> => consumed[c] = 0 /\ orders[c] = "none"

(* An order is only stored for a call whose gross amount the local quota   *)
(* has paid, once, and GizPay is only asked for Charges whose commissions  *)
(* the gross amount covers.                                                *)
OrdersArePaidFor ==
  /\ \A c \in AllCalls : consumed[c] \in {0, bill[c].gross}
  /\ \A c \in AllCalls : orders[c] # "none" => bill[c].gross > 0 /\ consumed[c] = bill[c].gross
  /\ \A c \in AllCalls : orders[c] = "pending" <=> c \in outbox
  /\ \A c \in outbox : bill[c].commission <= bill[c].gross

(* last_used_at of a key is the latest of the times it was marked with, in *)
(* both tables, in whatever order concurrent calls commit.                 *)
LastUsedIsLatest ==
  \A k \in Keys : /\ lastUsed.billing[k] = lastUsed.sync[k]
                  /\ lastUsed.sync[k] \in marked[k] \cup {0}
                  /\ \A time \in marked[k] : time <= lastUsed.sync[k]

(* No relay goroutine outlives its handler for good.                       *)
RelaysEnd == \A c \in Sockets : pc[c] = "done" ~> relay[c] \in {"none", "ended"}
=============================================================================
