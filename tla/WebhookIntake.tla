---------------------------- MODULE WebhookIntake ----------------------------
(***************************************************************************)
(* From a simulated payment to an entry of the payment-events stream: the  *)
(* mock gateway posts a signed webhook, retries what is not answered with  *)
(* a 2xx and sometimes delivers it twice (simulation.service.ts,           *)
(* webhook-sender.service.ts); ingestion filters repeats with a Redis      *)
(* SETNX key, stores the event and publishes it (webhook.service.ts).      *)
(*                                                                         *)
(* Each POST is a request of its own: its handler goes on when the gateway *)
(* has given up on the connection, next to the handler of the retry.       *)
(* Calls to Redis and Postgres fail with or without having taken effect.   *)
(***************************************************************************)
EXTENDS Naturals, FiniteSets

CONSTANTS
  Events,         \* payments simulated, by gatewayEventId
  Orders,         \* order ids
  OrderOf,        \* Events -> Orders: payload.orderId
  NoRow,          \* no payment_events row with this gatewayEventId
  MaxAttempts,    \* WEBHOOK_MAX_ATTEMPTS
  FaultSites,     \* handler calls that may fail
  MaxFaults,      \* bound: failing calls of handlers
  MaxLosses,      \* bound: POSTs whose connection or response is lost
  MaxExpiries,    \* bound: idempotency keys that expire (or that Redis loses)
  MaxCrashes,     \* bound: crashes of the ingestion process
  MaxStops        \* bound: shutdowns and crashes of the gateway process

Kinds == {"first", "duplicate"}

\* deliver() sends the payload once, and perhaps a second time; each send is up
\* to MaxAttempts POSTs.
Sends == Events \X Kinds
Posts == Events \X Kinds \X (1 .. MaxAttempts)

\* Where the handler of a POST stands: the awaits of processWebhook, or how the
\* request ended.  "none": it never reached ingestion.
Sites     == {"mark", "existing", "lookup", "upsert", "publish"}
Outcomes  == {"accepted", "seen", "error", "dead"}
HandlerPc == {"none"} \cup Sites \cup Outcomes

\* Where a send() stands: in schedule()'s timer, awaiting fetch, in the back-off
\* sleep, returned, given up, or gone with the process.
SendPc  == {"none", "timer", "fetch", "sleep", "done", "exhausted", "gone"}
Running == {"fetch", "sleep"}

ASSUME IntakeAssumption ==
  /\ OrderOf \in [Events -> Orders]
  /\ MaxAttempts \in Nat \ {0}
  /\ FaultSites \subseteq Sites
  /\ {MaxFaults, MaxLosses, MaxExpiries, MaxCrashes, MaxStops} \subseteq Nat
  /\ NoRow \notin [from : Kinds, attached : BOOLEAN]

VARIABLES
  send,      \* gateway: Sends -> [pc, attempt]
  closing,   \* gateway: shutdown() has run
  handler,   \* ingestion: Posts -> [pc, found]
  key,       \* Redis: payrecon:idem:webhook:<gatewayEventId> exists
  published, \* Redis: stream entries of the event
  row,       \* Postgres: payment_events, which delivery wrote it and its orderId
  orders,    \* Postgres: ids of existing orders
  expired,   \* how often the event's key has expired
  faults, losses, crashes, stops

gateway == <<send, closing>>
store   == <<key, published, row, orders>>
budgets == <<expired, faults, losses, crashes, stops>>
vars    == <<gateway, handler, store, budgets>>

Row == [from : Kinds, attached : BOOLEAN]

\* Every variable has its type.
TypeOK ==
  /\ send \in [Sends -> [pc : SendPc, attempt : 0 .. MaxAttempts]]
  /\ closing \in BOOLEAN
  /\ handler \in [Posts -> [pc : HandlerPc, found : BOOLEAN]]
  /\ key \in [Events -> BOOLEAN]
  /\ published \in [Events -> Nat]
  /\ row \in [Events -> Row \cup {NoRow}]
  /\ orders \subseteq Orders
  /\ expired \in [Events -> Nat]
  /\ {faults, losses, crashes, stops} \subseteq Nat

Init ==
  /\ send = [s \in Sends |-> [pc |-> "none", attempt |-> 0]]
  /\ closing = FALSE
  /\ handler = [p \in Posts |-> [pc |-> "none", found |-> FALSE]]
  /\ key = [e \in Events |-> FALSE]
  /\ published = [e \in Events |-> 0]
  /\ row = [e \in Events |-> NoRow]
  /\ orders = {}
  /\ expired = [e \in Events |-> 0]
  /\ faults = 0
  /\ losses = 0
  /\ crashes = 0
  /\ stops = 0

-----------------------------------------------------------------------------
(***************************************************************************)
(* The mock gateway.                                                       *)
(***************************************************************************)
PostOf(s) == <<s[1], s[2], send[s].attempt>>

\* send(s) moves to pc at the given attempt.
At(s, pc, attempt) == [send EXCEPT ![s] = [pc |-> pc, attempt |-> attempt]]

\* POST /simulate: simulatePayment() schedules the first delivery.
Simulate(e) ==
  /\ ~closing
  /\ send[<<e, "first">>].pc = "none"
  /\ send' = At(<<e, "first">>, "timer", 0)
  /\ UNCHANGED <<closing, handler, store, budgets>>

\* A timer of schedule() fires, or the back-off sleep ends: the next fetch is
\* made.  Either the request reaches ingestion and a handler starts, or the
\* connection fails and the catch block swallows it.
Post(s) ==
  LET n == send[s].attempt + 1
  IN  /\ send[s].pc \in {"timer", "sleep"}
      /\ send' = At(s, "fetch", n)
      /\ \/ /\ handler' = [handler EXCEPT ![<<s[1], s[2], n>>].pc = "mark"]
            /\ UNCHANGED losses
         \/ /\ losses < MaxLosses
            /\ losses' = losses + 1
            /\ UNCHANGED handler
      /\ UNCHANGED <<closing, store, expired, faults, crashes, stops>>

\* send(s) returns, having delivered or exhausted all its attempts: it never
\* throws, so deliver() schedules a duplicate at DUPLICATE_RATE either way.
Return(s, pc) ==
  \/ send' = At(s, pc, send[s].attempt)
  \/ /\ s[2] = "first"
     /\ send' = [At(s, pc, send[s].attempt) EXCEPT ![<<s[1], "duplicate">>].pc = "timer"]

\* Mutated: one attempt too many; an exception taken for a delivery; no retry.
WrongNotDelivered(s) ==
  IF send[s].attempt <= MaxAttempts
    THEN send' = At(s, "sleep", send[s].attempt)
    ELSE Return(s, "exhausted")

OptimisticNotDelivered(s) == Return(s, "done")

ImpatientNotDelivered(s) == Return(s, "exhausted")

\* The attempt was not answered with a 2xx: sleep and post again, or give up.
NotDelivered(s) ==
  IF send[s].attempt < MaxAttempts
    THEN send' = At(s, "sleep", send[s].attempt)
    ELSE Return(s, "exhausted")

\* The response arrives: any 2xx, "accepted" or "duplicate", ends the send.
Answered(s) ==
  /\ send[s].pc = "fetch"
  /\ \/ /\ handler[PostOf(s)].pc \in {"accepted", "seen"}
        /\ Return(s, "done")
     \/ /\ handler[PostOf(s)].pc = "error"
        /\ NotDelivered(s)
  /\ UNCHANGED <<closing, handler, store, budgets>>

\* fetch throws: nobody was reached, the process died, or the connection is
\* lost under a handler that runs on.
Unanswered(s) ==
  /\ send[s].pc = "fetch"
  /\ \/ /\ handler[PostOf(s)].pc \in {"none", "dead"}
        /\ UNCHANGED losses
     \/ /\ handler[PostOf(s)].pc \in Sites \cup {"accepted", "seen", "error"}
        /\ losses < MaxLosses
        /\ losses' = losses + 1
  /\ NotDelivered(s)
  /\ UNCHANGED <<closing, handler, store, expired, faults, crashes, stops>>

\* SIGTERM: shutdown() clears the timers.  A send in progress runs on until the
\* server has closed, and may still schedule its duplicate.
Shutdown ==
  /\ ~closing
  /\ stops < MaxStops
  /\ closing' = TRUE
  /\ stops' = stops + 1
  /\ send' = [s \in Sends |->
                IF send[s].pc = "timer" THEN [send[s] EXCEPT !.pc = "gone"] ELSE send[s]]
  /\ UNCHANGED <<handler, store, expired, faults, losses, crashes>>

\* The gateway process exits, after a shutdown or by a crash, and starts again:
\* timers and sends are only in its memory.
Restart ==
  /\ \/ closing /\ UNCHANGED stops
     \/ ~closing /\ stops < MaxStops /\ stops' = stops + 1
  /\ closing' = FALSE
  /\ send' = [s \in Sends |->
                IF send[s].pc \in Running \cup {"timer"}
                  THEN [send[s] EXCEPT !.pc = "gone"] ELSE send[s]]
  /\ UNCHANGED <<handler, store, expired, faults, losses, crashes>>

-----------------------------------------------------------------------------
(***************************************************************************)
(* The webhook handler of ingestion, processWebhook.  What it rejects      *)
(* before its first await (signature, schema) changes nothing.             *)
(***************************************************************************)
EventOf(p) == p[1]

Goto(p, pc) == handler' = [handler EXCEPT ![p].pc = pc]

\* Mutated: the key does not stop the second request.
WrongMark(p) ==
  /\ handler[p].pc = "mark"
  /\ Goto(p, "lookup")
  /\ key' = [key EXCEPT ![EventOf(p)] = TRUE]
  /\ UNCHANGED <<gateway, published, row, orders, budgets>>

\* markIfNew: SET key EX ttl NX.
Mark(p) ==
  /\ handler[p].pc = "mark"
  /\ Goto(p, IF key[EventOf(p)] THEN "existing" ELSE "lookup")
  /\ key' = [key EXCEPT ![EventOf(p)] = TRUE]
  /\ UNCHANGED <<gateway, published, row, orders, budgets>>

\* A repeat is answered 200 "duplicate", whether or not the row is there yet.
Existing(p) ==
  /\ handler[p].pc = "existing"
  /\ Goto(p, "seen")
  /\ UNCHANGED <<gateway, store, budgets>>

\* Mutated: published before it is stored.
WrongAfterLookup == "publish"

\* The await after the lookup.
AfterLookup == "upsert"

\* orderRepository.findById: what it saw is used after the next await.
Lookup(p) ==
  /\ handler[p].pc = "lookup"
  /\ handler' = [handler EXCEPT ![p] =
                   [pc |-> AfterLookup, found |-> OrderOf[EventOf(p)] \in orders]]
  /\ UNCHANGED <<gateway, store, budgets>>

\* Mutated: update writes what create writes.
WrongStored(p) ==
  [row EXCEPT ![EventOf(p)] = [from |-> p[2], attached |-> handler[p].found]]

\* upsertPending: `update: {}`, so the row is the first writer's.
Stored(p) ==
  IF row[EventOf(p)] # NoRow
    THEN row
    ELSE [row EXCEPT ![EventOf(p)] = [from |-> p[2], attached |-> handler[p].found]]

Upsert(p) ==
  /\ handler[p].pc = "upsert"
  /\ Goto(p, "publish")
  /\ row' = Stored(p)
  /\ UNCHANGED <<gateway, key, published, orders, budgets>>

\* XADD: published, and the request is answered 200 "accepted".
Publish(p) ==
  /\ handler[p].pc = "publish"
  /\ Goto(p, "accepted")
  /\ published' = [published EXCEPT ![EventOf(p)] = @ + 1]
  /\ UNCHANGED <<gateway, key, row, orders, budgets>>

\* What the call at p's await writes, if it takes effect.
Effect(p) ==
  CASE handler[p].pc = "mark" ->
         key' = [key EXCEPT ![EventOf(p)] = TRUE] /\ UNCHANGED <<published, row>>
    [] handler[p].pc = "upsert" -> row' = Stored(p) /\ UNCHANGED <<key, published>>
    [] handler[p].pc = "publish" ->
         published' = [published EXCEPT ![EventOf(p)] = @ + 1] /\ UNCHANGED <<key, row>>
    [] handler[p].pc \in {"existing", "lookup"} -> UNCHANGED <<key, published, row>>

\* A call rejects, with or without having taken effect.  Nothing is undone (the
\* key stays set) and the error handler answers 500.
Fails(p) ==
  /\ handler[p].pc \in FaultSites
  /\ faults < MaxFaults
  /\ faults' = faults + 1
  /\ Goto(p, "error")
  /\ Effect(p) \/ UNCHANGED <<key, published, row>>
  /\ UNCHANGED <<gateway, orders, expired, losses, crashes, stops>>

\* The ingestion process dies and comes back: every running handler is gone.
Crash ==
  /\ crashes < MaxCrashes
  /\ crashes' = crashes + 1
  /\ \E p \in Posts : handler[p].pc \in Sites
  /\ handler' = [p \in Posts |->
                   IF handler[p].pc \in Sites THEN [handler[p] EXCEPT !.pc = "dead"]
                                              ELSE handler[p]]
  /\ UNCHANGED <<gateway, store, expired, faults, losses, stops>>

\* The TTL of the key runs out, or Redis restarts without it.
Expire(e) ==
  /\ key[e]
  /\ expired[e] < MaxExpiries
  /\ key' = [key EXCEPT ![e] = FALSE]
  /\ expired' = [expired EXCEPT ![e] = @ + 1]
  /\ UNCHANGED <<gateway, handler, published, row, orders, faults, losses, crashes, stops>>

\* POST /orders, before or after the payment's webhook.
CreateOrder(o) ==
  /\ o \notin orders
  /\ orders' = orders \cup {o}
  /\ UNCHANGED <<gateway, handler, key, published, row, budgets>>

-----------------------------------------------------------------------------
Deliver(s) == Post(s) \/ Answered(s) \/ Unanswered(s)

Handle(p) == Mark(p) \/ Existing(p) \/ Lookup(p) \/ Upsert(p) \/ Publish(p)

Next ==
  \/ \E e \in Events : Simulate(e) \/ Expire(e)
  \/ \E s \in Sends : Deliver(s)
  \/ \E p \in Posts : Handle(p) \/ Fails(p)
  \/ \E o \in Orders : CreateOrder(o)
  \/ Shutdown \/ Restart \/ Crash

Spec == Init /\ [][Next]_vars

\* Timers fire, fetch settles (every await of send() ends) and a handler's
\* calls return.  Simulating, ordering, losing and crashing are never forced.
Fairness ==
  /\ \A s \in Sends : WF_vars(Deliver(s))
  /\ \A p \in Posts : WF_vars(Handle(p))

FairSpec == Spec /\ Fairness

-----------------------------------------------------------------------------
(***************************************************************************)
(* Properties.                                                             *)
(***************************************************************************)
\* The handlers of e that won the key and have not published yet.
Carrying(e) ==
  {p \in Posts : EventOf(p) = e /\ handler[p].pc \in {"lookup", "upsert", "publish"}}

\* Every stream entry was paid for by a lifetime of the idempotency key: with
\* retries, duplicates, lost responses, failures and crashes, an event is
\* published at most once as long as its key lives.
PublishedOncePerKey ==
  \A e \in Events : published[e] + Cardinality(Carrying(e)) <= 1 + expired[e]

\* A stream entry always finds its row (the worker's "not found" cannot
\* happen), and a row attached to an order is attached to one that exists.
PublishedIsStored ==
  \A e \in Events :
    /\ published[e] > 0 => row[e] # NoRow
    /\ row[e] # NoRow /\ row[e].attached => OrderOf[e] \in orders

Delivery == INSTANCE PaymentDelivery WITH Deliveries <- Kinds

\* To the rest of the system the webhook path is PaymentDelivery: requests,
\* retries, duplicates, lost responses and crashes are steps it does not see.
\* In particular the row stays the first writer's, whose occurredAt is what the
\* worker compares with the delay threshold.
ImplementsDelivery == Delivery!Spec

\* A 200 is a promise: an event any send was told is delivered, even as a
\* duplicate, is in the stream or in the hands of a handler on its way there.
\* Only as long as the network is all that failed.
DeliveredIsCarried ==
  faults + crashes = 0 =>
    \A s \in Sends : send[s].pc = "done" =>
      published[s[1]] > 0 \/ Carrying(s[1]) # {}

\* More went wrong than one send's attempts make good.
Disturbed == faults + crashes + stops > 0 \/ losses >= MaxAttempts

\* Every simulated payment reaches the stream, although the network loses some
\* of its POSTs or their responses.
EventuallyPublished ==
  \A e \in Events :
    send[<<e, "first">>].pc = "timer" ~> (published[e] > 0 \/ Disturbed)

\* If publishing fails, the gateway's retry redelivers (stream-producer.ts:8-11):
\* once every request has ended, an event it was told is delivered is in the
\* stream.
FailedPublishIsRedelivered ==
  (\A p \in Posts : handler[p].pc \notin Sites) =>
    \A s \in Sends : send[s].pc = "done" => published[s[1]] > 0
=============================================================================
