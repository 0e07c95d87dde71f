------------------------------ MODULE PayRecon ------------------------------
(***************************************************************************)
(* The system put together from the specifications of its parts: payments  *)
(* that the dashboard or somebody else triggers are stored and published   *)
(* (PaymentDelivery), judged and booked (SerialReconciliation), confirmed  *)
(* by the bank's files (Settlement) and shown (Dashboard).  The parts      *)
(* share the database: an order, a payment and a ledger pair of one part   *)
(* is the order, the payment and the pair of the others.                   *)
(*                                                                         *)
(* Intake and worker are the abstract specifications that WebhookIntake    *)
(* and ReconciliationWorker implement.  Left to the modules of the parts:  *)
(* processing that throws, keys that expire (Judge may repeat in any case) *)
(* and uploads that fail.                                                  *)
(***************************************************************************)
EXTENDS Reconciliation, Ledger, Sequences

CONSTANTS
  Events, Orders, Payment, OrderData, DelayThreshold,  \* SerialReconciliation's
  External,     \* events nobody pressed for: refunds, payments of other clients
  Watched,      \* bound: events of the behaviours in which the page is open
  Delivered,    \* what a delivery of a payment says beside its payment
  NoRow,        \* PaymentDelivery's
  Files, Rows, Malformed, Requests, NoBatch, Pending,  \* Settlement's
  Limit,        \* Dashboard's
  MaxBookings, MaxLosses  \* bounds: pairs of an event, lost requests of the page

ASSUME PayReconAssumption ==
  /\ Payment \in [Events -> [orderId : Orders, amount : Nat, currency : STRING,
                             gatewayStatus : PaymentStatus, receivedAt : Int]]
  /\ OrderData \in [Orders -> [amount : Nat, currency : STRING, createdAt : Int]]
  /\ Rows \in [Files -> Seq([event : Events, amount : Nat, currency : STRING,
                             storable : BOOLEAN])]
  /\ External \subseteq Events /\ Watched \subseteq Events
  /\ DelayThreshold \in Int
  /\ Limit \in Nat \ {0}
  /\ MaxBookings \in Nat /\ MaxLosses \in Nat

VARIABLES
  orders, newer, row, published, expired, state, ledger,
  batch, records, request,
  scheduled,    \* payments the gateway has been asked for
  open, shown, fetches, create, trigger, losses

deliveryVars == <<row, published, expired>>
uploadVars   == <<batch, records, request>>
pageVars     == <<open, shown, fetches, create, trigger, losses>>
vars == <<orders, newer, state, ledger, scheduled, deliveryVars, uploadVars, pageVars>>

\* payload.orderId
Order(e) == Payment[e].orderId

Delivery == INSTANCE PaymentDelivery WITH
              orders <- {o \in Orders : orders[o] # Absent},
              OrderOf <- [e \in Events |-> Payment[e].orderId], Deliveries <- {Delivered}

Judgement == INSTANCE SerialReconciliation WITH
               bookings <- [e \in Events |-> Len(ledger[e])], Bookable <- 0 .. MaxBookings

Bank == INSTANCE Settlement WITH
          ingested <- {e \in Events : row[e] # NoRow},
          faults <- 0, MaxFaults <- 0,
          Payment <- [e \in Events |-> [amount   |-> Payment[e].amount,
                                        currency |-> Payment[e].currency]]

Page == INSTANCE Dashboard

Init ==
  /\ orders = [o \in Orders |-> Absent]
  /\ newer = [o \in Orders |-> 0]
  /\ ledger = [e \in Events |-> <<>>]
  /\ row = [e \in Events |-> NoRow]
  /\ Delivery!Init /\ Judgement!Init /\ Bank!Init /\ Page!Init
  /\ scheduled = {}

-----------------------------------------------------------------------------
\* Bound: without the page, only orders that somebody else pays for.
CreateOrder(o) ==
  /\ open \/ o \in {Order(e) : e \in External}
  /\ UNCHANGED <<ledger, scheduled, deliveryVars, uploadVars>>
  /\ Judgement!CreateOrder(o)
  /\ Delivery!CreateOrder(o)
  /\ newer' = [p \in Orders |-> IF orders[p] = Absent THEN 0 ELSE newer[p] + 1]
  /\ Page!CreateOrder \/ UNCHANGED pageVars

\* POST /payments, pressed on the page, which posts the order it shows.  The
\* gateway gives every payment a new event id.
SimulatePayment(e) ==
  /\ e \notin External \cup scheduled
  /\ Page!SimulatePayment(Order(e))
  /\ scheduled' = scheduled \cup {e}
  /\ UNCHANGED <<state, ledger, deliveryVars, uploadVars>>

\* The row is attached to the order if it exists: nothing here reads it again,
\* the worker resolves the order from the payload.
Store(e) ==
  /\ e \in External \cup scheduled
  /\ open => e \in Watched
  /\ UNCHANGED <<orders, newer, ledger, scheduled, uploadVars, pageVars>>
  /\ Delivery!Store(e)
  /\ row'[e].attached = (orders[Order(e)] # Absent)
  /\ Judgement!Receive(e)
  /\ Bank!Ingest(e)

Publish(e) ==
  /\ UNCHANGED <<orders, newer, state, ledger, scheduled, uploadVars, pageVars>>
  /\ Delivery!Publish(e)

\* The worker judges a published event, and books it when that is the verdict.
\* The runner writes the order's status and commits the ledger transaction in two
\* awaits; they are one step here under the conditions of WorkerIsSerial
\* (SerialWorkerProofs): no order judged by two workers at a time, and neither a
\* failure nor an exit between the two.
Judge(e) ==
  /\ published[e] > 0
  /\ UNCHANGED <<newer, scheduled, deliveryVars, uploadVars, pageVars>>
  /\ \/ UNCHANGED ledger
     \/ Bank!Book(e)
  /\ Judgement!Process(e)

\* Uploads, call by call.  Bound: only while nobody has the page open.
Settle ==
  /\ ~open
  /\ UNCHANGED <<orders, newer, state, scheduled, deliveryVars, pageVars>>
  /\ \E q \in Requests : Bank!Process(q)

\* The button, pressed while there are payments left (a bound).
Press(o) ==
  /\ Page!Press(o)
  /\ \E e \in Events \ (External \cup scheduled) : Order(e) = o

\* What the page and the servers it asks do without touching the rest.
Browse ==
  /\ \/ Page!Poll \/ Page!List \/ Page!Submit \/ Page!Created \/ Page!Lose
     \/ \E list \in fetches : Page!Arrive(list)
     \/ \E o \in Orders : Press(o) \/ Page!Triggered(o)
  /\ UNCHANGED <<state, ledger, scheduled, deliveryVars, uploadVars>>

Next ==
  \/ \E o \in Orders : CreateOrder(o)
  \/ \E e \in Events : SimulatePayment(e) \/ Store(e) \/ Publish(e) \/ Judge(e)
  \/ Settle \/ Browse

\* The page polls its list and gets it: one of the three is always next.
Refresh ==
  /\ Page!Poll \/ Page!List \/ \E list \in fetches : Page!Arrive(list)
  /\ UNCHANGED <<state, ledger, scheduled, deliveryVars, uploadVars>>

\* The worker concludes what is published (EventuallyConcluded of
\* ReconciliationWorker), and an open page keeps refreshing.
Fairness ==
  /\ WF_vars(\E e \in Events : state[e] = "PENDING" /\ Judge(e))
  /\ WF_vars(Refresh)

Spec == Init /\ [][Next]_vars /\ Fairness

-----------------------------------------------------------------------------
(***************************************************************************)
(* Properties.  The first two are SerialReconciliation's, here of a        *)
(* ledger whose pairs the bank settles meanwhile and of payments that are  *)
(* pressed for twice because the page shows an order as it was.            *)
(***************************************************************************)
\* What was booked in less what was booked out is one payment while the order
\* is PAID, none otherwise: a second press books nothing.
NetBooking == Judgement!NetBooking

\* The trial balance nets to zero and its receivables are what the orders say.
BalanceFollowsOrders == Judgement!BalanceFollowsOrders

\* A SETTLED pair was confirmed three times over (README.md:32): the bank's row
\* names that payment, and its amount and currency are those of an order that
\* exists - although the bank's file is matched with the gateway's amount only.
BothReconciliationsAgree ==
  \A e \in Events : \A i \in DOMAIN ledger[e] : ledger[e][i] # Pending =>
    LET line  == Rows[ledger[e][i][1]][ledger[e][i][2]]
        order == OrderData[Order(e)]
    IN  /\ orders[Order(e)] # Absent
        /\ line.event = e
        /\ <<line.amount, line.currency>> = <<order.amount, order.currency>>

\* A list that left the server earlier never replaces a later one: once the
\* page has shown an order as paid, it never offers to pay it again, not even
\* when the order has left the list meanwhile.
ButtonStaysGone ==
  \A o \in Orders :
    [](shown[o] \notin {Absent, "CREATED"} => [](shown[o] # "CREATED"))

\* A payment that went through appears: with a successful payment of the order
\* in the stream, an open page comes to show that the order moved, unless every
\* such payment was judged MISMATCHED or newer orders fill the list.
PublishedIsShown ==
  \A o \in Orders :
    LET paying == {e \in Events : /\ Order(e) = o
                                 /\ Payment[e].gatewayStatus = "SUCCESS"
                                 /\ published[e] > 0}
    IN  open /\ paying # {} ~> \/ shown[o] \notin {Absent, "CREATED"}
                              \/ newer[o] >= Limit
                              \/ \A e \in paying : state[e] = "MISMATCHED"
=============================================================================
