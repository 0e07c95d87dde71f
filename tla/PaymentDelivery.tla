--------------------------- MODULE PaymentDelivery ---------------------------
(***************************************************************************)
(* What the webhook path promises to the rest of the system, with its      *)
(* requests, retries, duplicates and crashes abstracted away: a payment is *)
(* stored once, by one of its deliveries, and for good; it is attached     *)
(* only to an order that exists; and it enters the stream only once        *)
(* stored, and at most once in each lifetime of its idempotency key.       *)
(* WebhookIntake implements this specification.                            *)
(***************************************************************************)
EXTENDS Naturals

CONSTANTS
  Events,      \* payments, by gatewayEventId
  Orders,      \* order ids
  OrderOf,     \* Events -> Orders: payload.orderId
  Deliveries,  \* what tells one delivery of a payment from another
  NoRow        \* no payment_events row with this gatewayEventId

VARIABLES
  orders,      \* ids of existing orders
  row,         \* payment_events
  published,   \* stream entries of the event
  expired      \* how often the event's idempotency key has expired

vars == <<orders, row, published, expired>>

Init ==
  /\ orders = {}
  /\ row = [e \in Events |-> NoRow]
  /\ published = [e \in Events |-> 0]
  /\ expired = [e \in Events |-> 0]

CreateOrder(o) ==
  /\ o \notin orders
  /\ orders' = orders \cup {o}
  /\ UNCHANGED <<row, published, expired>>

\* The order was looked up some time before: one that exists by now may have
\* been missed.
Store(e) ==
  /\ row[e] = NoRow
  /\ \E delivery \in Deliveries, found \in BOOLEAN :
       /\ found => OrderOf[e] \in orders
       /\ row' = [row EXCEPT ![e] = [from |-> delivery, attached |-> found]]
  /\ UNCHANGED <<orders, published, expired>>

Publish(e) ==
  /\ row[e] # NoRow
  /\ published[e] <= expired[e]
  /\ published' = [published EXCEPT ![e] = @ + 1]
  /\ UNCHANGED <<orders, row, expired>>

Expire(e) ==
  /\ expired' = [expired EXCEPT ![e] = @ + 1]
  /\ UNCHANGED <<orders, row, published>>

Next ==
  \/ \E o \in Orders : CreateOrder(o)
  \/ \E e \in Events : Store(e) \/ Publish(e) \/ Expire(e)

Spec == Init /\ [][Next]_vars
=============================================================================
