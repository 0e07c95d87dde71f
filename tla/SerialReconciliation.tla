------------------------ MODULE SerialReconciliation ------------------------
(***************************************************************************)
(* What reconciliation promises when nothing interleaves and nothing is    *)
(* cut short: an event is processed in one atomic step that judges it,     *)
(* moves its order, books the money and records the verdict.  In the code  *)
(* the order moves one await before the money is booked.                   *)
(* ReconciliationWorker implements this specification when no two workers  *)
(* touch one order (see SerialWorker), however deliveries, retries and     *)
(* failures outside the status write and the booking fall.                 *)
(***************************************************************************)
EXTENDS Reconciliation, Ledger

CONSTANTS Events, Orders, Payment, OrderData, DelayThreshold,
          Bookable         \* bound: how many ledger pairs an event may have

VARIABLES orders, state, bookings

vars == <<orders, state, bookings>>

OrderOf(e) == Payment[e].orderId

Init ==
  /\ orders = [o \in Orders |-> Absent]
  /\ state = [e \in Events |-> Absent]
  /\ bookings = [e \in Events |-> 0]

CreateOrder(o) ==
  /\ orders[o] = Absent
  /\ orders' = [orders EXCEPT ![o] = "CREATED"]
  /\ UNCHANGED <<state, bookings>>

Receive(e) ==
  /\ state[e] = Absent
  /\ state' = [state EXCEPT ![e] = "PENDING"]
  /\ UNCHANGED <<orders, bookings>>

\* The order may have been created while the event was being judged.
Snapshots(o) ==
  {orders[o]} \cup (IF orders[o] = "CREATED" THEN {Absent} ELSE {})

OrderAs(o, status) ==
  [amount |-> OrderData[o].amount, currency |-> OrderData[o].currency,
   createdAt |-> OrderData[o].createdAt, status |-> status]

Process(e) ==
  /\ state[e] # Absent
  /\ \E seen \in Snapshots(OrderOf(e)) :
       LET result == Reconcile(Payment[e], OrderAs(OrderOf(e), seen), DelayThreshold)
       IN  /\ state' = [state EXCEPT ![e] = result.state]
           /\ IF result.update = NoUpdate
              THEN UNCHANGED <<orders, bookings>>
              ELSE /\ bookings[e] + 1 \in Bookable
                   /\ bookings' = [bookings EXCEPT ![e] = @ + 1]
                   /\ orders' = [orders EXCEPT ![OrderOf(e)] = result.update]

\* Processing threw: the failure is recorded and nothing else changes.
Fail(e) ==
  /\ state[e] # Absent
  /\ \E s \in {"FAILED", "DEAD_LETTERED"} : state' = [state EXCEPT ![e] = s]
  /\ UNCHANGED <<orders, bookings>>

Next ==
  \/ \E o \in Orders : CreateOrder(o)
  \/ \E e \in Events : Receive(e) \/ Process(e) \/ Fail(e)

Spec == Init /\ [][Next]_vars

-----------------------------------------------------------------------------
\* The ledger pairs of the order's events that arrived with this gateway status.
PairsAs(o, status) ==
  UNION {{<<e, n>> : n \in 1 .. bookings[e]} :
           e \in {f \in Events : OrderOf(f) = o /\ Payment[f].gatewayStatus = status}}

BookedAs(o, status) == Cardinality(PairsAs(o, status))

\* The ledger agrees with the order: what was booked in, less what was booked
\* out, is one payment while the order is PAID and none otherwise - through
\* any sequence of duplicates, second payments, refunds and re-processing.
NetBooking ==
  \A o \in Orders :
    BookedAs(o, "SUCCESS") - BookedAs(o, "REFUNDED")
      = IF orders[o] = "PAID" THEN 1 ELSE 0

\* The rows of ledger_entries: those of every transaction booked.
Entries ==
  UNION {{[event |-> e, transaction |-> n, accountType |-> draft.accountType,
           direction |-> draft.direction, amount |-> draft.amount] :
            n \in 1 .. bookings[e],
            draft \in CreateLedgerEntries(Payment[e], OrderStatusUpdate(Payment[e]))} :
         e \in Events}

\* The trial balance GET /ledger/balance reports nets to zero, and its
\* receivables are what the orders say: the amount of each order that is PAID,
\* and twice the amount for every refund, which books a second pair.
BalanceFollowsOrders ==
  LET balance     == GetBalance(Entries)
      receivables == {a \in balance.accounts : a.accountType = "GATEWAY_RECEIVABLE"}
      expected(o) == OrderData[o].amount *
                       (2 * BookedAs(o, "REFUNDED") + (IF orders[o] = "PAID" THEN 1 ELSE 0))
  IN  /\ balance.overallNet = 0
      /\ NetOf(receivables) = SumFunction([o \in Orders |-> expected(o)])
=============================================================================
