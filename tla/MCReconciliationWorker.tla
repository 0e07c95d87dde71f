----------------------- MODULE MCReconciliationWorker -----------------------
(***************************************************************************)
(* Small instances of ReconciliationWorker for TLC.                        *)
(***************************************************************************)
EXTENDS ReconciliationWorker, TLC

CONSTANTS w1, w2, e1, e2, o1, o2

Interchangeable == Permutations(Workers)

Order == [amount |-> 10, currency |-> "INR", createdAt |-> 0]

Pays(order, status) ==
  [orderId |-> order, amount |-> 10, currency |-> "INR",
   gatewayStatus |-> status, receivedAt |-> 1]

MCOrderData == [o \in Orders |-> Order]

\* Payments of one order.
OneOrder == [e \in Events |-> Pays(o1, "SUCCESS")]

\* Bound: failing calls, exits and overruns together, fewer with the second
\* payment, which comes after the first.
FewTroubles ==
  /\ state[e2] # Absent => state[e1] # Absent
  /\ faults + exits + overruns <= IF state[e2] = Absent THEN 3 ELSE 1

\* A payment of an order and its refund.
PaymentAndRefund == [e \in Events |-> Pays(o1, IF e = e1 THEN "SUCCESS" ELSE "REFUNDED")]

\* Payments of different orders, of which the second comes too late.
TwoOrders ==
  [e \in Events |->
     IF e = e1 THEN Pays(o1, "SUCCESS") ELSE [Pays(o2, "SUCCESS") EXCEPT !.receivedAt = 5]]
=============================================================================
