----------------------------- MODULE MCPayRecon -----------------------------
(***************************************************************************)
(* Two orders and a list that holds one.  Pressed for on the page are two  *)
(* payments of the first order (e1, e2) and one of the second (e6); from   *)
(* elsewhere come a refund (e3), a payment (e4) and one of the wrong       *)
(* amount (e5) of the first.  The bank's file confirms e4 and, at its      *)
(* wrong amount, e5.                                                       *)
(***************************************************************************)
EXTENDS PayRecon

CONSTANTS e1, e2, e3, e4, e5, e6, o1, o2, f1, q1

MCOrderData ==
  [o \in Orders |-> [amount |-> 10, currency |-> "INR", createdAt |-> 0]]

MCPayment ==
  [e \in Events |->
     [orderId |-> IF e = e6 THEN o2 ELSE o1,
      amount |-> IF e = e5 THEN 9 ELSE 10,
      currency |-> "INR",
      gatewayStatus |-> IF e = e3 THEN "REFUNDED" ELSE "SUCCESS",
      receivedAt |-> 1]]

Line(e, n) == [event |-> e, amount |-> n, currency |-> "INR", storable |-> TRUE]

MCRows == [f \in Files |-> <<Line(e4, 10), Line(e5, 9)>>]
=============================================================================
