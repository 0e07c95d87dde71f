---------------------------- MODULE SerialWorker ----------------------------
(***************************************************************************)
(* ReconciliationWorker implements SerialReconciliation: the status write  *)
(* and the ledger transaction of one run look like one step, at the commit *)
(* of the transaction, when no other worker touches the order and neither  *)
(* call fails.                                                             *)
(***************************************************************************)
EXTENDS MCReconciliationWorker

\* Until the worker that wrote the status commits the ledger transaction, the
\* order still counts as having the status the worker read.
SettledOrders ==
  [o \in Orders |->
     LET booking == {w \in Workers : pc[w] = "book" /\ OrderOf(Current(w)) = o}
     IN  IF booking = {} THEN orders[o] ELSE job[CHOOSE w \in booking : TRUE].seen]

Serial == INSTANCE SerialReconciliation WITH
            orders <- SettledOrders, Bookable <- Nat

\* One worker, or workers on different orders, process atomically.
ImplementsSerial == Serial!Spec

\* The labels at which a worker relies on the order status it has read.
Judging == {"attach", "mismatch", "status", "book", "mark"}

\* No order is judged by two workers at a time.
OneRunPerOrder ==
  \A v, w \in Workers :
    pc[v] \in Judging /\ pc[w] \in Judging /\ OrderOf(Current(v)) = OrderOf(Current(w))
      => v = w

\* A step that does not part a status write from its booking: neither is a
\* status written by a call that throws, nor does a worker leave before it books.
KeepsWhole ==
  \A w \in Workers :
    /\ pc[w] = "status" /\ orders' # orders => pc'[w] \in {"status", "book"}
    /\ pc[w] = "book" /\ pc'[w] # "book" => bookings' # bookings
=============================================================================
