--------------------------- MODULE Reconciliation ---------------------------
(***************************************************************************)
(* The pure decision logic of the reconciliation worker: reconcile()       *)
(* (services/reconciliation.service.ts), as operators.  Amounts,           *)
(* currencies and times are whatever the comparisons need: integers and    *)
(* model values.                                                           *)
(*                                                                         *)
(* A payment is [amount, currency, gatewayStatus, receivedAt]; an order is *)
(* [amount, currency, createdAt, status].  The `null' of the code's        *)
(* `order: ReconcilableOrder | null' is an order whose status is Absent.   *)
(***************************************************************************)
EXTENDS Integers

OrderStatus         == {"CREATED", "PAID", "CANCELLED", "REFUNDED"}
PaymentStatus       == {"SUCCESS", "FAILED", "PENDING", "REFUNDED"}
ReconciliationState == {"PENDING", "MATCHED", "MISMATCHED", "FAILED", "DEAD_LETTERED"}
MismatchReason      == {"AMOUNT_MISMATCH", "MISSING_ORDER", "DUPLICATE_PAYMENT",
                        "DELAYED_WEBHOOK", "STATUS_CONFLICT"}

Absent   == "ABSENT"      \* there is no such row
NoUpdate == "NO_UPDATE"   \* reconcile() leaves orderStatusUpdate undefined

(***************************************************************************)
(* What an existing order can have against a payment.  Both are read-only: *)
(* the status compared is the one the order had when it was read.          *)
(***************************************************************************)
\* Mutated: only the currency is compared.
WrongAmountMismatch(payment, order) == payment.currency # order.currency

AmountMismatch(payment, order) ==
  \/ payment.amount # order.amount
  \/ payment.currency # order.currency

DelayedWebhook(payment, order, delayThreshold) ==
  payment.receivedAt - order.createdAt > delayThreshold

\* Mutated: compares with the wrong status.
WrongDuplicatePayment(payment, order) ==
  payment.gatewayStatus = "SUCCESS" /\ order.status = "REFUNDED"

DuplicatePayment(payment, order) ==
  payment.gatewayStatus = "SUCCESS" /\ order.status = "PAID"

\* Mutated: only a second refund conflicts.
WrongStatusConflict(payment, order) ==
  payment.gatewayStatus = "REFUNDED" /\ order.status = "REFUNDED"

StatusConflict(payment, order) ==
  payment.gatewayStatus = "REFUNDED" /\ order.status # "PAID"

Applies(reason, payment, order, delayThreshold) ==
  \/ reason = "AMOUNT_MISMATCH"   /\ AmountMismatch(payment, order)
  \/ reason = "DELAYED_WEBHOOK"   /\ DelayedWebhook(payment, order, delayThreshold)
  \/ reason = "DUPLICATE_PAYMENT" /\ DuplicatePayment(payment, order)
  \/ reason = "STATUS_CONFLICT"   /\ StatusConflict(payment, order)

Mismatches(payment, order, delayThreshold) ==
  IF order.status = Absent
  THEN {"MISSING_ORDER"}
  ELSE {reason \in MismatchReason : Applies(reason, payment, order, delayThreshold)}

(***************************************************************************)
(* The status a matched payment moves its order to.                        *)
(***************************************************************************)
OrderStatusUpdate(payment) ==
  CASE payment.gatewayStatus = "SUCCESS"  -> "PAID"
    [] payment.gatewayStatus = "REFUNDED" -> "REFUNDED"
    [] OTHER                              -> NoUpdate

Verdict(payment, mismatches) ==
  CASE mismatches # {}                   -> "MISMATCHED"
    [] mismatches = {} /\ payment.gatewayStatus = "PENDING" -> "PENDING"
    [] OTHER                             -> "MATCHED"

Reconcile(payment, order, delayThreshold) ==
  LET mismatches == Mismatches(payment, order, delayThreshold)
  IN  [state      |-> Verdict(payment, mismatches),
       mismatches |-> mismatches,
       update     |-> IF mismatches = {} THEN OrderStatusUpdate(payment) ELSE NoUpdate]
=============================================================================
