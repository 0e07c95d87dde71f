------------------------------- MODULE Ledger -------------------------------
(***************************************************************************)
(* Double-entry bookkeeping as operators: the rows the worker books for a  *)
(* payment (createLedgerEntries, services/ledger.service.ts of the worker) *)
(* and the trial balance ingestion reports (getBalance, ledger.service.ts  *)
(* of ingestion).  A row is a record with at least accountType, direction  *)
(* and amount.                                                             *)
(***************************************************************************)
EXTENDS Integers, FiniteSets, Functions

Draft(accountType, direction, payment) ==
  [accountType |-> accountType, direction |-> direction,
   amount |-> payment.amount, currency |-> payment.currency]

\* Mutated: the refund's credit side is left out.
WrongCreateLedgerEntries(payment, orderStatusUpdate) ==
  {Draft("GATEWAY_RECEIVABLE", "DEBIT", payment)} \cup
  (IF orderStatusUpdate = "PAID"
     THEN {Draft("MERCHANT_PAYABLE", "CREDIT", payment)} ELSE {})

\* A refund mirrors the pair of its payment, in the same direction.
CreateLedgerEntries(payment, orderStatusUpdate) ==
  IF orderStatusUpdate \in {"PAID", "REFUNDED"}
    THEN {Draft("GATEWAY_RECEIVABLE", "DEBIT", payment),
          Draft("MERCHANT_PAYABLE", "CREDIT", payment)}
    ELSE {}

SumOf(rows) == SumFunction([r \in rows |-> r.amount])

\* aggregateBalance: one group per account and direction that has rows.
\* Currencies are summed together.
AggregateBalance(rows) ==
  {[accountType |-> r.accountType, direction |-> r.direction,
    total |-> SumOf({s \in rows : s.accountType = r.accountType
                               /\ s.direction = r.direction})] : r \in rows}

TotalOf(groups, accountType, isDebit) ==
  LET mine == {g \in groups : g.accountType = accountType
                           /\ (g.direction = "DEBIT") = isDebit}
  IN  SumFunction([g \in mine |-> g.total])

NetOf(accounts) == SumFunction([a \in accounts |-> a.net])

\* getBalance: what is not DEBIT counts as credit.
GetBalance(rows) ==
  LET groups   == AggregateBalance(rows)
      debit(a) == TotalOf(groups, a, TRUE)
      credit(a) == TotalOf(groups, a, FALSE)
      accounts ==
        {[accountType |-> a, totalDebit |-> debit(a), totalCredit |-> credit(a),
          net |-> debit(a) - credit(a)] : a \in {g.accountType : g \in groups}}
  IN  [accounts |-> accounts, overallNet |-> NetOf(accounts)]
=============================================================================
