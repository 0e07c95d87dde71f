---------------------------- MODULE MCSettlement ----------------------------
(***************************************************************************)
(* Instances of Settlement for TLC.                                        *)
(***************************************************************************)
EXTENDS Settlement, TLC

CONSTANTS e1, e2, f1, f2, f3, q1, q2, q3

MCPayment == [e \in Events |-> [amount |-> IF e = e1 THEN 5 ELSE 7, currency |-> "USD"]]

Line(e, n, ok) == [event |-> e, amount |-> n, currency |-> "USD", storable |-> ok]

\* A file that confirms both payments, one that repeats the first, has a wrong
\* amount for the second and a row no column can hold, and one that a cfg may
\* declare malformed.
MCRows ==
  [f \in Files |->
     CASE f = f1 -> <<Line(e1, 5, TRUE), Line(e2, 7, TRUE)>>
       [] f = f2 -> <<Line(e1, 5, TRUE), Line(e2, 6, TRUE), Line(e2, 7, FALSE)>>
       [] f = f3 -> <<Line(e2, 6, TRUE), Line(e1, 5, TRUE)>>]

\* The requests are interchangeable.
Interchangeable == Permutations(Requests)
=============================================================================
