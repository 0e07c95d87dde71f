--------------------------- MODULE MCWebhookIntake ---------------------------
(***************************************************************************)
(* Instances of WebhookIntake for TLC.                                     *)
(***************************************************************************)
EXTENDS WebhookIntake, TLC

CONSTANTS e1, e2, o1

\* Both payments are for one order.
MCOrderOf == [e \in Events |-> o1]

\* The two payments are interchangeable.
Interchangeable == Permutations(Events)
=============================================================================
