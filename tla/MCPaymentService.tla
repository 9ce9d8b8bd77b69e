-------------------------- MODULE MCPaymentService --------------------------
(***************************************************************************)
(* A small instance of PaymentService for TLC.                             *)
(***************************************************************************)
EXTENDS PaymentService

CONSTANTS o1

\* A checkout, and a request with an unknown uri that awaits no answer.
MCRequests == { [id |-> "s", uri |-> "create-session", order |-> o1, answer |-> TRUE],
                [id |-> "x", uri |-> "other", order |-> o1, answer |-> FALSE] }
=============================================================================
