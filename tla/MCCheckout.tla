----------------------------- MODULE MCCheckout -----------------------------
(***************************************************************************)
(* Small instances of Checkout for TLC.                                    *)
(***************************************************************************)
EXTENDS Checkout, TLC

CONSTANTS u1, p1, p2

MCBuyer == [k \in Checkout |-> u1]

OrderFaults(n) == [f \in {"crash", "database", "send", "timeout"} |->
                     IF f = "timeout" THEN 0 ELSE n]
NoOrderFault  == OrderFaults(0)
OneOrderFault == OrderFaults(1)
=============================================================================
