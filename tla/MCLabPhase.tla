----------------------------- MODULE MCLabPhase -----------------------------
(* Two workers, two checkouts and a read, and a batch job that locks the    *)
(* customer row and the orders in the other order than a checkout does.     *)
EXTENDS LabPhase

CONSTANTS w1, w2, batch, order, customer

MCCheckoutRows == <<order, customer>>
MCBatchRows    == <<customer, order>>
=============================================================================
