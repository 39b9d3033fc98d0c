----------------------------- MODULE MCBilling -----------------------------
(* Small instances of Billing for TLC. *)
EXTENDS Billing

CONSTANT a

AllEvents == Kinds \X {a}
=============================================================================
