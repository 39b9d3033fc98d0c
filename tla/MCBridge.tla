------------------------------ MODULE MCBridge ------------------------------
(* A small instance of Bridge for TLC. *)
EXTENDS Bridge
=============================================================================
