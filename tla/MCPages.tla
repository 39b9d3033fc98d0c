------------------------------ MODULE MCPages ------------------------------
(* Small instances of Pages for TLC. *)
EXTENDS Pages, TLC

ProcSymmetry == Permutations(Requests) \cup Permutations(Publishers)
=============================================================================
