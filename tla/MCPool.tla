------------------------------- MODULE MCPool -------------------------------
(* Small instances of Pool for TLC. *)
EXTENDS Pool, TLC

CallerSymmetry == Permutations(Callers \ Impatient) \cup Permutations(Impatient)
=============================================================================
