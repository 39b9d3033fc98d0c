----------------------------- MODULE MCMembers -----------------------------
(* Small instances of Members for TLC. *)
EXTENDS Members, TLC

RequestSymmetry == Permutations(Requests)
=============================================================================
