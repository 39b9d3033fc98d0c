------------------------------ MODULE MCQuota ------------------------------
(* Small instances of Quota for TLC. *)
EXTENDS QuotaCapacity, TLC, Functions

\* Two months; a reservation may be under way when the first one ends.
TwoMonths == [t \in 0..MaxTime |-> IF t = 0 THEN 0 ELSE 1]

\* A plan without a limit and one with room for a single unit.
PlanLimits == {-1, 1}

\* Counting units is adding up: Total agrees with a fold of addition.
ASSUME TotalAgrees ==
    \A f \in [1..3 -> 0..MaxAmount] :
       Total(f) = FoldFunction(LAMBDA x, y : x + y, 0, f)

ClientSymmetry == Permutations(Clients)
KeySymmetry ==
    Permutations(Clients) \cup Permutations(ResKeys) \cup Permutations(CallKeys)
=============================================================================
