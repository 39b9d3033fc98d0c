------------------------------ MODULE Capacity ------------------------------
(***************************************************************************)
(* What the quota service promises a product, with no tables, locks or     *)
(* transactions: a reservation is granted in one step, only if at that     *)
(* instant consumption, the open reservations and it fit under the grants  *)
(* and a plan limit its caller was quoted; it holds what is left of it     *)
(* until it is closed, and is closed once; an idempotency key is charged   *)
(* once.  A plan that changes does not withdraw the quotes given before.   *)
(***************************************************************************)
EXTENDS Integers, FiniteSets

CONSTANTS
    Accounts,       \* (workspace, counter key) pairs
    Keys,           \* idempotency keys of reservations
    ChargeKeys,     \* idempotency keys of charges
    Periods,        \* months
    Callers,        \* concurrent callers of Reserve
    MaxAmount       \* bound on the amount of one call

VARIABLES
    limit,          \* plan limit, by account
    granted,        \* grants, by account and period
    quote,          \* the account and limit a caller was quoted, at most one
    used,           \* what was consumed, by account and period
    claim,          \* reservations, by account and key
    charged         \* the keys already charged, by account

vars == <<limit, granted, quote, used, claim, charged>>

Stages == {"none", "open", "closed"}
Claims == [stage: Stages, period: Periods, left: 0..MaxAmount]

\* The units of capacity that open reservations withhold from a period.
Held(a, p) ==
    Cardinality({u \in Keys \X (1..MaxAmount) :
                   /\ claim[a][u[1]].period = p
                   /\ u[2] <= claim[a][u[1]].left})

Init ==
    /\ limit \in [Accounts -> Nat]
    /\ granted = [a \in Accounts |-> [p \in Periods |-> 0]]
    /\ quote = [c \in Callers |-> {}]
    /\ used = [a \in Accounts |-> [p \in Periods |-> 0]]
    /\ claim \in [Accounts -> [Keys -> [stage: {"none"}, period: Periods,
                                        left: {0}]]]
    /\ charged = [a \in Accounts |-> {}]

\* A caller is told the plan limit of an account.
Ask(c, a) ==
    /\ quote' = [quote EXCEPT ![c] = {<<a, limit[a]>>}]
    /\ UNCHANGED <<limit, granted, used, claim, charged>>

Forget(c) ==
    /\ quote' = [quote EXCEPT ![c] = {}]
    /\ UNCHANGED <<limit, granted, used, claim, charged>>

Reserve(c, a, k, p, n) ==
    /\ claim[a][k].stage = "none"
    /\ \E q \in quote[c] :
          q[1] = a /\ used[a][p] + Held(a, p) + n <= q[2] + granted[a][p]
    /\ quote' = [quote EXCEPT ![c] = {}]
    /\ claim' = [claim EXCEPT ![a][k] =
                   [stage |-> "open", period |-> p, left |-> n]]
    /\ UNCHANGED <<limit, granted, used, charged>>

Without(c, n) ==
    [c EXCEPT !.left = c.left - n,
              !.stage = IF n = c.left THEN "closed" ELSE "open"]

\* A part of a reservation, or all that is left of it, is given back.
Return(a, k, n) ==
    /\ claim[a][k].stage = "open"
    /\ n <= claim[a][k].left
    /\ claim' = [claim EXCEPT ![a][k] = Without(@, n)]
    /\ UNCHANGED <<limit, granted, quote, used, charged>>

\* A reservation is turned into consumption, of whatever was really used.
Settle(a, k, n) ==
    /\ claim[a][k].stage = "open"
    /\ claim' = [claim EXCEPT ![a][k] = Without(@, @.left)]
    /\ used' = [used EXCEPT ![a][claim[a][k].period] = @ + n]
    /\ UNCHANGED <<limit, granted, quote, charged>>

Expire(S) ==
    /\ \A r \in S : claim[r[1]][r[2]].stage = "open"
    /\ claim' = [a \in Accounts |-> [k \in Keys |->
                   IF <<a, k>> \in S
                   THEN Without(claim[a][k], claim[a][k].left)
                   ELSE claim[a][k]]]
    /\ UNCHANGED <<limit, granted, quote, used, charged>>

\* Consumption; K is empty or the key of the charge.
Charge(a, p, n, K) ==
    /\ K \cap charged[a] = {}
    /\ used' = [used EXCEPT ![a][p] = @ + n]
    /\ charged' = [charged EXCEPT ![a] = @ \cup K]
    /\ UNCHANGED <<limit, granted, quote, claim>>

Refund(a, p, n) ==
    /\ n <= used[a][p]
    /\ used' = [used EXCEPT ![a][p] = @ - n]
    /\ UNCHANGED <<limit, granted, quote, claim, charged>>

\* The plan changes.
PlanChange ==
    /\ limit' \in [Accounts -> Nat]
    /\ UNCHANGED <<granted, quote, used, claim, charged>>

\* Grants arrive; none is withdrawn.
Grant ==
    /\ granted' \in [Accounts -> [Periods -> Nat]]
    /\ \A a \in Accounts, p \in Periods : granted[a][p] <= granted'[a][p]
    /\ UNCHANGED <<limit, quote, used, claim, charged>>

Next ==
    \/ \E c \in Callers, a \in Accounts :
          \/ Ask(c, a)
          \/ \E k \in Keys, p \in Periods, n \in 1..MaxAmount :
                Reserve(c, a, k, p, n)
    \/ \E c \in Callers : Forget(c)
    \/ \E a \in Accounts, k \in Keys, n \in 0..MaxAmount :
          \/ n > 0 /\ Return(a, k, n)
          \/ Settle(a, k, n)
    \/ \E S \in SUBSET (Accounts \X Keys) : Expire(S)
    \/ \E a \in Accounts, p \in Periods, n \in 1..MaxAmount :
          \/ Charge(a, p, n, {})
          \/ \E k \in ChargeKeys : Charge(a, p, n, {k})
          \/ Refund(a, p, n)
    \/ PlanChange
    \/ Grant

Spec == Init /\ [][Next]_vars
=============================================================================
