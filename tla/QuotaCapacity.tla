--------------------------- MODULE QuotaCapacity ---------------------------
(* The quota service implements the promise of module Capacity. *)
EXTENDS Quota

\* A reservation holds what is outstanding while it is open.
Claim(r) ==
    [stage |-> CASE r.status = "none" -> "none"
                 [] r.status = "reserved" -> "open"
                 [] OTHER -> "closed",
     period |-> r.period,
     left |-> IF r.status = "reserved" THEN Outstanding(r) ELSE 0]

\* The plan limit reserveTx has read and not yet used.
Quoted(j) ==
    IF j.op \in {"reserveLimited", "reserveAdmitted"}
    THEN {<<j.acct, j.limit>>}
    ELSE {}

Promise == INSTANCE Capacity WITH
    Keys <- ResKeys,
    ChargeKeys <- ConsumeKeys,
    Callers <- Clients,
    limit <- [a \in Accounts |-> Effective(limit[a])],
    granted <- [a \in Accounts |-> [p \in Periods |-> Granted(a, p)]],
    quote <- [c \in Clients |-> Quoted(job[c])],
    used <- used,
    claim <- [a \in Accounts |-> [k \in ResKeys |-> Claim(res[a][k])]],
    charged <- [a \in Accounts |->
                  {k \in ConsumeKeys : consumeIdem[a][k].amount > 0}]

\* The tables, row locks and transactions of the quota service behave like
\* the atomic operations of Capacity: a Reserve that compares the columns it
\* read under its lock with a plan limit and a sum of grants it read later,
\* and commits later still, grants only what the open reservations really
\* leave of that limit at the commit, whatever settles, releases, expires, is
\* charged or granted meanwhile.  It promises no more of the limit than the
\* code does: one that is lowered between the read and the commit does not
\* stop the reservation, since nothing locks the plan.
ImplementsCapacity == Promise!Spec
=============================================================================
