------------------------------- MODULE Quota -------------------------------
(***************************************************************************)
(* The quota service (quota/): metered counters with a plan limit, grants  *)
(* that raise it for a period, reservations that hold capacity until they  *)
(* are settled, released or expired, and the two background workers.       *)
(*                                                                         *)
(* An account is a (workspace, counter key) pair.  The state is the        *)
(* committed content of the quota tables together with the transactions    *)
(* in flight (job).  A step is one statement, or one transaction where     *)
(* its row locks make it indivisible; what a transaction has read and      *)
(* not yet used is kept in its job.                                        *)
(***************************************************************************)
EXTENDS Integers, FiniteSets

CONSTANTS
    Accounts,       \* (workspace, counter key) pairs
    Clients,        \* concurrent callers of the service
    ResKeys,        \* idempotency keys of Reserve
    ConsumeKeys,    \* idempotency keys of ConsumeWith
    CallKeys,       \* idempotency keys of ReleaseReservation
    Refs,           \* (reason, ref_id) pairs of grants
    NoKey,          \* Consume without an idempotency key
    Limits,         \* plan limits in use; a negative one means unlimited
    Modes,          \* limit modes in use, a subset of {"hard", "soft"}
    Unlimited,      \* the value 1 << 62 that stands for no limit
    MaxAmount,      \* bound on the amount of one call
    MaxUsed,        \* bound on a counter beyond which no Consume starts
    ConsumeAmounts, ReserveAmounts, SettleAmounts,
    ReleaseAmounts, RefundAmounts, GrantAmounts,   \* inputs of the calls
    TTLs,           \* reservation lifetimes, in ticks
    Batch,          \* ExpiryWorker.Batch
    MaxTime,        \* bound on the clock
    Calendar        \* the month each instant falls in

Times == 0..MaxTime

ASSUME FiniteAssumption ==
    /\ IsFiniteSet(ResKeys)
    /\ IsFiniteSet(ConsumeKeys)
    /\ IsFiniteSet(Refs)

ASSUME KeyAssumption == NoKey \notin ConsumeKeys

ASSUME LimitAssumption ==
    /\ Limits \subseteq Int
    /\ Unlimited \in Nat
    /\ Modes \subseteq {"hard", "soft"}

ASSUME AmountAssumption ==
    /\ MaxAmount \in Nat
    /\ MaxUsed \in Nat
    /\ ConsumeAmounts \subseteq 1..MaxAmount
    /\ ReserveAmounts \subseteq 1..MaxAmount
    /\ SettleAmounts \subseteq 0..MaxAmount
    /\ ReleaseAmounts \subseteq 0..MaxAmount
    /\ RefundAmounts \subseteq 1..MaxAmount
    /\ GrantAmounts \subseteq 1..MaxAmount

ASSUME TimeAssumption ==
    /\ MaxTime \in Nat
    /\ TTLs \subseteq Nat
    /\ Batch \in Nat \ {0}
    /\ Calendar \in [Times -> Nat]
    /\ \A s, t \in Times : s <= t => Calendar[s] <= Calendar[t]

VARIABLES
    now,            \* the clock of the service and of the database
    limit, mode,    \* the plan of the account's workspace
    used, reserved, \* quota_counter; an absent row reads as zeros
    res,            \* quota_reservation, by account and idempotency key
    consumeIdem,    \* quota_consume_idem; amount 0 is an absent row
    grants,         \* quota_grant; amount 0 is an absent row
    job,            \* the transaction each client has in flight
    direct,         \* history: what keyless calls did to used
    overage,        \* history: consumption allowed above the limit
    peak            \* history: the highest limit ever in force

vars == <<now, limit, mode, used, reserved, res, consumeIdem, grants, job,
          direct, overage, peak>>

-----------------------------------------------------------------------------
(* Rows *)

Periods == {Calendar[t] : t \in Times}
Period(t) == Calendar[t]

Statuses == {"none", "reserved", "settled", "released", "expired"}

Reservations ==
    [status: Statuses, period: Periods, amount: 0..MaxAmount,
     settled: 0..MaxAmount, released: 0..MaxAmount,
     releaseKeys: SUBSET CallKeys, expiresAt: Nat]

NoReservation ==
    [status |-> "none", period |-> Period(0), amount |-> 0, settled |-> 0,
     released |-> 0, releaseKeys |-> {}, expiresAt |-> 0]

Outstanding(r) == r.amount - r.released

IdemRows == [period: Periods, amount: 0..MaxAmount]
NoIdem == [period |-> Period(0), amount |-> 0]

\* RefreshPeriodicGrants stores the row it derives from a template under
\* ref_id || '#' || period; the row a caller granted has the bare ref_id.
Base == -1
GrantIds == Refs \X (Periods \cup {Base})
GrantRows == [period: Periods, amount: 0..MaxAmount, monthly: BOOLEAN]
NoGrant == [period |-> Period(0), amount |-> 0, monthly |-> FALSE]

-----------------------------------------------------------------------------
(* Sums.  Every summand is at most MaxAmount, so a sum is the number of    *)
(* pairs of a summand and one of its units.                                *)

Units(f) == {u \in (DOMAIN f) \X (1..MaxAmount) : u[2] <= f[u[1]]}
Total(f) == Cardinality(Units(f))

Granted(a, p) ==
    Total([g \in GrantIds |->
             IF grants[a][g].period = p THEN grants[a][g].amount ELSE 0])

\* What reservation r holds of the capacity of period p.
HeldIn(r, p) ==
    IF r.status = "reserved" /\ r.period = p THEN Outstanding(r) ELSE 0
Held(a, p) == Total([k \in ResKeys |-> HeldIn(res[a][k], p)])

SettledIn(r, p) == IF r.period = p THEN r.settled ELSE 0
Settled(a, p) == Total([k \in ResKeys |-> SettledIn(res[a][k], p)])

ConsumedOnce(a, p) ==
    Total([k \in ConsumeKeys |-> IF consumeIdem[a][k].period = p
                                 THEN consumeIdem[a][k].amount ELSE 0])

-----------------------------------------------------------------------------
(* Transactions in flight and the row locks they hold *)

Idle == [op |-> "idle"]

ConsumeJobs ==
    [op: {"consume"}, acct: Accounts, key: ConsumeKeys \cup {NoKey},
     n: 1..MaxAmount, period: Periods, limit: Nat, soft: BOOLEAN]

ReserveJobs ==
    [op: {"reserve"}, acct: Accounts, key: ResKeys, n: 1..MaxAmount,
     period: Periods, expiresAt: Nat]

\* The stages of reserveTx once it holds the counter row: before it reads
\* the plan, before it reads the grants, and before it writes.
LockedOps == {"reserveLocked", "reserveLimited", "reserveAdmitted"}

LockedJobs ==
    [op: LockedOps, acct: Accounts, key: ResKeys, n: 1..MaxAmount,
     period: Periods, expiresAt: Nat, used: Nat, reserved: Nat, limit: Nat]

SettleJobs ==
    [op: {"settle"}, acct: Accounts, key: ResKeys, n: 0..MaxAmount,
     row: Reservations]

ReleaseJobs ==
    [op: {"release"}, acct: Accounts, key: ResKeys, n: 0..MaxAmount,
     row: Reservations, call: CallKeys]

Jobs == {Idle} \cup ConsumeJobs \cup ReserveJobs \cup LockedJobs
               \cup SettleJobs \cup ReleaseJobs

\* Mutants: a counter that is read without being locked, and a reservation
\* row that is read without FOR UPDATE.
CounterNotLocked(a, p) == FALSE
RowNotLocked(a, k) == FALSE

\* The upsert of reserveTx locks the counter row until its transaction ends.
CounterLocked(a, p) ==
    \E c \in Clients : /\ job[c].op \in LockedOps
                       /\ job[c].acct = a
                       /\ job[c].period = p

\* SELECT ... FOR UPDATE in Settle and ReleaseReservation.
RowLocked(a, k) ==
    \E c \in Clients : /\ job[c].op \in {"settle", "release"}
                       /\ job[c].acct = a
                       /\ job[c].key = k

Finish(c) == job' = [job EXCEPT ![c] = Idle]

\* A negative limit is replaced by 1 << 62.
Effective(l) == IF l < 0 THEN Unlimited ELSE l

\* GREATEST(0, n)
AtLeastZero(n) == IF n < 0 THEN 0 ELSE n

\* Whether a consumption above the limit is admitted (limit_mode).
IsSoft(m) == m = "soft"

-----------------------------------------------------------------------------
Init ==
    /\ now = 0
    /\ limit \in [Accounts -> Limits]
    /\ mode \in [Accounts -> Modes]
    /\ used = [a \in Accounts |-> [p \in Periods |-> 0]]
    /\ reserved = [a \in Accounts |-> [p \in Periods |-> 0]]
    /\ res = [a \in Accounts |-> [k \in ResKeys |-> NoReservation]]
    /\ consumeIdem = [a \in Accounts |-> [k \in ConsumeKeys |-> NoIdem]]
    /\ grants = [a \in Accounts |-> [g \in GrantIds |-> NoGrant]]
    /\ job = [c \in Clients |-> Idle]
    /\ direct = [a \in Accounts |-> [p \in Periods |-> 0]]
    /\ overage = [a \in Accounts |-> [p \in Periods |-> 0]]
    /\ peak = [a \in Accounts |-> Effective(limit[a])]

\* Billing or an administrator moves the workspace to another plan, or edits
\* the limits of its plan.
PlanChange(a, l, m) ==
    /\ limit' = [limit EXCEPT ![a] = l]
    /\ mode' = [mode EXCEPT ![a] = m]
    /\ peak' = [peak EXCEPT ![a] = IF Effective(l) > @ THEN Effective(l)
                                                       ELSE @]
    /\ UNCHANGED <<now, used, reserved, res, consumeIdem, grants, job,
                   direct, overage>>

-----------------------------------------------------------------------------
(* Consume and ConsumeWith *)

\* The plan is read outside the transaction that charges the counter.
ConsumeBegin(c, a, k, n) ==
    /\ job[c] = Idle
    /\ used[a][Period(now)] < MaxUsed /\ overage[a][Period(now)] < MaxUsed
    /\ job' = [job EXCEPT ![c] =
                 [op |-> "consume", acct |-> a, key |-> k, n |-> n,
                  period |-> Period(now), limit |-> Effective(limit[a]),
                  soft |-> IsSoft(mode[a])]]
    /\ UNCHANGED <<now, limit, mode, used, reserved, res, consumeIdem,
                   grants, direct, overage, peak>>

\* Mutants: a charge repeated for a known idempotency key, and a limit that
\* disregards what is reserved.
NeverReplayed(j) == FALSE
AdmittedOverReserved(j) ==
    \/ j.soft
    \/ used[j.acct][j.period] + j.n <= j.limit + Granted(j.acct, j.period)

\* The idempotency row is already there: ON CONFLICT DO NOTHING.
Replayed(j) == j.key # NoKey /\ consumeIdem[j.acct][j.key].amount > 0

\* The condition of the upsert of consumeOnce.
Admitted(j) ==
    \/ j.soft
    \/ used[j.acct][j.period] + j.n + reserved[j.acct][j.period]
          <= j.limit + Granted(j.acct, j.period)

\* The caller is told of a replay or of an exceeded quota; nothing is stored.
ConsumeRefuse(c) ==
    /\ job[c].op = "consume"
    /\ \/ Replayed(job[c])
       \/ /\ ~CounterLocked(job[c].acct, job[c].period)
          /\ ~Admitted(job[c])
    /\ Finish(c)
    /\ UNCHANGED <<now, limit, mode, used, reserved, res, consumeIdem,
                   grants, direct, overage, peak>>

ConsumeApply(c) ==
    LET j == job[c]
        a == job[c].acct
        p == job[c].period
    IN  /\ j.op = "consume"
        /\ ~CounterLocked(a, p)
        /\ ~Replayed(j)
        /\ Admitted(j)
        /\ used' = [used EXCEPT ![a][p] = @ + j.n]
        /\ IF j.key = NoKey
           THEN /\ direct' = [direct EXCEPT ![a][p] = @ + j.n]
                /\ UNCHANGED consumeIdem
           ELSE /\ consumeIdem' = [consumeIdem EXCEPT ![a][j.key] =
                                     [period |-> p, amount |-> j.n]]
                /\ UNCHANGED direct
        /\ overage' = [overage EXCEPT ![a][p] =
                         IF j.soft THEN @ + j.n ELSE @]
        /\ Finish(c)
        /\ UNCHANGED <<now, limit, mode, reserved, res, grants, peak>>

\* Release (of consumption): a compensating decrement of the counter of the
\* current month, whichever month was charged.
Refund(a, n) ==
    LET p == Period(now)
        u == AtLeastZero(used[a][p] - n)
    IN  /\ ~CounterLocked(a, p)
        /\ used' = [used EXCEPT ![a][p] = u]
        /\ direct' = [direct EXCEPT ![a][p] = @ - (used[a][p] - u)]
        /\ UNCHANGED <<now, limit, mode, reserved, res, consumeIdem, grants,
                       job, overage, peak>>

-----------------------------------------------------------------------------
(* Reserve *)

\* The look-up of the idempotency key before the transaction; an existing
\* reservation is returned at once.  The clock bound keeps every deadline
\* within the modelled time.
ReserveBegin(c, a, k, n, ttl) ==
    /\ job[c] = Idle
    /\ res[a][k].status = "none"
    /\ now + ttl <= MaxTime
    /\ job' = [job EXCEPT ![c] =
                 [op |-> "reserve", acct |-> a, key |-> k, n |-> n,
                  period |-> Period(now), expiresAt |-> now + ttl]]
    /\ UNCHANGED <<now, limit, mode, used, reserved, res, consumeIdem,
                   grants, direct, overage, peak>>

\* The upsert that locks the counter row and returns it, then the second
\* look-up of the idempotency key.
ReserveLock(c) ==
    LET j == job[c]
        a == job[c].acct
        p == job[c].period
    IN  /\ j.op = "reserve"
        /\ ~CounterLocked(a, p)
        /\ job' = [job EXCEPT ![c] =
                     IF res[a][j.key].status # "none" THEN Idle
                     ELSE [op |-> "reserveLocked", acct |-> a, key |-> j.key,
                           n |-> j.n, period |-> p,
                           expiresAt |-> j.expiresAt, used |-> used[a][p],
                           reserved |-> reserved[a][p], limit |-> 0]]
        /\ UNCHANGED <<now, limit, mode, used, reserved, res, consumeIdem,
                       grants, direct, overage, peak>>

\* The plan of the workspace is read by a statement of its own, which locks
\* nothing: it may have changed by the time the transaction commits.
ReserveReadPlan(c) ==
    /\ job[c].op = "reserveLocked"
    /\ job' = [job EXCEPT ![c] =
                 [@ EXCEPT !.op = "reserveLimited",
                           !.limit = Effective(limit[job[c].acct])]]
    /\ UNCHANGED <<now, limit, mode, used, reserved, res, consumeIdem,
                   grants, direct, overage, peak>>

\* Mutant: reservations compete with consumption only.
AvailableOverReserved(j) == j.limit + Granted(j.acct, j.period) - j.used

\* What the limit read before leaves, with the grants of this instant.
Available(j) ==
    j.limit + Granted(j.acct, j.period) - j.used - j.reserved

\* The grants are summed by the next statement, and the decision follows
\* from the four numbers; an exhausted quota is rolled back at once.
ReserveDecide(c) ==
    LET j == job[c]
    IN  /\ j.op = "reserveLimited"
        /\ job' = [job EXCEPT ![c] =
                     IF Available(j) < j.n THEN Idle
                     ELSE [j EXCEPT !.op = "reserveAdmitted"]]
        /\ UNCHANGED <<now, limit, mode, used, reserved, res, consumeIdem,
                       grants, direct, overage, peak>>

\* A reservation of another month took the idempotency key since the second
\* look-up: the insert hits ON CONFLICT and all is rolled back.
ReserveRefuse(c) ==
    LET j == job[c]
    IN  /\ j.op = "reserveAdmitted"
        /\ res[j.acct][j.key].status # "none"
        /\ Finish(c)
        /\ UNCHANGED <<now, limit, mode, used, reserved, res, consumeIdem,
                       grants, direct, overage, peak>>

ReserveCommit(c) ==
    LET j == job[c]
        a == job[c].acct
        p == job[c].period
    IN  /\ j.op = "reserveAdmitted"
        /\ res[a][j.key].status = "none"
        /\ reserved' = [reserved EXCEPT ![a][p] = @ + j.n]
        /\ res' = [res EXCEPT ![a][j.key] =
                     [status |-> "reserved", period |-> p, amount |-> j.n,
                      settled |-> 0, released |-> 0, releaseKeys |-> {},
                      expiresAt |-> j.expiresAt]]
        /\ Finish(c)
        /\ UNCHANGED <<now, limit, mode, used, consumeIdem, grants, direct,
                       overage, peak>>

-----------------------------------------------------------------------------
(* Settle and ReleaseReservation: the row is read and locked, then the     *)
(* counter and the row are written.  A call that finds a closed            *)
(* reservation, or an idempotency key already used, changes nothing.  The  *)
(* key of Settle only tells a replay from a conflict in that answer, so    *)
(* the model leaves it out.                                                *)

SettleBegin(c, a, k, n) ==
    /\ job[c] = Idle
    /\ ~RowLocked(a, k)
    /\ res[a][k].status = "reserved"
    /\ job' = [job EXCEPT ![c] =
                 [op |-> "settle", acct |-> a, key |-> k, n |-> n,
                  row |-> res[a][k]]]
    /\ UNCHANGED <<now, limit, mode, used, reserved, res, consumeIdem,
                   grants, direct, overage, peak>>

SettleCommit(c) ==
    LET j == job[c]
        a == job[c].acct
        p == job[c].row.period
        o == Outstanding(job[c].row)
    IN  /\ j.op = "settle"
        /\ ~CounterLocked(a, p)
        /\ used' = [used EXCEPT ![a][p] = @ + j.n]
        /\ reserved' = [reserved EXCEPT ![a][p] = AtLeastZero(@ - o)]
        /\ res' = [res EXCEPT ![a][j.key] =
                     IF @.status # "reserved" THEN @
                     ELSE [@ EXCEPT !.status = "settled", !.settled = j.n]]
        /\ overage' = [overage EXCEPT ![a][p] = @ + AtLeastZero(j.n - o)]
        /\ Finish(c)
        /\ UNCHANGED <<now, limit, mode, consumeIdem, grants, direct, peak>>

ReleaseBegin(c, a, k, n, call) ==
    /\ job[c] = Idle
    /\ ~RowLocked(a, k)
    /\ res[a][k].status = "reserved"
    /\ call \notin res[a][k].releaseKeys
    /\ job' = [job EXCEPT ![c] =
                 [op |-> "release", acct |-> a, key |-> k, n |-> n,
                  row |-> res[a][k], call |-> call]]
    /\ UNCHANGED <<now, limit, mode, used, reserved, res, consumeIdem,
                   grants, direct, overage, peak>>

\* Mutant: a release is not limited to what is outstanding.
ReleasedUnclamped(j) == IF j.n = 0 THEN Outstanding(j.row) ELSE j.n

\* A release of 0, or of more than is outstanding, releases all of it.
ReleasedBy(j) ==
    IF j.n = 0 \/ j.n > Outstanding(j.row) THEN Outstanding(j.row) ELSE j.n

AfterRelease(r, n, call) ==
    [r EXCEPT !.released = r.released + n,
              !.releaseKeys = r.releaseKeys \cup {call},
              !.status = IF r.released + n >= r.amount THEN "released"
                                                       ELSE r.status]

ReleaseCommit(c) ==
    LET j == job[c]
        a == job[c].acct
        p == job[c].row.period
        n == ReleasedBy(job[c])
    IN  /\ j.op = "release"
        /\ ~CounterLocked(a, p)
        /\ reserved' = [reserved EXCEPT ![a][p] = AtLeastZero(@ - n)]
        /\ res' = [res EXCEPT ![a][j.key] =
                     IF @.status # "reserved" THEN @
                     ELSE AfterRelease(@, n, j.call)]
        /\ Finish(c)
        /\ UNCHANGED <<now, limit, mode, used, consumeIdem, grants, direct,
                       overage, peak>>

\* The connection or the process fails, or the database refuses: the
\* transaction is rolled back and the client gets an error.
Abort(c) ==
    /\ job[c] # Idle
    /\ Finish(c)
    /\ UNCHANGED <<now, limit, mode, used, reserved, res, consumeIdem,
                   grants, direct, overage, peak>>

-----------------------------------------------------------------------------
(* The workers *)

\* Mutants: closed reservations expire too; only those of the current month do.
DueInAnyStatus ==
    {r \in Accounts \X ResKeys :
       /\ res[r[1]][r[2]].status \notin {"none", "expired"}
       /\ res[r[1]][r[2]].expiresAt <= now
       /\ ~RowLocked(r[1], r[2])}
DueThisMonth ==
    {r \in Accounts \X ResKeys :
       /\ res[r[1]][r[2]].status = "reserved"
       /\ res[r[1]][r[2]].expiresAt <= now
       /\ res[r[1]][r[2]].period = Period(now)
       /\ ~RowLocked(r[1], r[2])}

Due == {r \in Accounts \X ResKeys :
          /\ res[r[1]][r[2]].status = "reserved"
          /\ res[r[1]][r[2]].expiresAt <= now
          /\ ~RowLocked(r[1], r[2])}

\* ORDER BY expires_at LIMIT Batch: a full batch of the earliest deadlines,
\* or everything that is due.
IsBatch(S) ==
    /\ S \subseteq Due
    /\ S # {}
    /\ Cardinality(S) <= Batch
    /\ \A r \in Due \ S :
         /\ Cardinality(S) = Batch
         /\ \A s \in S : res[s[1]][s[2]].expiresAt <= res[r[1]][r[2]].expiresAt

\* The outstanding amounts of S, summed per counter row (GROUP BY).
HeldBy(S, a, p) ==
    Total([k \in ResKeys |->
             IF <<a, k>> \in S THEN HeldIn(res[a][k], p) ELSE 0])

Expire(S) ==
    /\ IsBatch(S)
    /\ \A r \in S : ~CounterLocked(r[1], res[r[1]][r[2]].period)
    /\ reserved' = [a \in Accounts |-> [p \in Periods |->
                      AtLeastZero(reserved[a][p] - HeldBy(S, a, p))]]
    /\ res' = [a \in Accounts |-> [k \in ResKeys |->
                 IF <<a, k>> \in S
                 THEN [res[a][k] EXCEPT !.status = "expired"]
                 ELSE res[a][k]]]
    /\ UNCHANGED <<now, limit, mode, used, consumeIdem, grants, job, direct,
                   overage, peak>>

ExpireDueReservations ==
    \E S \in SUBSET (Accounts \X ResKeys) : Expire(S)

\* Grant, GrantTx and GrantPeriodic: a unique index on the reference makes a
\* second call with it do nothing.
Grant(a, r, n, monthly) ==
    /\ grants[a][<<r, Base>>].amount = 0
    /\ grants' = [grants EXCEPT ![a][<<r, Base>>] =
                    [period |-> Period(now), amount |-> n,
                     monthly |-> monthly]]
    /\ UNCHANGED <<now, limit, mode, used, reserved, res, consumeIdem, job,
                   direct, overage, peak>>

\* Mutants: the month of the template itself is refreshed; the derived row
\* keeps the reference of its template and conflicts with it.
RefreshedInItsMonth(a, g, p) ==
    LET template == grants[a][<<g[1], Base>>]
    IN  IF g[2] = p /\ grants[a][g].amount = 0 /\ template.monthly
        THEN [period |-> p, amount |-> template.amount, monthly |-> FALSE]
        ELSE grants[a][g]
RefreshedWithoutSuffix(a, g, p) ==
    LET template == grants[a][<<g[1], Base>>]
    IN  IF /\ g[2] = Base
           /\ grants[a][g].amount = 0
           /\ template.monthly
           /\ template.period # p
        THEN [period |-> p, amount |-> template.amount, monthly |-> FALSE]
        ELSE grants[a][g]

\* The row inserted for grant g when period p is refreshed, if any: one for
\* each monthly template of another period, unless it is there already.
Refreshed(a, g, p) ==
    LET template == grants[a][<<g[1], Base>>]
    IN  IF /\ g[2] = p
           /\ grants[a][g].amount = 0
           /\ template.monthly
           /\ template.period # p
        THEN [period |-> p, amount |-> template.amount, monthly |-> FALSE]
        ELSE grants[a][g]

RefreshPeriodicGrants(p) ==
    /\ grants' = [a \in Accounts |-> [g \in GrantIds |-> Refreshed(a, g, p)]]
    /\ UNCHANGED <<now, limit, mode, used, reserved, res, consumeIdem, job,
                   direct, overage, peak>>

\* The worker reads the clock before the statement runs, so the month may
\* have ended in between.
RefreshWorker ==
    \E t \in {now - 1, now} \cap Times : RefreshPeriodicGrants(Period(t))

Tick ==
    /\ now < MaxTime
    /\ now' = now + 1
    /\ UNCHANGED <<limit, mode, used, reserved, res, consumeIdem, grants,
                   job, direct, overage, peak>>

-----------------------------------------------------------------------------
\* The second half of a call: what the database does with a transaction.
Complete(c) ==
    \/ ConsumeRefuse(c)
    \/ ConsumeApply(c)
    \/ ReserveLock(c)
    \/ ReserveReadPlan(c)
    \/ ReserveDecide(c)
    \/ ReserveRefuse(c)
    \/ ReserveCommit(c)
    \/ SettleCommit(c)
    \/ ReleaseCommit(c)

Call(c, a) ==
    \/ \E k \in ConsumeKeys \cup {NoKey}, n \in ConsumeAmounts :
          ConsumeBegin(c, a, k, n)
    \/ \E k \in ResKeys, n \in ReserveAmounts, ttl \in TTLs :
          ReserveBegin(c, a, k, n, ttl)
    \/ \E k \in ResKeys, n \in SettleAmounts : SettleBegin(c, a, k, n)
    \/ \E k \in ResKeys, n \in ReleaseAmounts, call \in CallKeys :
          ReleaseBegin(c, a, k, n, call)

Next ==
    \/ \E c \in Clients, a \in Accounts : Call(c, a)
    \/ \E c \in Clients : Complete(c)
    \/ \E c \in Clients : Abort(c)
    \/ \E a \in Accounts, l \in Limits, m \in Modes : PlanChange(a, l, m)
    \/ \E a \in Accounts, n \in RefundAmounts : Refund(a, n)
    \/ \E a \in Accounts, r \in Refs, n \in GrantAmounts, m \in BOOLEAN :
          Grant(a, r, n, m)
    \/ ExpireDueReservations
    \/ RefreshWorker
    \/ Tick

Spec == Init /\ [][Next]_vars

\* Every transaction ends, by completing or by being rolled back; the two
\* workers run on a ticker for as long as the process lives; and a
\* reservation is not locked by some caller on every single round of the
\* expiry worker (SKIP LOCKED passes over it when it is).
Fairness ==
    /\ \A c \in Clients : WF_vars(Abort(c) \/ Complete(c))
    /\ \A r \in Accounts \X ResKeys :
         SF_vars(\E S \in SUBSET (Accounts \X ResKeys) : r \in S /\ Expire(S))
    /\ WF_vars(RefreshWorker)
    /\ WF_vars(Tick)

FairSpec == Spec /\ Fairness

-----------------------------------------------------------------------------
(* Properties *)

\* Every table and every transaction in flight holds values of its type.
TypeOK ==
    /\ now \in Times
    /\ limit \in [Accounts -> Limits]
    /\ mode \in [Accounts -> Modes]
    /\ used \in [Accounts -> [Periods -> Nat]]
    /\ reserved \in [Accounts -> [Periods -> Nat]]
    /\ res \in [Accounts -> [ResKeys -> Reservations]]
    /\ consumeIdem \in [Accounts -> [ConsumeKeys -> IdemRows]]
    /\ grants \in [Accounts -> [GrantIds -> GrantRows]]
    /\ job \in [Clients -> Jobs]
    /\ direct \in [Accounts -> [Periods -> Int]]
    /\ overage \in [Accounts -> [Periods -> Nat]]
    /\ peak \in [Accounts -> Nat]

\* What the shape of a reservation says whatever its history: no more is
\* released than was reserved, and nothing is settled while it is open.
RowShape ==
    \A a \in Accounts, k \in ResKeys :
       /\ res[a][k].released <= res[a][k].amount
       /\ res[a][k].status \in {"none", "reserved"} => res[a][k].settled = 0

\* What a transaction read under a row lock is still true when it commits,
\* and no two transactions hold one lock: the counter row of reserveTx and
\* the reservation row of Settle and ReleaseReservation (FOR UPDATE).  The
\* plan and the grants that reserveTx reads are locked by nobody.
ReadsAreCurrent ==
    /\ \A c \in Clients : job[c].op \in LockedOps =>
         /\ job[c].used = used[job[c].acct][job[c].period]
         /\ job[c].reserved = reserved[job[c].acct][job[c].period]
    /\ \A c \in Clients : job[c].op \in {"settle", "release"} =>
         /\ job[c].row = res[job[c].acct][job[c].key]
         /\ job[c].row.status = "reserved"
    /\ \A c, d \in Clients :
         /\ job[c].op \in LockedOps /\ job[d].op \in LockedOps
         /\ job[c].acct = job[d].acct /\ job[c].period = job[d].period
         => c = d
    /\ \A c, d \in Clients :
         /\ job[c].op \in {"settle", "release"}
         /\ job[d].op \in {"settle", "release"}
         /\ job[c].acct = job[d].acct /\ job[c].key = job[d].key
         => c = d

\* The history variable peak bounds the plan limit in force and the limits
\* that callers have read and not yet used.
LimitsSeen ==
    /\ \A a \in Accounts : Effective(limit[a]) <= peak[a]
    /\ \A c \in Clients :
         job[c].op \in {"consume", "reserveLimited", "reserveAdmitted"}
           => job[c].limit <= peak[job[c].acct]

\* A reservation that reserveTx has admitted still fits under the limit it
\* read when it is written: the counter is locked and grants only arrive.
AdmittedFits ==
    \A c \in Clients :
       job[c].op = "reserveAdmitted" => Available(job[c]) >= job[c].n

\* The reserved column of a counter is exactly what its open reservations
\* still hold, so no GREATEST(0, ...) in Settle, ReleaseReservation or
\* ExpireDueReservations ever hides a double return of capacity, however
\* settling, releasing and expiring callers interleave.
ReservedIsOutstanding ==
    \A a \in Accounts, p \in Periods : reserved[a][p] = Held(a, p)

\* The used column is exactly what was settled, plus one charge for each
\* idempotency key of ConsumeWith, plus the keyless calls: retries and
\* concurrent duplicates never charge twice, and no charge is lost.
UsedIsLedger ==
    \A a \in Accounts, p \in Periods :
       used[a][p] = Settled(a, p) + ConsumedOnce(a, p) + direct[a][p]

\* Consumption and reservations together never exceed the highest limit that
\* was ever in force plus the grants of the period, apart from what a soft
\* limit admitted and what was settled above its reservation.
NoOversell ==
    \A a \in Accounts, p \in Periods :
       used[a][p] + reserved[a][p] <= peak[a] + Granted(a, p) + overage[a][p]

\* A monthly grant credits a period at most once: the period it was given
\* in is never refreshed on top of it, and no refresh is repeated.
RefreshedOnce ==
    \A a \in Accounts, r \in Refs, p \in Periods :
       Cardinality({g \in GrantIds : /\ g[1] = r
                                     /\ grants[a][g].amount > 0
                                     /\ grants[a][g].period = p}) <= 1

\* A settled, released or expired reservation never changes again, although
\* Settle, ReleaseReservation and the expiry worker may all be under way on
\* it when it closes; an open one keeps what Reserve recorded.
ClosedForGood ==
    [][\A a \in Accounts, k \in ResKeys :
         /\ res[a][k].status \in {"settled", "released", "expired"}
              => res'[a][k] = res[a][k]
         /\ res[a][k].status = "reserved"
              => /\ res'[a][k].period = res[a][k].period
                 /\ res'[a][k].amount = res[a][k].amount
                 /\ res'[a][k].released >= res[a][k].released]_vars

\* Capacity is never held for good: every reservation is settled, released
\* or expired in the end, even when its caller has crashed.
EventuallyClosed ==
    \A a \in Accounts, k \in ResKeys :
       res[a][k].status = "reserved" ~> res[a][k].status # "reserved"

\* A monthly grant is credited in the current period in the end (here the
\* last one of the modelled time, in which the clock stops).
EventuallyRefreshed ==
    \A a \in Accounts, r \in Refs :
       grants[a][<<r, Base>>].monthly
         ~> \E g \in GrantIds : /\ g[1] = r
                                /\ grants[a][g].amount > 0
                                /\ grants[a][g].period = Period(MaxTime)
=============================================================================
