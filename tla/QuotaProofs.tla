---------------------------- MODULE QuotaProofs ----------------------------
(***************************************************************************)
(* Proofs about Quota, and that it implements Capacity, for any accounts,  *)
(* clients, keys, plans and calendar.                                      *)
(***************************************************************************)
EXTENDS QuotaCapacity, FiniteSetTheorems, TLAPS

-----------------------------------------------------------------------------
(* Sums counted in units *)

\* A sum over finitely many rows is a natural number.
LEMMA TotalType ==
    ASSUME NEW S, IsFiniteSet(S), NEW f \in [S -> 0..MaxAmount]
    PROVE  /\ IsFiniteSet(Units(f))
           /\ Total(f) \in Nat
<1>1. IsFiniteSet(1..MaxAmount)
  BY FS_Interval, AmountAssumption
<1>2. IsFiniteSet(S \X (1..MaxAmount))
  BY <1>1, FS_Product
<1>3. Units(f) \in SUBSET (S \X (1..MaxAmount))
  BY DEF Units
<1>4. IsFiniteSet(Units(f))
  BY <1>2, <1>3, FS_Subset
<1> QED
  BY <1>4, FS_CardinalityType DEF Total

\* Splitting the rows into two disjoint groups splits their sum.
LEMMA TotalSplit ==
    ASSUME NEW S, IsFiniteSet(S),
           NEW f \in [S -> 0..MaxAmount],
           NEW g \in [S -> 0..MaxAmount],
           NEW h \in [S -> 0..MaxAmount],
           \A x \in S : \/ g[x] = f[x] /\ h[x] = 0
                        \/ g[x] = 0 /\ h[x] = f[x]
    PROVE  Total(f) = Total(g) + Total(h)
<1>1. IsFiniteSet(Units(g)) /\ IsFiniteSet(Units(h))
  BY TotalType
<1>2. Units(f) = Units(g) \cup Units(h)
  BY AmountAssumption DEF Units
<1>3. Units(g) \cap Units(h) = {}
  BY AmountAssumption DEF Units
<1>4. Total(f) = Total(g) + Total(h) - Cardinality({})
  BY <1>1, <1>2, <1>3, FS_Union DEF Total
<1> QED
  BY <1>4, FS_EmptySet, TotalType

\* The sum of a single row is the row.
LEMMA TotalSingle ==
    ASSUME NEW S, IsFiniteSet(S), NEW f \in [S -> 0..MaxAmount],
           NEW k \in S, \A x \in S \ {k} : f[x] = 0
    PROVE  Total(f) = f[k]
<1>1. Units(f) = {k} \X (1..f[k])
  BY AmountAssumption DEF Units
<1>2. f[k] \in Nat
  BY AmountAssumption
<1>3. IsFiniteSet(1..f[k]) /\ Cardinality(1..f[k]) = f[k]
  BY <1>2, FS_Interval
<1>4. IsFiniteSet({k}) /\ Cardinality({k}) = 1
  BY FS_Singleton
<1>5. Cardinality({k} \X (1..f[k])) = Cardinality({k}) * Cardinality(1..f[k])
  BY <1>3, <1>4, FS_Product, Zenon
<1> QED
  BY <1>1, <1>2, <1>3, <1>4, <1>5 DEF Total

\* Changing one row changes the sum by the difference.
LEMMA TotalUpdate ==
    ASSUME NEW S, IsFiniteSet(S),
           NEW f \in [S -> 0..MaxAmount],
           NEW g \in [S -> 0..MaxAmount],
           NEW k \in S, \A x \in S \ {k} : g[x] = f[x]
    PROVE  Total(g) = Total(f) - f[k] + g[k]
<1> DEFINE rest == [x \in S |-> IF x = k THEN 0 ELSE f[x]]
           old == [x \in S |-> IF x = k THEN f[k] ELSE 0]
           new == [x \in S |-> IF x = k THEN g[k] ELSE 0]
<1>1. /\ rest \in [S -> 0..MaxAmount]
      /\ old \in [S -> 0..MaxAmount]
      /\ new \in [S -> 0..MaxAmount]
  BY AmountAssumption
<1>2. Total(f) = Total(rest) + Total(old)
  <2>1. \A x \in S : \/ rest[x] = f[x] /\ old[x] = 0
                     \/ rest[x] = 0 /\ old[x] = f[x]
    OBVIOUS
  <2> QED
    BY <1>1, <2>1, TotalSplit
<1>3. Total(g) = Total(rest) + Total(new)
  <2>1. \A x \in S : \/ rest[x] = g[x] /\ new[x] = 0
                     \/ rest[x] = 0 /\ new[x] = g[x]
    OBVIOUS
  <2> QED
    BY <1>1, <2>1, TotalSplit
<1>4. Total(old) = f[k]
  <2>1. old[k] = f[k] /\ \A x \in S \ {k} : old[x] = 0
    OBVIOUS
  <2> HIDE DEF old
  <2> QED
    BY <1>1, <2>1, TotalSingle
<1>5. Total(new) = g[k]
  <2>1. new[k] = g[k] /\ \A x \in S \ {k} : new[x] = 0
    OBVIOUS
  <2> HIDE DEF new
  <2> QED
    BY <1>1, <2>1, TotalSingle
<1>6. Total(rest) \in Nat /\ f[k] \in Nat /\ g[k] \in Nat
  BY <1>1, TotalType, AmountAssumption
<1> HIDE DEF rest, old, new
<1> QED
  BY <1>2, <1>3, <1>4, <1>5, <1>6

\* A sum grows with its rows.
LEMMA TotalMono ==
    ASSUME NEW S, IsFiniteSet(S),
           NEW f \in [S -> 0..MaxAmount],
           NEW g \in [S -> 0..MaxAmount],
           \A x \in S : f[x] <= g[x]
    PROVE  Total(f) <= Total(g)
<1>1. Units(f) \in SUBSET Units(g)
  BY AmountAssumption DEF Units
<1> QED
  BY <1>1, TotalType, FS_Subset DEF Total

\* A sum of zeros is zero.
LEMMA TotalZero ==
    ASSUME NEW S, NEW f \in [S -> {0}]
    PROVE  Total(f) = 0
<1>1. Units(f) = {}
  BY AmountAssumption DEF Units
<1> QED
  BY <1>1, FS_EmptySet DEF Total

-----------------------------------------------------------------------------
(* The part of the inductive invariant that does not speak of sums *)

Shape == TypeOK /\ RowShape /\ ReadsAreCurrent /\ LimitsSeen

\* The operation a job belongs to determines the fields it has.
LEMMA JobType ==
    ASSUME TypeOK, NEW c \in Clients
    PROVE  /\ job[c].op = "consume" => job[c] \in ConsumeJobs
           /\ job[c].op = "reserve" => job[c] \in ReserveJobs
           /\ job[c].op \in LockedOps => job[c] \in LockedJobs
           /\ job[c].op = "settle" => job[c] \in SettleJobs
           /\ job[c].op = "release" => job[c] \in ReleaseJobs
<1>1. job[c] \in Jobs
  BY DEF TypeOK
<1> QED
  BY <1>1 DEF Jobs, Idle, ConsumeJobs, ReserveJobs, LockedJobs, LockedOps,
              SettleJobs, ReleaseJobs

\* The values the initial rows are made of.
LEMMA RowTypes ==
    /\ \A t \in Times : Period(t) \in Periods
    /\ Periods \subseteq Nat
    /\ 0 \in Times
    /\ NoReservation \in Reservations
    /\ NoIdem \in IdemRows
    /\ NoGrant \in GrantRows
    /\ \A l \in Limits : Effective(l) \in Nat
    /\ \A n \in Int : AtLeastZero(n) \in Nat
<1>1. 0 \in Times
  BY TimeAssumption DEF Times
<1>2. Periods \subseteq Nat /\ \A t \in Times : Period(t) \in Periods
  BY TimeAssumption DEF Periods, Period
<1>3. NoReservation \in Reservations
  BY <1>1, <1>2, AmountAssumption DEF NoReservation, Reservations, Statuses
<1>4. NoIdem \in IdemRows /\ NoGrant \in GrantRows
  BY <1>1, <1>2, AmountAssumption DEF NoIdem, IdemRows, NoGrant, GrantRows
<1>5. \A l \in Limits : Effective(l) \in Nat
  BY LimitAssumption DEF Effective
<1>6. \A n \in Int : AtLeastZero(n) \in Nat
  BY DEF AtLeastZero
<1> QED
  BY <1>1, <1>2, <1>3, <1>4, <1>5, <1>6

LEMMA ShapeInit ==
    Init => Shape
<1> SUFFICES ASSUME Init PROVE Shape
  OBVIOUS
<1>1. TypeOK
  <2>1. now \in Times
    BY RowTypes DEF Init
  <2>2. /\ used \in [Accounts -> [Periods -> Nat]]
        /\ reserved \in [Accounts -> [Periods -> Nat]]
        /\ direct \in [Accounts -> [Periods -> Int]]
        /\ overage \in [Accounts -> [Periods -> Nat]]
    BY DEF Init
  <2>3. /\ res \in [Accounts -> [ResKeys -> Reservations]]
        /\ consumeIdem \in [Accounts -> [ConsumeKeys -> IdemRows]]
        /\ grants \in [Accounts -> [GrantIds -> GrantRows]]
    BY RowTypes DEF Init
  <2>4. job \in [Clients -> Jobs]
    BY DEF Init, Jobs
  <2>5. peak \in [Accounts -> Nat]
    BY RowTypes DEF Init
  <2> QED
    BY <2>1, <2>2, <2>3, <2>4, <2>5 DEF Init, TypeOK
<1>2. RowShape
  BY DEF Init, RowShape, NoReservation
<1>3. ReadsAreCurrent
  BY DEF Init, ReadsAreCurrent, Idle, LockedOps
<1>4. LimitsSeen
  BY RowTypes DEF Init, LimitsSeen, Idle
<1> QED
  BY <1>1, <1>2, <1>3, <1>4 DEF Shape

\* Ending a transaction without writing keeps the shape.
LEMMA FinishShape ==
    ASSUME Shape, NEW c \in Clients, Finish(c),
           UNCHANGED <<now, limit, mode, used, reserved, res, consumeIdem,
                       grants, direct, overage, peak>>
    PROVE  Shape'
<1>1. job' \in [Clients -> Jobs]
  BY DEF Shape, TypeOK, Finish, Jobs
<1>2. TypeOK'
  BY <1>1 DEF Shape, TypeOK
<1>3. RowShape'
  BY DEF Shape, RowShape
<1>4. \A d \in Clients : job'[d] = job[d] \/ job'[d].op = "idle"
  BY DEF Finish, Idle, Shape, TypeOK
<1>5. ReadsAreCurrent'
  BY <1>4 DEF Shape, ReadsAreCurrent, LockedOps
<1>6. LimitsSeen'
  BY <1>4 DEF Shape, LimitsSeen
<1> QED
  BY <1>2, <1>3, <1>5, <1>6 DEF Shape

LEMMA PlanChangeShape ==
    ASSUME Shape, NEW a \in Accounts, NEW l \in Limits, NEW m \in Modes,
           PlanChange(a, l, m)
    PROVE  Shape'
<1>1. /\ limit' \in [Accounts -> Limits]
      /\ mode' \in [Accounts -> Modes]
      /\ peak' \in [Accounts -> Nat]
      /\ Effective(l) \in Nat
  BY RowTypes DEF Shape, TypeOK, PlanChange
<1>2. TypeOK'
  BY <1>1 DEF Shape, TypeOK, PlanChange
<1>3. RowShape' /\ ReadsAreCurrent'
  BY DEF Shape, RowShape, ReadsAreCurrent, PlanChange
<1>4. \A b \in Accounts : peak[b] <= peak'[b]
  BY <1>1 DEF Shape, TypeOK, PlanChange
<1>5. \A b \in Accounts : Effective(limit'[b]) <= peak'[b]
  BY <1>1, RowTypes DEF Shape, TypeOK, LimitsSeen, PlanChange
<1>6. ASSUME NEW c \in Clients,
             job[c].op \in {"consume", "reserveLimited", "reserveAdmitted"}
      PROVE  job[c].limit <= peak'[job[c].acct]
  <2>1. job[c].acct \in Accounts /\ job[c].limit \in Nat
    BY <1>6, JobType DEF Shape, ConsumeJobs, LockedJobs, LockedOps
  <2>2. job[c].limit <= peak[job[c].acct]
    BY <1>6 DEF Shape, LimitsSeen
  <2> QED
    BY <1>1, <1>4, <2>1, <2>2 DEF Shape, TypeOK
<1>7. LimitsSeen'
  BY <1>5, <1>6 DEF LimitsSeen, PlanChange
<1> QED
  BY <1>2, <1>3, <1>7 DEF Shape

LEMMA ConsumeBeginShape ==
    ASSUME Shape, NEW c \in Clients, NEW a \in Accounts,
           NEW k \in ConsumeKeys \cup {NoKey}, NEW n \in ConsumeAmounts,
           ConsumeBegin(c, a, k, n)
    PROVE  Shape'
<1> DEFINE j == [op |-> "consume", acct |-> a, key |-> k, n |-> n,
                 period |-> Period(now), limit |-> Effective(limit[a]),
                 soft |-> IsSoft(mode[a])]
<1>1. job' = [job EXCEPT ![c] = j]
  BY DEF ConsumeBegin
<1>2. j \in ConsumeJobs
  <2>1. n \in 1..MaxAmount
    BY AmountAssumption
  <2>2. Period(now) \in Periods /\ Effective(limit[a]) \in Nat
    BY RowTypes DEF Shape, TypeOK
  <2> QED
    BY <2>1, <2>2 DEF ConsumeJobs, IsSoft
<1>3. /\ j.op = "consume"
      /\ j.acct = a
      /\ j.limit = Effective(limit[a])
  OBVIOUS
<1> HIDE DEF j
<1>4. TypeOK'
  BY <1>1, <1>2 DEF Shape, TypeOK, Jobs, ConsumeBegin
<1>5. RowShape'
  BY DEF Shape, RowShape, ConsumeBegin
<1>6. /\ job'[c] = j
      /\ \A d \in Clients \ {c} : job'[d] = job[d]
  BY <1>1 DEF Shape, TypeOK
<1>7. ReadsAreCurrent'
  BY <1>3, <1>6 DEF Shape, ReadsAreCurrent, ConsumeBegin, LockedOps
<1>8. LimitsSeen'
  BY <1>3, <1>6 DEF Shape, LimitsSeen, ConsumeBegin
<1> QED
  BY <1>4, <1>5, <1>7, <1>8 DEF Shape

LEMMA ConsumeApplyShape ==
    ASSUME Shape, NEW c \in Clients, ConsumeApply(c)
    PROVE  Shape'
<1> DEFINE a == job[c].acct
           p == job[c].period
<1>1. /\ job[c] \in ConsumeJobs
      /\ a \in Accounts
      /\ p \in Periods
      /\ job[c].n \in 1..MaxAmount
      /\ job[c].n \in Nat
      /\ job[c].key \in ConsumeKeys \cup {NoKey}
  BY JobType, AmountAssumption DEF Shape, ConsumeApply, ConsumeJobs
<1>2. /\ used' = [used EXCEPT ![a][p] = @ + job[c].n]
      /\ overage' = [overage EXCEPT ![a][p] =
                       IF job[c].soft THEN @ + job[c].n ELSE @]
      /\ Finish(c)
      /\ UNCHANGED <<now, limit, mode, reserved, res, grants, peak>>
  BY DEF ConsumeApply
<1>3. /\ used' \in [Accounts -> [Periods -> Nat]]
      /\ overage' \in [Accounts -> [Periods -> Nat]]
  BY <1>1, <1>2 DEF Shape, TypeOK
<1>4. /\ direct' \in [Accounts -> [Periods -> Int]]
      /\ consumeIdem' \in [Accounts -> [ConsumeKeys -> IdemRows]]
  <2>1. CASE job[c].key = NoKey
    <3>1. /\ direct' = [direct EXCEPT ![a][p] = @ + job[c].n]
          /\ UNCHANGED consumeIdem
      BY <2>1 DEF ConsumeApply
    <3> QED
      BY <1>1, <3>1 DEF Shape, TypeOK
  <2>2. CASE job[c].key # NoKey
    <3>1. /\ consumeIdem' = [consumeIdem EXCEPT ![a][job[c].key] =
                               [period |-> p, amount |-> job[c].n]]
          /\ UNCHANGED direct
      BY <2>2 DEF ConsumeApply
    <3>2. [period |-> p, amount |-> job[c].n] \in IdemRows
      BY <1>1, AmountAssumption DEF IdemRows
    <3> QED
      BY <1>1, <3>1, <3>2 DEF Shape, TypeOK
  <2> QED
    BY <2>1, <2>2
<1>5. job' \in [Clients -> Jobs]
  BY <1>2 DEF Shape, TypeOK, Finish, Jobs
<1>6. TypeOK'
  BY <1>2, <1>3, <1>4, <1>5 DEF Shape, TypeOK
<1>7. RowShape'
  BY <1>2 DEF Shape, RowShape
<1>8. \A d \in Clients : job'[d] = job[d] \/ job'[d].op = "idle"
  BY <1>2 DEF Finish, Idle, Shape, TypeOK
<1>9. ASSUME NEW d \in Clients, job'[d].op \in LockedOps
      PROVE  /\ job'[d].used = used'[job'[d].acct][job'[d].period]
             /\ job'[d].reserved = reserved'[job'[d].acct][job'[d].period]
  <2>1. job'[d] = job[d] /\ job[d] \in LockedJobs
    BY <1>8, <1>9, JobType DEF Shape, LockedOps
  <2>2. job[d].acct \in Accounts /\ job[d].period \in Periods
    BY <2>1 DEF LockedJobs
  <2>3. job[d].acct # a \/ job[d].period # p
    BY <1>9, <2>1 DEF ConsumeApply, CounterLocked
  <2>4. used'[job[d].acct][job[d].period] = used[job[d].acct][job[d].period]
    BY <1>1, <1>2, <2>2, <2>3 DEF Shape, TypeOK
  <2> QED
    BY <1>2, <1>9, <2>1, <2>4 DEF Shape, ReadsAreCurrent
<1>10. ReadsAreCurrent'
  BY <1>2, <1>8, <1>9 DEF Shape, ReadsAreCurrent, LockedOps
<1>11. LimitsSeen'
  BY <1>2, <1>8 DEF Shape, LimitsSeen
<1> QED
  BY <1>6, <1>7, <1>10, <1>11 DEF Shape

\* A transaction that holds a counter row holds another one than an
\* unlocked row.
LEMMA LockedElsewhere ==
    ASSUME TypeOK, NEW a, NEW p, ~CounterLocked(a, p),
           NEW d \in Clients, job[d].op \in LockedOps
    PROVE  /\ job[d].acct \in Accounts
           /\ job[d].period \in Periods
           /\ job[d].acct # a \/ job[d].period # p
  BY JobType DEF CounterLocked, LockedJobs

LEMMA RefundShape ==
    ASSUME Shape, NEW a \in Accounts, NEW n \in RefundAmounts, Refund(a, n)
    PROVE  Shape'
<1> DEFINE p == Period(now)
           u == AtLeastZero(used[a][p] - n)
<1>1. p \in Periods /\ n \in Nat
  BY RowTypes, AmountAssumption DEF Shape, TypeOK
<1>2. used[a][p] \in Nat /\ u \in Nat
  <2>1. used[a][p] \in Nat
    BY <1>1 DEF Shape, TypeOK
  <2> QED
    BY <1>1, <2>1 DEF AtLeastZero
<1>3. /\ ~CounterLocked(a, p)
      /\ used' = [used EXCEPT ![a][p] = u]
      /\ direct' = [direct EXCEPT ![a][p] = @ - (used[a][p] - u)]
      /\ UNCHANGED <<now, limit, mode, reserved, res, consumeIdem, grants,
                     job, overage, peak>>
  BY DEF Refund
<1> HIDE DEF u, p
<1>4. TypeOK'
  BY <1>1, <1>2, <1>3 DEF Shape, TypeOK
<1>5. RowShape' /\ LimitsSeen'
  BY <1>3 DEF Shape, RowShape, LimitsSeen
<1>6. ASSUME NEW d \in Clients, job[d].op \in LockedOps
      PROVE  used'[job[d].acct][job[d].period]
               = used[job[d].acct][job[d].period]
  <2>1. /\ job[d].acct \in Accounts
        /\ job[d].period \in Periods
        /\ job[d].acct # a \/ job[d].period # p
    BY <1>3, <1>6, LockedElsewhere DEF Shape
  <2> QED
    BY <1>1, <1>3, <2>1 DEF Shape, TypeOK
<1>7. ReadsAreCurrent'
  BY <1>3, <1>6 DEF Shape, ReadsAreCurrent
<1> QED
  BY <1>4, <1>5, <1>7 DEF Shape

LEMMA ReserveBeginShape ==
    ASSUME Shape, NEW c \in Clients, NEW a \in Accounts, NEW k \in ResKeys,
           NEW n \in ReserveAmounts, NEW ttl \in TTLs,
           ReserveBegin(c, a, k, n, ttl)
    PROVE  Shape'
<1> DEFINE j == [op |-> "reserve", acct |-> a, key |-> k, n |-> n,
                 period |-> Period(now), expiresAt |-> now + ttl]
<1>1. job' = [job EXCEPT ![c] = j]
  BY DEF ReserveBegin
<1>2. j \in ReserveJobs
  <2>1. n \in 1..MaxAmount /\ now + ttl \in Nat
    BY AmountAssumption, TimeAssumption DEF Shape, TypeOK, Times
  <2>2. Period(now) \in Periods
    BY RowTypes DEF Shape, TypeOK
  <2> QED
    BY <2>1, <2>2 DEF ReserveJobs
<1>3. j.op = "reserve"
  OBVIOUS
<1> HIDE DEF j
<1>4. TypeOK'
  BY <1>1, <1>2 DEF Shape, TypeOK, Jobs, ReserveBegin
<1>5. RowShape'
  BY DEF Shape, RowShape, ReserveBegin
<1>6. /\ job'[c] = j
      /\ \A d \in Clients \ {c} : job'[d] = job[d]
  BY <1>1 DEF Shape, TypeOK
<1>7. ReadsAreCurrent' /\ LimitsSeen'
  BY <1>3, <1>6 DEF Shape, ReadsAreCurrent, LimitsSeen, ReserveBegin, LockedOps
<1> QED
  BY <1>4, <1>5, <1>7 DEF Shape

LEMMA ReserveLockShape ==
    ASSUME Shape, NEW c \in Clients, ReserveLock(c)
    PROVE  Shape'
<1> DEFINE a == job[c].acct
           p == job[c].period
           j == [op |-> "reserveLocked", acct |-> a, key |-> job[c].key,
                 n |-> job[c].n, period |-> p,
                 expiresAt |-> job[c].expiresAt, used |-> used[a][p],
                 reserved |-> reserved[a][p], limit |-> 0]
<1>1. job[c] \in ReserveJobs
  BY JobType DEF Shape, ReserveLock
<1>2. CASE res[a][job[c].key].status # "none"
  BY <1>2, FinishShape DEF ReserveLock, Finish
<1>3. CASE res[a][job[c].key].status = "none"
  <2>1. /\ job' = [job EXCEPT ![c] = j]
        /\ ~CounterLocked(a, p)
        /\ UNCHANGED <<now, limit, mode, used, reserved, res, consumeIdem,
                       grants, direct, overage, peak>>
    BY <1>3 DEF ReserveLock
  <2>2. j \in LockedJobs
    BY <1>1 DEF ReserveJobs, LockedJobs, LockedOps, Shape, TypeOK
  <2>3. /\ j.op = "reserveLocked"
        /\ j.acct = a
        /\ j.period = p
        /\ j.used = used[a][p]
        /\ j.reserved = reserved[a][p]
    OBVIOUS
  <2> HIDE DEF j
  <2>4. TypeOK'
    BY <2>1, <2>2 DEF Shape, TypeOK, Jobs
  <2>5. RowShape'
    BY <2>1 DEF Shape, RowShape
  <2>6. /\ job'[c] = j
        /\ \A d \in Clients \ {c} : job'[d] = job[d]
    BY <2>1 DEF Shape, TypeOK
  <2>7. \A d \in Clients \ {c} : job[d].op \in LockedOps =>
            job[d].acct # a \/ job[d].period # p
    BY <2>1 DEF CounterLocked
  <2>8. ReadsAreCurrent'
    BY <2>1, <2>3, <2>6, <2>7 DEF Shape, ReadsAreCurrent
  <2>9. LimitsSeen'
    BY <2>1, <2>3, <2>6 DEF Shape, LimitsSeen
  <2> QED
    BY <2>4, <2>5, <2>8, <2>9 DEF Shape
<1> QED
  BY <1>2, <1>3

LEMMA ReserveReadPlanShape ==
    ASSUME Shape, NEW c \in Clients, ReserveReadPlan(c)
    PROVE  Shape'
<1> DEFINE l == Effective(limit[job[c].acct])
           j == [job[c] EXCEPT !.op = "reserveLimited", !.limit = l]
<1>1. job[c] \in LockedJobs /\ job[c].op \in LockedOps
  BY JobType DEF Shape, ReserveReadPlan, LockedOps
<1>2. job[c].acct \in Accounts /\ l \in Nat /\ l <= peak[job[c].acct]
  BY <1>1, RowTypes DEF Shape, TypeOK, LimitsSeen, LockedJobs
<1>3. /\ j \in LockedJobs
      /\ j.op = "reserveLimited" /\ j.op \in LockedOps
      /\ j.acct = job[c].acct /\ j.period = job[c].period
      /\ j.used = job[c].used /\ j.reserved = job[c].reserved
      /\ j.limit = l
  BY <1>1, <1>2 DEF LockedJobs, LockedOps
<1>4. /\ job' = [job EXCEPT ![c] = j]
      /\ UNCHANGED <<now, limit, mode, used, reserved, res, consumeIdem,
                     grants, direct, overage, peak>>
  BY DEF ReserveReadPlan
<1> HIDE DEF j, l
<1>5. TypeOK'
  BY <1>3, <1>4 DEF Shape, TypeOK, Jobs
<1>6. /\ job'[c] = j
      /\ \A d \in Clients \ {c} : job'[d] = job[d]
  BY <1>4 DEF Shape, TypeOK
<1>7. RowShape'
  BY <1>4 DEF Shape, RowShape
<1>8. ReadsAreCurrent'
  BY <1>1, <1>3, <1>4, <1>6 DEF Shape, ReadsAreCurrent, LockedOps
<1>9. LimitsSeen'
  BY <1>2, <1>3, <1>4, <1>6 DEF Shape, LimitsSeen
<1> QED
  BY <1>5, <1>7, <1>8, <1>9 DEF Shape

LEMMA ReserveDecideShape ==
    ASSUME Shape, NEW c \in Clients, ReserveDecide(c)
    PROVE  Shape'
<1> DEFINE j == [job[c] EXCEPT !.op = "reserveAdmitted"]
<1>1. job[c] \in LockedJobs /\ job[c].op = "reserveLimited"
  BY JobType DEF Shape, ReserveDecide, LockedOps
<1>2. CASE Available(job[c]) < job[c].n
  BY <1>2, FinishShape DEF ReserveDecide, Finish
<1>3. CASE ~(Available(job[c]) < job[c].n)
  <2>1. /\ j \in LockedJobs
        /\ j.op = "reserveAdmitted" /\ j.op \in LockedOps
        /\ j.acct = job[c].acct /\ j.period = job[c].period
        /\ j.used = job[c].used /\ j.reserved = job[c].reserved
        /\ j.limit = job[c].limit
    BY <1>1 DEF LockedJobs, LockedOps
  <2>2. /\ job' = [job EXCEPT ![c] = j]
        /\ UNCHANGED <<now, limit, mode, used, reserved, res, consumeIdem,
                       grants, direct, overage, peak>>
    BY <1>3 DEF ReserveDecide
  <2> HIDE DEF j
  <2>3. TypeOK'
    BY <2>1, <2>2 DEF Shape, TypeOK, Jobs
  <2>4. /\ job'[c] = j
        /\ \A d \in Clients \ {c} : job'[d] = job[d]
    BY <2>2 DEF Shape, TypeOK
  <2>5. RowShape'
    BY <2>2 DEF Shape, RowShape
  <2>6. ReadsAreCurrent'
    BY <1>1, <2>1, <2>2, <2>4 DEF Shape, ReadsAreCurrent, LockedOps
  <2>7. LimitsSeen'
    BY <1>1, <2>1, <2>2, <2>4 DEF Shape, LimitsSeen
  <2> QED
    BY <2>3, <2>5, <2>6, <2>7 DEF Shape
<1> QED
  BY <1>2, <1>3

LEMMA ReserveCommitShape ==
    ASSUME Shape, NEW c \in Clients, ReserveCommit(c)
    PROVE  Shape'
<1> DEFINE a == job[c].acct
           p == job[c].period
           k == job[c].key
           r == [status |-> "reserved", period |-> p, amount |-> job[c].n,
                 settled |-> 0, released |-> 0, releaseKeys |-> {},
                 expiresAt |-> job[c].expiresAt]
<1>1. /\ job[c] \in LockedJobs
      /\ a \in Accounts
      /\ p \in Periods
      /\ k \in ResKeys
      /\ job[c].n \in 1..MaxAmount
      /\ job[c].n \in Nat
  BY JobType, AmountAssumption
     DEF Shape, ReserveCommit, LockedJobs, LockedOps
<1>2. /\ reserved' = [reserved EXCEPT ![a][p] = @ + job[c].n]
      /\ res' = [res EXCEPT ![a][k] = r]
      /\ res[a][k].status = "none"
      /\ job[c].op \in LockedOps
      /\ Finish(c)
      /\ UNCHANGED <<now, limit, mode, used, consumeIdem, grants, direct,
                     overage, peak>>
  BY DEF ReserveCommit, LockedOps
<1>3. r \in Reservations
  BY <1>1, AmountAssumption DEF Reservations, LockedJobs, Statuses
<1>4. r.released <= r.amount /\ r.settled = 0
  BY <1>1
<1> HIDE DEF r
<1>5. TypeOK'
  <2>1. job' \in [Clients -> Jobs]
    BY <1>2 DEF Shape, TypeOK, Finish, Jobs
  <2>2. reserved' \in [Accounts -> [Periods -> Nat]]
    BY <1>1, <1>2 DEF Shape, TypeOK
  <2>3. res' \in [Accounts -> [ResKeys -> Reservations]]
    BY <1>1, <1>2, <1>3 DEF Shape, TypeOK
  <2> QED
    BY <1>2, <2>1, <2>2, <2>3 DEF Shape, TypeOK
<1>6. \A b \in Accounts, l \in ResKeys :
         res'[b][l] = IF b = a /\ l = k THEN r ELSE res[b][l]
  BY <1>1, <1>2 DEF Shape, TypeOK
<1>7. RowShape'
  BY <1>4, <1>6 DEF Shape, RowShape
<1>8. /\ job'[c].op = "idle"
      /\ \A d \in Clients \ {c} : job'[d] = job[d]
  BY <1>2 DEF Finish, Idle, Shape, TypeOK
<1>9. ASSUME NEW d \in Clients \ {c}, job[d].op \in LockedOps
      PROVE  reserved'[job[d].acct][job[d].period]
               = reserved[job[d].acct][job[d].period]
  <2>1. job[d].acct \in Accounts /\ job[d].period \in Periods
    BY <1>9, JobType DEF Shape, LockedJobs
  <2>2. job[d].acct # a \/ job[d].period # p
    BY <1>2, <1>9 DEF Shape, ReadsAreCurrent
  <2> QED
    BY <1>1, <1>2, <2>1, <2>2 DEF Shape, TypeOK
<1>10. ASSUME NEW d \in Clients \ {c}, job[d].op \in {"settle", "release"}
       PROVE  res'[job[d].acct][job[d].key] = res[job[d].acct][job[d].key]
  <2>1. job[d].acct \in Accounts /\ job[d].key \in ResKeys
    BY <1>10, JobType DEF Shape, SettleJobs, ReleaseJobs
  <2>2. res[job[d].acct][job[d].key].status = "reserved"
    BY <1>10 DEF Shape, ReadsAreCurrent
  <2> QED
    BY <1>2, <1>6, <2>1, <2>2
<1>11. ReadsAreCurrent'
  BY <1>2, <1>8, <1>9, <1>10 DEF Shape, ReadsAreCurrent, LockedOps
<1>12. LimitsSeen'
  BY <1>2, <1>8 DEF Shape, LimitsSeen
<1> QED
  BY <1>5, <1>7, <1>11, <1>12 DEF Shape

LEMMA SettleBeginShape ==
    ASSUME Shape, NEW c \in Clients, NEW a \in Accounts, NEW k \in ResKeys,
           NEW n \in SettleAmounts, SettleBegin(c, a, k, n)
    PROVE  Shape'
<1> DEFINE j == [op |-> "settle", acct |-> a, key |-> k, n |-> n,
                 row |-> res[a][k]]
<1>1. /\ job' = [job EXCEPT ![c] = j]
      /\ ~RowLocked(a, k)
      /\ res[a][k].status = "reserved"
      /\ UNCHANGED <<now, limit, mode, used, reserved, res, consumeIdem,
                     grants, direct, overage, peak>>
  BY DEF SettleBegin
<1>2. j \in SettleJobs
  <2>1. n \in 0..MaxAmount
    BY AmountAssumption
  <2> QED
    BY <2>1 DEF SettleJobs, Shape, TypeOK
<1>3. j.op = "settle" /\ j.acct = a /\ j.key = k /\ j.row = res[a][k]
  OBVIOUS
<1> HIDE DEF j
<1>4. TypeOK'
  BY <1>1, <1>2 DEF Shape, TypeOK, Jobs
<1>5. RowShape'
  BY <1>1 DEF Shape, RowShape
<1>6. /\ job'[c] = j
      /\ \A d \in Clients \ {c} : job'[d] = job[d]
  BY <1>1 DEF Shape, TypeOK
<1>7. \A d \in Clients \ {c} : job[d].op \in {"settle", "release"} =>
          job[d].acct # a \/ job[d].key # k
  BY <1>1 DEF RowLocked
<1>8. ReadsAreCurrent'
  BY <1>1, <1>3, <1>6, <1>7 DEF Shape, ReadsAreCurrent, LockedOps
<1>9. LimitsSeen'
  BY <1>1, <1>3, <1>6 DEF Shape, LimitsSeen
<1> QED
  BY <1>4, <1>5, <1>8, <1>9 DEF Shape

LEMMA ReleaseBeginShape ==
    ASSUME Shape, NEW c \in Clients, NEW a \in Accounts, NEW k \in ResKeys,
           NEW n \in ReleaseAmounts, NEW call \in CallKeys,
           ReleaseBegin(c, a, k, n, call)
    PROVE  Shape'
<1> DEFINE j == [op |-> "release", acct |-> a, key |-> k, n |-> n,
                 row |-> res[a][k], call |-> call]
<1>1. /\ job' = [job EXCEPT ![c] = j]
      /\ ~RowLocked(a, k)
      /\ res[a][k].status = "reserved"
      /\ UNCHANGED <<now, limit, mode, used, reserved, res, consumeIdem,
                     grants, direct, overage, peak>>
  BY DEF ReleaseBegin
<1>2. j \in ReleaseJobs
  <2>1. n \in 0..MaxAmount
    BY AmountAssumption
  <2> QED
    BY <2>1 DEF ReleaseJobs, Shape, TypeOK
<1>3. j.op = "release" /\ j.acct = a /\ j.key = k /\ j.row = res[a][k]
  OBVIOUS
<1> HIDE DEF j
<1>4. TypeOK'
  BY <1>1, <1>2 DEF Shape, TypeOK, Jobs
<1>5. RowShape'
  BY <1>1 DEF Shape, RowShape
<1>6. /\ job'[c] = j
      /\ \A d \in Clients \ {c} : job'[d] = job[d]
  BY <1>1 DEF Shape, TypeOK
<1>7. \A d \in Clients \ {c} : job[d].op \in {"settle", "release"} =>
          job[d].acct # a \/ job[d].key # k
  BY <1>1 DEF RowLocked
<1>8. ReadsAreCurrent'
  BY <1>1, <1>3, <1>6, <1>7 DEF Shape, ReadsAreCurrent, LockedOps
<1>9. LimitsSeen'
  BY <1>1, <1>3, <1>6 DEF Shape, LimitsSeen
<1> QED
  BY <1>4, <1>5, <1>8, <1>9 DEF Shape

\* What Settle and ReleaseReservation know of the row they have locked.
LEMMA ClosingRow ==
    ASSUME Shape, NEW c \in Clients, job[c].op \in {"settle", "release"}
    PROVE  /\ job[c].acct \in Accounts
           /\ job[c].key \in ResKeys
           /\ job[c].n \in 0..MaxAmount
           /\ job[c].row = res[job[c].acct][job[c].key]
           /\ job[c].row \in Reservations
           /\ job[c].row.status = "reserved"
           /\ job[c].row.settled = 0
           /\ job[c].row.period \in Periods
           /\ Outstanding(job[c].row) \in 0..MaxAmount
           /\ job[c].n \in Nat /\ Outstanding(job[c].row) \in Nat
<1>1. /\ job[c].acct \in Accounts
      /\ job[c].key \in ResKeys
      /\ job[c].n \in 0..MaxAmount
      /\ job[c].row \in Reservations
  BY JobType DEF Shape, SettleJobs, ReleaseJobs
<1>2. /\ job[c].row = res[job[c].acct][job[c].key]
      /\ job[c].row.status = "reserved"
  BY DEF Shape, ReadsAreCurrent
<1>3. job[c].row.settled = 0 /\ job[c].row.released <= job[c].row.amount
  BY <1>1, <1>2 DEF Shape, RowShape
<1>4. /\ job[c].row.period \in Periods
      /\ job[c].row.amount \in 0..MaxAmount
      /\ job[c].row.released \in 0..MaxAmount
  BY <1>1 DEF Reservations
<1>5. Outstanding(job[c].row) \in 0..MaxAmount
  BY <1>3, <1>4, AmountAssumption DEF Outstanding
<1>6. job[c].n \in Nat /\ Outstanding(job[c].row) \in Nat
  BY <1>1, <1>5, AmountAssumption
<1> QED
  BY <1>1, <1>2, <1>3, <1>4, <1>5, <1>6

\* Writing a counter row nobody holds, and the reservation row the writer
\* itself holds, leaves what the other transactions read as it was.
LEMMA ClosingReads ==
    ASSUME Shape, NEW c \in Clients, job[c].op \in {"settle", "release"},
           ~CounterLocked(job[c].acct, job[c].row.period),
           \A b \in Accounts, q \in Periods :
              b # job[c].acct \/ q # job[c].row.period =>
                used'[b][q] = used[b][q] /\ reserved'[b][q] = reserved[b][q],
           \A b \in Accounts, l \in ResKeys :
              b # job[c].acct \/ l # job[c].key => res'[b][l] = res[b][l],
           Finish(c), UNCHANGED <<limit, peak>>
    PROVE  ReadsAreCurrent' /\ LimitsSeen'
<1>1. /\ job'[c].op = "idle"
      /\ \A d \in Clients \ {c} : job'[d] = job[d]
  BY DEF Finish, Idle, Shape, TypeOK
<1>2. ASSUME NEW d \in Clients, job[d].op \in LockedOps
      PROVE  /\ used'[job[d].acct][job[d].period]
                  = used[job[d].acct][job[d].period]
             /\ reserved'[job[d].acct][job[d].period]
                  = reserved[job[d].acct][job[d].period]
  BY <1>2, LockedElsewhere DEF Shape
<1>3. ASSUME NEW d \in Clients \ {c}, job[d].op \in {"settle", "release"}
      PROVE  res'[job[d].acct][job[d].key] = res[job[d].acct][job[d].key]
  <2>1. job[d].acct \in Accounts /\ job[d].key \in ResKeys
    BY <1>3, ClosingRow
  <2>2. job[d].acct # job[c].acct \/ job[d].key # job[c].key
    BY <1>3 DEF Shape, ReadsAreCurrent
  <2> QED
    BY <2>1, <2>2
<1>4. ReadsAreCurrent'
  BY <1>1, <1>2, <1>3 DEF Shape, ReadsAreCurrent, LockedOps
<1>5. LimitsSeen'
  BY <1>1 DEF Shape, LimitsSeen
<1> QED
  BY <1>4, <1>5

\* Writing one cell of a table leaves the others.
LEMMA CellUpdate ==
    ASSUME NEW S, NEW T, NEW U, NEW f \in [S -> [T -> U]],
           NEW a \in S, NEW k \in T, NEW v
    PROVE  \A b \in S, l \in T :
              [f EXCEPT ![a][k] = v][b][l] = IF b = a /\ l = k THEN v ELSE f[b][l]
  OBVIOUS

\* The row Settle leaves: closed, with what was really used.
SettledRow(row, n) == [row EXCEPT !.status = "settled", !.settled = n]

\* What Settle writes to the reservation it closes.
LEMMA SettleRow ==
    ASSUME Shape, NEW c \in Clients, SettleCommit(c), NEW a, NEW k, NEW n,
           a = job[c].acct, k = job[c].key, n = job[c].n
    PROVE  \A b \in Accounts, l \in ResKeys :
              res'[b][l] = IF b = a /\ l = k THEN SettledRow(res[a][k], n)
                                             ELSE res[b][l]
<1>1. res \in [Accounts -> [ResKeys -> Reservations]]
  BY DEF Shape, TypeOK
<1>2. a \in Accounts /\ k \in ResKeys /\ res[a][k].status = "reserved"
  BY ClosingRow DEF SettleCommit
<1>3. res' = [res EXCEPT ![a][k] = IF @.status # "reserved" THEN @
                                   ELSE [@ EXCEPT !.status = "settled",
                                                  !.settled = n]]
  BY DEF SettleCommit
<1>4. res' = [res EXCEPT ![a][k] = SettledRow(res[a][k], n)]
  BY <1>1, <1>2, <1>3 DEF SettledRow
<1>5. \A b \in Accounts, l \in ResKeys :
         res'[b][l] = IF b = a /\ l = k THEN SettledRow(res[a][k], n)
                                        ELSE res[b][l]
  BY <1>1, <1>2, <1>4, CellUpdate
<1> QED
  BY <1>5

\* What Settle adds to the used column of the reservation's period.
LEMMA SettleUsed ==
    ASSUME Shape, NEW c \in Clients, SettleCommit(c), NEW a, NEW q, NEW n,
           a = job[c].acct, q = job[c].row.period, n = job[c].n
    PROVE  \A b \in Accounts, p \in Periods :
              used'[b][p] = IF b = a /\ p = q THEN used[b][p] + n
                                              ELSE used[b][p]
<1>1. used \in [Accounts -> [Periods -> Nat]] /\ a \in Accounts /\ q \in Periods
  BY ClosingRow DEF SettleCommit, Shape, TypeOK
<1>2. used' = [used EXCEPT ![a][q] = used[a][q] + n]
  BY <1>1 DEF SettleCommit
<1>3. \A b \in Accounts, p \in Periods :
         used'[b][p] = IF b = a /\ p = q THEN used[a][q] + n ELSE used[b][p]
  BY <1>1, <1>2, CellUpdate
<1> QED
  BY <1>3

LEMMA SettleCommitShape ==
    ASSUME Shape, NEW c \in Clients, SettleCommit(c)
    PROVE  Shape'
<1> DEFINE a == job[c].acct
           k == job[c].key
           n == job[c].n
           p == job[c].row.period
           o == Outstanding(job[c].row)
           r == [res[a][k] EXCEPT !.status = "settled", !.settled = n]
<1>1. /\ job[c].op = "settle"
      /\ ~CounterLocked(a, p)
      /\ used' = [used EXCEPT ![a][p] = @ + n]
      /\ reserved' = [reserved EXCEPT ![a][p] = AtLeastZero(@ - o)]
      /\ res' = [res EXCEPT ![a][k] =
                   IF @.status # "reserved" THEN @
                   ELSE [@ EXCEPT !.status = "settled", !.settled = n]]
      /\ overage' = [overage EXCEPT ![a][p] = @ + AtLeastZero(n - o)]
      /\ Finish(c)
      /\ UNCHANGED <<now, limit, mode, consumeIdem, grants, direct, peak>>
  BY DEF SettleCommit
<1>2. /\ a \in Accounts
      /\ k \in ResKeys
      /\ p \in Periods
      /\ n \in 0..MaxAmount
      /\ n \in Nat
      /\ o \in Nat
      /\ res[a][k] \in Reservations
      /\ res[a][k].status = "reserved"
  BY <1>1, ClosingRow
<1>3. res' = [res EXCEPT ![a][k] = r]
  BY <1>1, <1>2 DEF Shape, TypeOK
<1>4. /\ r \in Reservations
      /\ r.status = "settled"
      /\ r.released = res[a][k].released
      /\ r.amount = res[a][k].amount
  BY <1>2 DEF Reservations, Statuses
<1> HIDE DEF r, o, p, n, a, k
<1>5. TypeOK'
  <2>1. /\ used' \in [Accounts -> [Periods -> Nat]]
        /\ reserved' \in [Accounts -> [Periods -> Nat]]
        /\ overage' \in [Accounts -> [Periods -> Nat]]
    BY <1>1, <1>2 DEF Shape, TypeOK, AtLeastZero
  <2>2. res' \in [Accounts -> [ResKeys -> Reservations]]
    BY <1>2, <1>3, <1>4 DEF Shape, TypeOK
  <2>3. job' \in [Clients -> Jobs]
    BY <1>1 DEF Shape, TypeOK, Finish, Jobs
  <2> QED
    BY <1>1, <2>1, <2>2, <2>3 DEF Shape, TypeOK
<1>6. \A b \in Accounts, l \in ResKeys :
         res'[b][l] = IF b = a /\ l = k THEN r ELSE res[b][l]
  BY <1>2, <1>3 DEF Shape, TypeOK
<1>7. RowShape'
  BY <1>2, <1>4, <1>6 DEF Shape, RowShape
<1>8. \A b \in Accounts, q \in Periods :
         b # a \/ q # p =>
           used'[b][q] = used[b][q] /\ reserved'[b][q] = reserved[b][q]
  BY <1>1, <1>2 DEF Shape, TypeOK
<1>9. ReadsAreCurrent' /\ LimitsSeen'
  <2>1. \A b \in Accounts, l \in ResKeys :
           b # a \/ l # k => res'[b][l] = res[b][l]
    BY <1>6
  <2>2. job[c].op \in {"settle", "release"} /\ UNCHANGED <<limit, peak>>
    BY <1>1
  <2> QED
    BY <1>1, <1>8, <2>1, <2>2, ClosingReads, Zenon DEF a, k, p
<1> QED
  BY <1>5, <1>7, <1>9 DEF Shape

\* A release takes a part of what is outstanding.
LEMMA ReleasedByType ==
    ASSUME Shape, NEW c \in Clients, job[c].op = "release"
    PROVE  /\ ReleasedBy(job[c]) \in 0..MaxAmount
           /\ ReleasedBy(job[c]) <= Outstanding(job[c].row)
<1>1. job[c].n \in 0..MaxAmount /\ Outstanding(job[c].row) \in 0..MaxAmount
  BY ClosingRow
<1> QED
  BY <1>1, AmountAssumption DEF ReleasedBy

LEMMA ReleaseCommitShape ==
    ASSUME Shape, NEW c \in Clients, ReleaseCommit(c)
    PROVE  Shape'
<1> DEFINE a == job[c].acct
           k == job[c].key
           n == ReleasedBy(job[c])
           p == job[c].row.period
           r == AfterRelease(res[a][k], n, job[c].call)
<1>1. /\ job[c].op = "release"
      /\ ~CounterLocked(a, p)
      /\ reserved' = [reserved EXCEPT ![a][p] = AtLeastZero(@ - n)]
      /\ res' = [res EXCEPT ![a][k] =
                   IF @.status # "reserved" THEN @
                   ELSE AfterRelease(@, n, job[c].call)]
      /\ Finish(c)
      /\ UNCHANGED <<now, limit, mode, used, consumeIdem, grants, direct,
                     overage, peak>>
  BY DEF ReleaseCommit
<1>2. /\ a \in Accounts
      /\ k \in ResKeys
      /\ p \in Periods
      /\ res[a][k] = job[c].row
      /\ res[a][k] \in Reservations
      /\ res[a][k].status = "reserved"
      /\ res[a][k].settled = 0
  BY <1>1, ClosingRow
<1>3. n \in Nat /\ n <= Outstanding(res[a][k])
  BY <1>1, <1>2, ReleasedByType, AmountAssumption
<1>4. res' = [res EXCEPT ![a][k] = r]
  BY <1>1, <1>2 DEF Shape, TypeOK
<1>5. job[c].call \in CallKeys
  BY <1>1, JobType DEF Shape, ReleaseJobs
<1>6. /\ r \in Reservations
      /\ r.released <= r.amount
      /\ r.settled = 0
  <2>1. /\ res[a][k].released + n \in 0..MaxAmount
        /\ res[a][k].released + n <= res[a][k].amount
    BY <1>2, <1>3, AmountAssumption DEF Reservations, Outstanding
  <2>2. res[a][k].releaseKeys \cup {job[c].call} \in SUBSET CallKeys
    BY <1>2, <1>5 DEF Reservations
  <2>3. r \in Reservations
    BY <1>2, <2>1, <2>2 DEF AfterRelease, Reservations, Statuses
  <2>4. /\ r.released = res[a][k].released + n
        /\ r.amount = res[a][k].amount
        /\ r.settled = res[a][k].settled
    BY <1>2 DEF AfterRelease, Reservations
  <2> QED
    BY <1>2, <2>1, <2>3, <2>4
<1> HIDE DEF r, p, n, a, k
<1>7. TypeOK'
  <2>1. reserved' \in [Accounts -> [Periods -> Nat]]
    BY <1>1, <1>2, <1>3 DEF Shape, TypeOK, AtLeastZero
  <2>2. res' \in [Accounts -> [ResKeys -> Reservations]]
    BY <1>2, <1>4, <1>6 DEF Shape, TypeOK
  <2>3. job' \in [Clients -> Jobs]
    BY <1>1 DEF Shape, TypeOK, Finish, Jobs
  <2> QED
    BY <1>1, <2>1, <2>2, <2>3 DEF Shape, TypeOK
<1>8. \A b \in Accounts, l \in ResKeys :
         res'[b][l] = IF b = a /\ l = k THEN r ELSE res[b][l]
  BY <1>2, <1>4 DEF Shape, TypeOK
<1>9. RowShape'
  BY <1>6, <1>8 DEF Shape, RowShape
<1>10. \A b \in Accounts, q \in Periods :
          b # a \/ q # p =>
            used'[b][q] = used[b][q] /\ reserved'[b][q] = reserved[b][q]
  BY <1>1, <1>2 DEF Shape, TypeOK
<1>11. ReadsAreCurrent' /\ LimitsSeen'
  <2>1. \A b \in Accounts, l \in ResKeys :
           b # a \/ l # k => res'[b][l] = res[b][l]
    BY <1>8
  <2>2. job[c].op \in {"settle", "release"} /\ UNCHANGED <<limit, peak>>
    BY <1>1
  <2> QED
    BY <1>1, <1>10, <2>1, <2>2, ClosingReads, Zenon DEF a, k, p
<1> QED
  BY <1>7, <1>9, <1>11 DEF Shape

\* What a batch of due reservations holds is what those of one counter hold.
LEMMA HeldFunctions ==
    ASSUME Shape, NEW a \in Accounts, NEW p \in Periods, NEW S
    PROVE  /\ [k \in ResKeys |-> HeldIn(res[a][k], p)]
                \in [ResKeys -> 0..MaxAmount]
           /\ [k \in ResKeys |-> IF <<a, k>> \in S THEN HeldIn(res[a][k], p)
                                                   ELSE 0]
                \in [ResKeys -> 0..MaxAmount]
<1>1. ASSUME NEW k \in ResKeys
      PROVE  HeldIn(res[a][k], p) \in 0..MaxAmount
  <2>1. /\ res[a][k] \in Reservations
        /\ res[a][k].released <= res[a][k].amount
    BY DEF Shape, TypeOK, RowShape
  <2> QED
    BY <2>1, AmountAssumption DEF HeldIn, Outstanding, Reservations
<1> QED
  BY <1>1, AmountAssumption

LEMMA ExpireShape ==
    ASSUME Shape, NEW S, Expire(S)
    PROVE  Shape'
<1>1. /\ S \subseteq Due
      /\ \A r \in S : ~CounterLocked(r[1], res[r[1]][r[2]].period)
      /\ reserved' = [a \in Accounts |-> [p \in Periods |->
                        AtLeastZero(reserved[a][p] - HeldBy(S, a, p))]]
      /\ res' = [a \in Accounts |-> [k \in ResKeys |->
                   IF <<a, k>> \in S
                   THEN [res[a][k] EXCEPT !.status = "expired"]
                   ELSE res[a][k]]]
      /\ UNCHANGED <<now, limit, mode, used, consumeIdem, grants, job,
                     direct, overage, peak>>
  BY DEF Expire, IsBatch
<1>2. ASSUME NEW a \in Accounts, NEW p \in Periods
      PROVE  HeldBy(S, a, p) \in Nat
  <2> DEFINE f == [k \in ResKeys |-> IF <<a, k>> \in S
                                     THEN HeldIn(res[a][k], p) ELSE 0]
  <2>1. f \in [ResKeys -> 0..MaxAmount]
    BY HeldFunctions
  <2> HIDE DEF f
  <2>2. Total(f) \in Nat
    BY <2>1, TotalType, FiniteAssumption
  <2> QED
    BY <2>2 DEF HeldBy, f
<1>3. \A a \in Accounts, k \in ResKeys :
        /\ res'[a][k] \in Reservations
        /\ res'[a][k].released = res[a][k].released
        /\ res'[a][k].amount = res[a][k].amount
        /\ res'[a][k].settled = res[a][k].settled
        /\ res'[a][k].status = res[a][k].status
             \/ res'[a][k].status = "expired"
        /\ <<a, k>> \notin S => res'[a][k] = res[a][k]
  <2> SUFFICES ASSUME NEW a \in Accounts, NEW k \in ResKeys
               PROVE  /\ res'[a][k] \in Reservations
                      /\ res'[a][k].released = res[a][k].released
                      /\ res'[a][k].amount = res[a][k].amount
                      /\ res'[a][k].settled = res[a][k].settled
                      /\ res'[a][k].status = res[a][k].status
                           \/ res'[a][k].status = "expired"
                      /\ <<a, k>> \notin S => res'[a][k] = res[a][k]
    OBVIOUS
  <2>1. res[a][k] \in Reservations
    BY DEF Shape, TypeOK
  <2>2. res'[a][k] = IF <<a, k>> \in S
                     THEN [res[a][k] EXCEPT !.status = "expired"]
                     ELSE res[a][k]
    BY <1>1
  <2> QED
    BY <2>1, <2>2 DEF Reservations, Statuses
<1>4. TypeOK'
  <2>1. reserved' \in [Accounts -> [Periods -> Nat]]
    <3>1. ASSUME NEW a \in Accounts, NEW p \in Periods
          PROVE  AtLeastZero(reserved[a][p] - HeldBy(S, a, p)) \in Nat
      BY <1>2 DEF Shape, TypeOK, AtLeastZero
    <3> QED
      BY <1>1, <3>1
  <2>2. res' \in [Accounts -> [ResKeys -> Reservations]]
    <3>1. \A a \in Accounts : res'[a] \in [ResKeys -> Reservations]
      BY <1>1, <1>3
    <3> QED
      BY <1>1, <3>1
  <2> QED
    BY <1>1, <2>1, <2>2 DEF Shape, TypeOK
<1>5. RowShape'
  <2> SUFFICES ASSUME NEW a \in Accounts, NEW k \in ResKeys
               PROVE  /\ res'[a][k].released <= res'[a][k].amount
                      /\ res'[a][k].status \in {"none", "reserved"} =>
                            res'[a][k].settled = 0
    BY DEF RowShape
  <2>1. /\ res[a][k].released <= res[a][k].amount
        /\ res[a][k].status \in {"none", "reserved"} => res[a][k].settled = 0
    BY DEF Shape, RowShape
  <2> QED
    BY <1>3, <2>1
<1>6. ASSUME NEW d \in Clients, job[d].op \in LockedOps
      PROVE  reserved'[job[d].acct][job[d].period]
               = reserved[job[d].acct][job[d].period]
  <2> DEFINE a == job[d].acct
             p == job[d].period
             f == [k \in ResKeys |-> IF <<a, k>> \in S
                                     THEN HeldIn(res[a][k], p) ELSE 0]
  <2>1. a \in Accounts /\ p \in Periods
    BY <1>6, JobType DEF Shape, LockedJobs
  <2>2. ASSUME NEW k \in ResKeys, <<a, k>> \in S
        PROVE  HeldIn(res[a][k], p) = 0
    <3>1. ~CounterLocked(a, res[a][k].period)
      BY <1>1, <2>2
    <3>2. res[a][k].period # p
      BY <1>6, <3>1 DEF CounterLocked
    <3> QED
      BY <3>2 DEF HeldIn
  <2>3. f \in [ResKeys -> {0}]
    BY <2>2
  <2>4. HeldBy(S, a, p) = 0
    <3> HIDE DEF f, a, p
    <3>1. Total(f) = 0
      BY <2>3, TotalZero
    <3> QED
      BY <3>1 DEF HeldBy, f
  <2>5. reserved[a][p] \in Nat
    BY <2>1 DEF Shape, TypeOK
  <2>6. reserved'[a][p] = AtLeastZero(reserved[a][p] - HeldBy(S, a, p))
    BY <1>1, <2>1
  <2> QED
    BY <2>4, <2>5, <2>6 DEF AtLeastZero
<1>7. ASSUME NEW d \in Clients, job[d].op \in {"settle", "release"}
      PROVE  res'[job[d].acct][job[d].key] = res[job[d].acct][job[d].key]
  <2>1. job[d].acct \in Accounts /\ job[d].key \in ResKeys
    BY <1>7, ClosingRow
  <2>2. RowLocked(job[d].acct, job[d].key)
    BY <1>7 DEF RowLocked
  <2>3. <<job[d].acct, job[d].key>> \notin Due
    BY <2>2 DEF Due
  <2> QED
    BY <1>1, <1>3, <2>1, <2>3
<1>8. ReadsAreCurrent'
  BY <1>1, <1>6, <1>7 DEF Shape, ReadsAreCurrent
<1>9. LimitsSeen'
  BY <1>1 DEF Shape, LimitsSeen
<1> QED
  BY <1>4, <1>5, <1>8, <1>9 DEF Shape

LEMMA GrantShape ==
    ASSUME Shape, NEW a \in Accounts, NEW r \in Refs, NEW n \in GrantAmounts,
           NEW m \in BOOLEAN, Grant(a, r, n, m)
    PROVE  Shape'
<1>1. [period |-> Period(now), amount |-> n, monthly |-> m] \in GrantRows
  BY RowTypes, AmountAssumption DEF GrantRows, Shape, TypeOK
<1>2. <<r, Base>> \in GrantIds
  BY DEF GrantIds
<1>3. grants' \in [Accounts -> [GrantIds -> GrantRows]]
  BY <1>1, <1>2 DEF Grant, Shape, TypeOK
<1>4. TypeOK'
  BY <1>3 DEF Grant, Shape, TypeOK
<1>5. RowShape' /\ ReadsAreCurrent' /\ LimitsSeen'
  BY DEF Grant, Shape, RowShape, ReadsAreCurrent, LimitsSeen
<1> QED
  BY <1>4, <1>5 DEF Shape

LEMMA RefreshedType ==
    ASSUME TypeOK, NEW a \in Accounts, NEW g \in GrantIds, NEW p \in Periods
    PROVE  Refreshed(a, g, p) \in GrantRows
<1>1. g[1] \in Refs /\ <<g[1], Base>> \in GrantIds
  BY DEF GrantIds
<1>2. grants[a][g] \in GrantRows /\ grants[a][<<g[1], Base>>] \in GrantRows
  BY <1>1 DEF TypeOK
<1>3. [period |-> p, amount |-> grants[a][<<g[1], Base>>].amount,
       monthly |-> FALSE] \in GrantRows
  BY <1>2 DEF GrantRows
<1> QED
  BY <1>2, <1>3 DEF Refreshed

LEMMA RefreshShape ==
    ASSUME Shape, NEW p \in Periods, RefreshPeriodicGrants(p)
    PROVE  Shape'
<1>1. grants' \in [Accounts -> [GrantIds -> GrantRows]]
  BY RefreshedType DEF RefreshPeriodicGrants, Shape
<1>2. TypeOK'
  BY <1>1 DEF RefreshPeriodicGrants, Shape, TypeOK
<1>3. RowShape' /\ ReadsAreCurrent' /\ LimitsSeen'
  BY DEF RefreshPeriodicGrants, Shape, RowShape, ReadsAreCurrent, LimitsSeen
<1> QED
  BY <1>2, <1>3 DEF Shape

LEMMA TickShape ==
    ASSUME Shape, Tick
    PROVE  Shape'
<1>1. now' \in Times
  BY TimeAssumption DEF Tick, Shape, TypeOK, Times
<1>2. TypeOK'
  BY <1>1 DEF Tick, Shape, TypeOK
<1>3. RowShape' /\ ReadsAreCurrent' /\ LimitsSeen'
  BY DEF Tick, Shape, RowShape, ReadsAreCurrent, LimitsSeen
<1> QED
  BY <1>2, <1>3 DEF Shape

\* Each step of the service keeps the shape.
LEMMA ShapeStep ==
    Shape /\ [Next]_vars => Shape'
<1> SUFFICES ASSUME Shape, [Next]_vars PROVE Shape'
  OBVIOUS
<1>1. ASSUME NEW c \in Clients, NEW a \in Accounts, Call(c, a)
      PROVE  Shape'
  BY <1>1, ConsumeBeginShape, ReserveBeginShape, SettleBeginShape,
     ReleaseBeginShape DEF Call
<1>2. ASSUME NEW c \in Clients, Complete(c)
      PROVE  Shape'
  <2>1. CASE ConsumeRefuse(c)
    BY <2>1, FinishShape DEF ConsumeRefuse
  <2>2. CASE ReserveRefuse(c)
    BY <2>2, FinishShape DEF ReserveRefuse
  <2> QED
    BY <1>2, <2>1, <2>2, ConsumeApplyShape, ReserveLockShape,
       ReserveReadPlanShape, ReserveDecideShape, ReserveCommitShape,
       SettleCommitShape, ReleaseCommitShape DEF Complete
<1>3. ASSUME NEW c \in Clients, Abort(c)
      PROVE  Shape'
  BY <1>3, FinishShape DEF Abort
<1>4. ASSUME NEW a \in Accounts, NEW l \in Limits, NEW m \in Modes,
             PlanChange(a, l, m)
      PROVE  Shape'
  BY <1>4, PlanChangeShape
<1>5. ASSUME NEW a \in Accounts, NEW n \in RefundAmounts, Refund(a, n)
      PROVE  Shape'
  BY <1>5, RefundShape
<1>6. ASSUME NEW a \in Accounts, NEW r \in Refs, NEW n \in GrantAmounts,
             NEW m \in BOOLEAN, Grant(a, r, n, m)
      PROVE  Shape'
  BY <1>6, GrantShape
<1>7. CASE ExpireDueReservations
  BY <1>7, ExpireShape DEF ExpireDueReservations
<1>8. CASE RefreshWorker
  BY <1>8, RefreshShape, RowTypes DEF RefreshWorker
<1>9. CASE Tick
  BY <1>9, TickShape
<1>10. CASE UNCHANGED vars
  BY <1>10 DEF vars, Shape, TypeOK, RowShape, ReadsAreCurrent, LimitsSeen
<1> QED
  BY <1>1, <1>2, <1>3, <1>4, <1>5, <1>6, <1>7, <1>8, <1>9, <1>10 DEF Next

\* The invariant behind the other theorems holds whatever the callers, the
\* workers and failures do (Reserve, Settle, ReleaseReservation, Consume).
THEOREM ShapeInvariant == Spec => []Shape
  BY ShapeInit, ShapeStep, PTL DEF Spec

\* Every table and every transaction in flight keeps its type, whatever the
\* callers, the workers and failures do.
THEOREM TypeCorrect == Spec => []TypeOK
<1>1. Shape => TypeOK
  BY DEF Shape
<1> QED
  BY <1>1, ShapeInvariant, PTL

\* The row locks of reserveTx, Settle and ReleaseReservation do protect what
\* their transactions read until they commit.
THEOREM ReadsStayCurrent == Spec => []ReadsAreCurrent
<1>1. Shape => ReadsAreCurrent
  BY DEF Shape
<1> QED
  BY <1>1, ShapeInvariant, PTL

-----------------------------------------------------------------------------
(* The reserved column *)

LEMMA HeldType ==
    ASSUME Shape, NEW a \in Accounts, NEW p \in Periods
    PROVE  Held(a, p) \in Nat
<1> DEFINE f == [k \in ResKeys |-> HeldIn(res[a][k], p)]
<1>1. f \in [ResKeys -> 0..MaxAmount]
  BY HeldFunctions
<1> HIDE DEF f
<1>2. Total(f) \in Nat
  BY <1>1, TotalType, FiniteAssumption
<1> QED
  BY <1>2 DEF Held, f

\* When one reservation of an account changes, what the account holds of a
\* period changes with it.
LEMMA HeldUpdate ==
    ASSUME Shape, Shape', NEW a \in Accounts, NEW p \in Periods,
           NEW k \in ResKeys,
           \A l \in ResKeys \ {k} : res'[a][l] = res[a][l]
    PROVE  /\ Held(a, p) \in Nat
           /\ Held(a, p)' \in Nat
           /\ HeldIn(res[a][k], p) \in Nat
           /\ HeldIn(res'[a][k], p) \in Nat
           /\ Held(a, p)' = Held(a, p) - HeldIn(res[a][k], p)
                              + HeldIn(res'[a][k], p)
<1> DEFINE f == [l \in ResKeys |-> HeldIn(res[a][l], p)]
           g == [l \in ResKeys |-> HeldIn(res'[a][l], p)]
<1>1. f \in [ResKeys -> 0..MaxAmount]
  BY HeldFunctions
<1>2. g \in [ResKeys -> 0..MaxAmount]
  <2>1. ASSUME NEW l \in ResKeys
        PROVE  HeldIn(res'[a][l], p) \in 0..MaxAmount
    <3>1. /\ res'[a][l] \in Reservations
          /\ res'[a][l].released <= res'[a][l].amount
      BY DEF Shape, TypeOK, RowShape
    <3> QED
      BY <3>1, AmountAssumption DEF HeldIn, Outstanding, Reservations
  <2> QED
    BY <2>1
<1>3. /\ f[k] = HeldIn(res[a][k], p)
      /\ g[k] = HeldIn(res'[a][k], p)
      /\ \A l \in ResKeys \ {k} : g[l] = f[l]
  OBVIOUS
<1>4. Held(a, p) = Total(f) /\ Held(a, p)' = Total(g)
  BY DEF Held
<1> HIDE DEF f, g
<1>5. Total(g) = Total(f) - f[k] + g[k]
  BY <1>1, <1>2, <1>3, TotalUpdate, FiniteAssumption
<1>6. Total(f) \in Nat /\ Total(g) \in Nat /\ f[k] \in Nat /\ g[k] \in Nat
  BY <1>1, <1>2, TotalType, FiniteAssumption, AmountAssumption
<1> QED
  BY <1>3, <1>4, <1>5, <1>6

LEMMA ReserveCommitReserved ==
    ASSUME Shape, Shape', ReservedIsOutstanding, NEW c \in Clients,
           ReserveCommit(c)
    PROVE  ReservedIsOutstanding'
<1> DEFINE a == job[c].acct
           k == job[c].key
           n == job[c].n
           r == [status |-> "reserved", period |-> job[c].period,
                 amount |-> n, settled |-> 0, released |-> 0,
                 releaseKeys |-> {}, expiresAt |-> job[c].expiresAt]
<1>1. /\ a \in Accounts
      /\ k \in ResKeys
      /\ n \in Nat
      /\ job[c].period \in Periods
  BY JobType, AmountAssumption DEF Shape, ReserveCommit, LockedJobs, LockedOps
<1>2. /\ res' = [res EXCEPT ![a][k] = r]
      /\ res[a][k].status = "none"
      /\ reserved' = [reserved EXCEPT ![a][job[c].period] = @ + n]
  BY DEF ReserveCommit
<1>3. SUFFICES ASSUME NEW b \in Accounts, NEW p \in Periods
               PROVE  reserved'[b][p] = Held(b, p)'
  BY DEF ReservedIsOutstanding
<1>4. reserved[b][p] = Held(b, p)
  BY DEF ReservedIsOutstanding
<1>5. CASE b # a
  <2>1. res'[b] = res[b] /\ reserved'[b] = reserved[b]
    BY <1>2, <1>5 DEF Shape, TypeOK
  <2> QED
    BY <1>4, <2>1 DEF Held
<1>6. CASE b = a
  <2>1. PICK l \in ResKeys : l = k
    BY <1>1
  <2>2. res'[b][l] = r /\ \A m \in ResKeys \ {l} : res'[b][m] = res[b][m]
    BY <1>1, <1>2, <1>6, <2>1 DEF Shape, TypeOK
  <2>3. HeldIn(res[b][l], p) = 0
    BY <1>2, <1>6, <2>1 DEF HeldIn
  <2>4. HeldIn(r, p) = IF job[c].period = p THEN n ELSE 0
    BY <1>1 DEF HeldIn, Outstanding
  <2>5. reserved'[b][p] = IF job[c].period = p THEN reserved[b][p] + n
                                               ELSE reserved[b][p]
    BY <1>1, <1>2, <1>6 DEF Shape, TypeOK
  <2>6. /\ Held(b, p) \in Nat
        /\ Held(b, p)' = Held(b, p) - HeldIn(res[b][l], p)
                           + HeldIn(res'[b][l], p)
    BY <2>2, HeldUpdate
  <2>7. Held(b, p)' = Held(b, p) + (IF job[c].period = p THEN n ELSE 0)
    BY <1>1, <2>2, <2>3, <2>4, <2>6
  <2> QED
    BY <1>1, <1>4, <2>5, <2>6, <2>7
<1> QED
  BY <1>5, <1>6

\* Closing (a part of) the reservation a transaction has locked returns to
\* the counter exactly what the reservation stops holding.
LEMMA ClosingReserved ==
    ASSUME Shape, Shape', ReservedIsOutstanding,
           NEW a \in Accounts, NEW k \in ResKeys, NEW q \in Periods,
           NEW o \in Nat, NEW n \in Nat,
           res[a][k].status = "reserved",
           res[a][k].period = q,
           Outstanding(res[a][k]) = o,
           \A b \in Accounts, l \in ResKeys :
              b # a \/ l # k => res'[b][l] = res[b][l],
           \A b \in Accounts, p \in Periods :
              reserved'[b][p] = IF b = a /\ p = q
                                THEN AtLeastZero(reserved[a][q] - n)
                                ELSE reserved[b][p],
           res'[a][k].period = q,
           HeldIn(res'[a][k], q) = o - n
    PROVE  /\ ReservedIsOutstanding'
           /\ n <= reserved[a][q]
<1>1. \A l \in ResKeys \ {k} : res'[a][l] = res[a][l]
  OBVIOUS
<1>2. ASSUME NEW p \in Periods
      PROVE  HeldIn(res[a][k], p) = IF p = q THEN o ELSE 0
  BY DEF HeldIn
<1>3. ASSUME NEW p \in Periods
      PROVE  HeldIn(res'[a][k], p) = IF p = q THEN o - n ELSE 0
  BY DEF HeldIn
<1>4. ASSUME NEW p \in Periods
      PROVE  /\ Held(a, p) \in Nat
             /\ Held(a, p)' \in Nat
             /\ reserved[a][p] = Held(a, p)
             /\ Held(a, p)' = IF p = q THEN Held(a, p) - n ELSE Held(a, p)
  <2>1. reserved[a][p] = Held(a, p)
    BY DEF ReservedIsOutstanding
  <2>2. /\ Held(a, p) \in Nat
        /\ Held(a, p)' \in Nat
        /\ Held(a, p)' = Held(a, p) - HeldIn(res[a][k], p)
                           + HeldIn(res'[a][k], p)
    BY <1>1, HeldUpdate
  <2> QED
    BY <1>1, <1>2, <1>3, <2>1, <2>2
<1>5. n <= reserved[a][q]
  BY <1>4
<1>6. ASSUME NEW b \in Accounts, NEW p \in Periods
      PROVE  reserved'[b][p] = Held(b, p)'
  <2>1. CASE b # a
    <3>1. /\ \A l \in ResKeys : res'[b][l] = res[b][l]
          /\ reserved'[b][p] = reserved[b][p]
      BY <2>1
    <3> QED
      BY <3>1 DEF Held, ReservedIsOutstanding
  <2>2. CASE b = a
    <3>1. reserved'[a][p] = IF p = q THEN AtLeastZero(reserved[a][q] - n)
                                     ELSE reserved[a][p]
      OBVIOUS
    <3>2. reserved[a][q] \in Nat
      BY DEF Shape, TypeOK
    <3>3. AtLeastZero(reserved[a][q] - n) = reserved[a][q] - n
      BY <1>5, <3>2 DEF AtLeastZero
    <3> QED
      BY <1>4, <2>2, <3>1, <3>3
  <2> QED
    BY <2>1, <2>2
<1> QED
  BY <1>5, <1>6 DEF ReservedIsOutstanding

\* Settle returns all that is outstanding, and the counter held that much.
LEMMA SettleCommitReserved ==
    ASSUME Shape, Shape', ReservedIsOutstanding, NEW c \in Clients,
           SettleCommit(c)
    PROVE  /\ ReservedIsOutstanding'
           /\ Outstanding(job[c].row)
                <= reserved[job[c].acct][job[c].row.period]
<1>1. PICK a \in Accounts, k \in ResKeys, q \in Periods, o \in Nat :
         /\ a = job[c].acct
         /\ k = job[c].key
         /\ q = job[c].row.period
         /\ o = Outstanding(job[c].row)
  BY ClosingRow DEF SettleCommit
<1>2. /\ res[a][k] = job[c].row
      /\ res[a][k].status = "reserved"
      /\ res[a][k] \in Reservations
  BY <1>1, ClosingRow DEF SettleCommit
<1>3. \A b \in Accounts, l \in ResKeys :
         res'[b][l] = IF b = a /\ l = k
                      THEN [res[a][k] EXCEPT !.status = "settled",
                                             !.settled = job[c].n]
                      ELSE res[b][l]
  <2>1. \A b \in Accounts, l \in ResKeys :
           res'[b][l] = IF b = a /\ l = k THEN SettledRow(res[a][k], job[c].n)
                                          ELSE res[b][l]
    BY <1>1, SettleRow
  <2> QED
    BY <2>1 DEF SettledRow
<1>4. \A b \in Accounts, p \in Periods :
         reserved'[b][p] = IF b = a /\ p = q
                           THEN AtLeastZero(reserved[a][q] - o)
                           ELSE reserved[b][p]
  <2>1. reserved' = [reserved EXCEPT ![a][q] = AtLeastZero(@ - o)]
    BY <1>1 DEF SettleCommit
  <2>2. reserved \in [Accounts -> [Periods -> Nat]]
    BY DEF Shape, TypeOK
  <2> QED
    BY <2>1, <2>2
<1>5. res'[a][k].period = q /\ res'[a][k].status = "settled"
  <2>1. res'[a][k] = [res[a][k] EXCEPT !.status = "settled",
                                       !.settled = job[c].n]
    BY <1>3
  <2> QED
    BY <1>1, <1>2, <2>1 DEF Reservations
<1>6. HeldIn(res'[a][k], q) = o - o
  BY <1>5 DEF HeldIn
<1>7. res[a][k].period = q /\ Outstanding(res[a][k]) = o
  BY <1>1, <1>2
<1>8. \A b \in Accounts, l \in ResKeys :
         b # a \/ l # k => res'[b][l] = res[b][l]
  BY <1>3
<1>9. ReservedIsOutstanding' /\ o <= reserved[a][q]
  BY <1>2, <1>4, <1>5, <1>6, <1>7, <1>8, ClosingReserved
<1> QED
  BY <1>1, <1>9

LEMMA ReleaseCommitReserved ==
    ASSUME Shape, Shape', ReservedIsOutstanding, NEW c \in Clients,
           ReleaseCommit(c)
    PROVE  ReservedIsOutstanding'
<1>1. PICK a \in Accounts, k \in ResKeys, q \in Periods, o \in Nat, n \in Nat :
         /\ a = job[c].acct
         /\ k = job[c].key
         /\ q = job[c].row.period
         /\ o = Outstanding(job[c].row)
         /\ n = ReleasedBy(job[c])
         /\ n <= o
  BY ClosingRow, ReleasedByType, AmountAssumption DEF ReleaseCommit
<1>2. /\ res[a][k] = job[c].row
      /\ res[a][k].status = "reserved"
      /\ res[a][k] \in Reservations
  BY <1>1, ClosingRow DEF ReleaseCommit
<1>3. \A b \in Accounts, l \in ResKeys :
         res'[b][l] = IF b = a /\ l = k
                      THEN AfterRelease(res[a][k], n, job[c].call)
                      ELSE res[b][l]
  BY <1>1, <1>2 DEF ReleaseCommit, Shape, TypeOK
<1>4. \A b \in Accounts, p \in Periods :
         reserved'[b][p] = IF b = a /\ p = q
                           THEN AtLeastZero(reserved[a][q] - n)
                           ELSE reserved[b][p]
  <2>1. reserved' = [reserved EXCEPT ![a][q] = AtLeastZero(@ - n)]
    BY <1>1 DEF ReleaseCommit
  <2>2. reserved \in [Accounts -> [Periods -> Nat]]
    BY DEF Shape, TypeOK
  <2> QED
    BY <2>1, <2>2
<1>5. res[a][k].period = q /\ Outstanding(res[a][k]) = o
  BY <1>1, <1>2
<1>6. /\ res'[a][k].period = q
      /\ res'[a][k].amount = res[a][k].amount
      /\ res'[a][k].released = res[a][k].released + n
      /\ res'[a][k].status = IF res[a][k].released + n >= res[a][k].amount
                             THEN "released" ELSE "reserved"
  BY <1>2, <1>3, <1>5 DEF AfterRelease, Reservations
<1>7. res[a][k].amount \in Nat /\ res[a][k].released \in Nat
  BY <1>2, AmountAssumption DEF Reservations
<1>8. HeldIn(res'[a][k], q) = o - n
  BY <1>1, <1>5, <1>6, <1>7 DEF HeldIn, Outstanding
<1>9. \A b \in Accounts, l \in ResKeys :
         b # a \/ l # k => res'[b][l] = res[b][l]
  BY <1>3
<1> QED
  BY <1>2, <1>4, <1>5, <1>6, <1>8, <1>9, ClosingReserved

LEMMA ExpireReserved ==
    ASSUME Shape, ReservedIsOutstanding, NEW S, Expire(S)
    PROVE  ReservedIsOutstanding'
<1>1. SUFFICES ASSUME NEW a \in Accounts, NEW p \in Periods
               PROVE  reserved'[a][p] = Held(a, p)'
  BY DEF ReservedIsOutstanding
<1> DEFINE f == [k \in ResKeys |-> HeldIn(res[a][k], p)]
           g == [k \in ResKeys |-> HeldIn(res'[a][k], p)]
           h == [k \in ResKeys |-> IF <<a, k>> \in S
                                   THEN HeldIn(res[a][k], p) ELSE 0]
<1>2. f \in [ResKeys -> 0..MaxAmount] /\ h \in [ResKeys -> 0..MaxAmount]
  BY HeldFunctions
<1>3. ASSUME NEW k \in ResKeys
      PROVE  HeldIn(res'[a][k], p) = IF <<a, k>> \in S THEN 0
                                     ELSE HeldIn(res[a][k], p)
  <2>1. res[a][k] \in Reservations
    BY DEF Shape, TypeOK
  <2>2. res'[a][k] = IF <<a, k>> \in S
                     THEN [res[a][k] EXCEPT !.status = "expired"]
                     ELSE res[a][k]
    BY DEF Expire
  <2> QED
    BY <2>1, <2>2 DEF HeldIn, Reservations
<1>4. /\ g \in [ResKeys -> 0..MaxAmount]
      /\ \A k \in ResKeys : \/ g[k] = f[k] /\ h[k] = 0
                            \/ g[k] = 0 /\ h[k] = f[k]
  <2>1. \A k \in ResKeys : g[k] = IF <<a, k>> \in S THEN 0 ELSE f[k]
    BY <1>3
  <2>2. \A k \in ResKeys : h[k] = IF <<a, k>> \in S THEN f[k] ELSE 0
    OBVIOUS
  <2>3. \A k \in ResKeys : HeldIn(res[a][k], p) \in 0..MaxAmount
    BY <1>2
  <2>4. g \in [ResKeys -> 0..MaxAmount]
    <3>1. \A k \in ResKeys : HeldIn(res'[a][k], p) \in 0..MaxAmount
      <4>1. 0 \in 0..MaxAmount
        BY AmountAssumption
      <4> QED
        BY <1>3, <2>3, <4>1, Zenon
    <3> QED
      BY <3>1
  <2> HIDE DEF f, g, h
  <2> QED
    BY <2>1, <2>2, <2>4
<1>5. /\ Held(a, p) = Total(f)
      /\ Held(a, p)' = Total(g)
      /\ HeldBy(S, a, p) = Total(h)
  BY DEF Held, HeldBy
<1> HIDE DEF f, g, h
<1>6. Total(f) = Total(g) + Total(h)
  BY <1>2, <1>4, TotalSplit, FiniteAssumption
<1>7. Total(f) \in Nat /\ Total(g) \in Nat /\ Total(h) \in Nat
  BY <1>2, <1>4, TotalType, FiniteAssumption
<1>8. reserved[a][p] = Held(a, p)
  BY DEF ReservedIsOutstanding
<1>9. reserved'[a][p] = AtLeastZero(reserved[a][p] - HeldBy(S, a, p))
  BY DEF Expire
<1> QED
  BY <1>5, <1>6, <1>7, <1>8, <1>9 DEF AtLeastZero

\* The other operations touch neither the reservations nor what is reserved.
LEMMA ReservedUnchanged ==
    ASSUME ReservedIsOutstanding, UNCHANGED <<res, reserved>>
    PROVE  ReservedIsOutstanding'
  BY DEF ReservedIsOutstanding, Held

LEMMA ReservedStep ==
    Shape /\ Shape' /\ ReservedIsOutstanding /\ [Next]_vars
      => ReservedIsOutstanding'
<1> SUFFICES ASSUME Shape, Shape', ReservedIsOutstanding, [Next]_vars
             PROVE  ReservedIsOutstanding'
  OBVIOUS
<1>1. ASSUME NEW c \in Clients, NEW a \in Accounts, Call(c, a)
      PROVE  ReservedIsOutstanding'
  BY <1>1, ReservedUnchanged
     DEF Call, ConsumeBegin, ReserveBegin, SettleBegin, ReleaseBegin
<1>2. ASSUME NEW c \in Clients, Complete(c)
      PROVE  ReservedIsOutstanding'
  <2>1. CASE \/ ConsumeRefuse(c) \/ ConsumeApply(c) \/ ReserveLock(c)
             \/ ReserveReadPlan(c) \/ ReserveDecide(c) \/ ReserveRefuse(c)
    BY <2>1, ReservedUnchanged
       DEF ConsumeRefuse, ConsumeApply, ReserveLock, ReserveReadPlan,
           ReserveDecide, ReserveRefuse
  <2> QED
    BY <1>2, <2>1, ReserveCommitReserved, SettleCommitReserved,
       ReleaseCommitReserved DEF Complete
<1>3. ASSUME NEW c \in Clients, Abort(c)
      PROVE  ReservedIsOutstanding'
  BY <1>3, ReservedUnchanged DEF Abort
<1>4. ASSUME NEW a \in Accounts, NEW l \in Limits, NEW m \in Modes,
             PlanChange(a, l, m)
      PROVE  ReservedIsOutstanding'
  BY <1>4, ReservedUnchanged DEF PlanChange
<1>5. ASSUME NEW a \in Accounts, NEW n \in RefundAmounts, Refund(a, n)
      PROVE  ReservedIsOutstanding'
  BY <1>5, ReservedUnchanged DEF Refund
<1>6. ASSUME NEW a \in Accounts, NEW r \in Refs, NEW n \in GrantAmounts,
             NEW m \in BOOLEAN, Grant(a, r, n, m)
      PROVE  ReservedIsOutstanding'
  BY <1>6, ReservedUnchanged DEF Grant
<1>7. CASE ExpireDueReservations
  BY <1>7, ExpireReserved DEF ExpireDueReservations
<1>8. CASE RefreshWorker
  BY <1>8, ReservedUnchanged DEF RefreshWorker, RefreshPeriodicGrants
<1>9. CASE Tick
  BY <1>9, ReservedUnchanged DEF Tick
<1>10. CASE UNCHANGED vars
  BY <1>10, ReservedUnchanged DEF vars
<1> QED
  BY <1>1, <1>2, <1>3, <1>4, <1>5, <1>6, <1>7, <1>8, <1>9, <1>10 DEF Next

LEMMA ReservedInit ==
    Init => ReservedIsOutstanding
<1> SUFFICES ASSUME Init, NEW a \in Accounts, NEW p \in Periods
             PROVE  reserved[a][p] = Held(a, p)
  BY DEF ReservedIsOutstanding
<1> DEFINE f == [k \in ResKeys |-> HeldIn(res[a][k], p)]
<1>1. f \in [ResKeys -> {0}]
  BY DEF Init, HeldIn, NoReservation
<1> HIDE DEF f
<1>2. Total(f) = 0
  BY <1>1, TotalZero
<1> QED
  BY <1>2 DEF Init, Held, f

\* The reserved column of every counter is what its open reservations hold,
\* for any number of concurrent callers of Reserve, Settle,
\* ReleaseReservation and ExpireDueReservations.
THEOREM ReservedCorrect == Spec => []ReservedIsOutstanding
  BY ShapeInvariant, ReservedInit, ReservedStep, PTL DEF Spec

-----------------------------------------------------------------------------
(* The limit *)

LEMMA GrantIdsFinite == IsFiniteSet(GrantIds)
<1>1. IsFiniteSet(Times)
  BY FS_Interval, TimeAssumption DEF Times
<1>2. IsFiniteSet({Calendar[t] : t \in Times})
  <2> DEFINE f == [t \in Times |-> Calendar[t]]
  <2>1. f \in Surjection(Times, {Calendar[t] : t \in Times})
    BY DEF Surjection
  <2> HIDE DEF f
  <2> QED
    BY <1>1, <2>1, FS_Surjection
<1>3. IsFiniteSet(Periods \cup {Base})
  BY <1>2, FS_AddElement DEF Periods
<1> QED
  BY <1>3, FS_Product, FiniteAssumption DEF GrantIds

\* Grants are only ever added, so what a period was granted never shrinks.
LEMMA GrantedMono ==
    ASSUME TypeOK, TypeOK',
           \A b \in Accounts, g \in GrantIds :
              grants'[b][g] = grants[b][g] \/ grants[b][g].amount = 0,
           NEW a \in Accounts, NEW p \in Periods
    PROVE  /\ Granted(a, p) \in Nat
           /\ Granted(a, p)' \in Nat
           /\ Granted(a, p) <= Granted(a, p)'
<1> DEFINE f == [g \in GrantIds |->
                   IF grants[a][g].period = p THEN grants[a][g].amount ELSE 0]
           h == [g \in GrantIds |->
                   IF grants'[a][g].period = p THEN grants'[a][g].amount
                                               ELSE 0]
<1>1. \A g \in GrantIds : /\ grants[a][g] \in GrantRows
                          /\ grants'[a][g] \in GrantRows
  BY DEF TypeOK
<1>2. f \in [GrantIds -> 0..MaxAmount] /\ h \in [GrantIds -> 0..MaxAmount]
  BY <1>1, AmountAssumption DEF GrantRows
<1>3. \A g \in GrantIds : f[g] <= h[g]
  BY <1>1, AmountAssumption DEF GrantRows
<1>4. Granted(a, p) = Total(f) /\ Granted(a, p)' = Total(h)
  BY DEF Granted
<1> HIDE DEF f, h
<1>5. Total(f) <= Total(h)
  BY <1>2, <1>3, TotalMono, GrantIdsFinite
<1>6. Total(f) \in Nat /\ Total(h) \in Nat
  BY <1>2, TotalType, GrantIdsFinite
<1> QED
  BY <1>4, <1>5, <1>6

\* No step withdraws a grant.
LEMMA GrantsStay ==
    ASSUME TypeOK, [Next]_vars, NEW a \in Accounts, NEW g \in GrantIds
    PROVE  grants'[a][g] = grants[a][g] \/ grants[a][g].amount = 0
<1>1. ASSUME UNCHANGED grants
      PROVE  grants'[a][g] = grants[a][g]
  BY <1>1
<1>2. ASSUME NEW b \in Accounts, NEW r \in Refs, NEW n \in GrantAmounts,
             NEW m \in BOOLEAN, Grant(b, r, n, m)
      PROVE  grants'[a][g] = grants[a][g] \/ grants[a][g].amount = 0
  BY <1>2 DEF Grant, TypeOK
<1>3. ASSUME RefreshWorker
      PROVE  grants'[a][g] = grants[a][g] \/ grants[a][g].amount = 0
  BY <1>3 DEF RefreshWorker, RefreshPeriodicGrants, Refreshed
<1>4. ASSUME NEW c \in Clients, NEW b \in Accounts, Call(c, b)
      PROVE  UNCHANGED grants
  BY <1>4 DEF Call, ConsumeBegin, ReserveBegin, SettleBegin, ReleaseBegin
<1>5. ASSUME NEW c \in Clients, Complete(c) \/ Abort(c)
      PROVE  UNCHANGED grants
  BY <1>5 DEF Complete, ConsumeRefuse, ConsumeApply, ReserveLock,
              ReserveReadPlan, ReserveDecide, ReserveRefuse, ReserveCommit,
              SettleCommit, ReleaseCommit, Abort
<1>6. ASSUME NEW b \in Accounts, NEW l \in Limits, NEW m \in Modes,
             PlanChange(b, l, m)
      PROVE  UNCHANGED grants
  BY <1>6 DEF PlanChange
<1>7. ASSUME NEW b \in Accounts, NEW n \in RefundAmounts, Refund(b, n)
      PROVE  UNCHANGED grants
  BY <1>7 DEF Refund
<1>8. CASE ExpireDueReservations \/ Tick \/ UNCHANGED vars
  BY <1>8 DEF ExpireDueReservations, Expire, Tick, vars
<1> QED
  BY <1>1, <1>2, <1>3, <1>4, <1>5, <1>6, <1>7, <1>8 DEF Next

\* Only ReserveDecide admits a reservation.
LEMMA AdmittedBefore ==
    ASSUME Shape, [Next]_vars, NEW d \in Clients,
           job'[d].op = "reserveAdmitted"
    PROVE  job'[d] = job[d] \/ ReserveDecide(d)
<1>1. ASSUME NEW c \in Clients, NEW a \in Accounts, Call(c, a)
      PROVE  job'[d] = job[d]
  BY <1>1 DEF Call, ConsumeBegin, ReserveBegin, SettleBegin, ReleaseBegin,
              Shape, TypeOK
<1>2. ASSUME NEW c \in Clients, Finish(c)
      PROVE  job'[d] = job[d]
  BY <1>2 DEF Finish, Idle, Shape, TypeOK
<1>3. ASSUME NEW c \in Clients, Complete(c)
      PROVE  job'[d] = job[d] \/ ReserveDecide(d)
  <2>1. CASE ReserveLock(c)
    <3>1. job'[c].op # "reserveAdmitted"
      BY <2>1 DEF ReserveLock, Idle, Shape, TypeOK
    <3>2. \A e \in Clients \ {c} : job'[e] = job[e]
      BY <2>1 DEF ReserveLock, Shape, TypeOK
    <3> QED
      BY <3>1, <3>2
  <2>4. CASE ReserveReadPlan(c)
    <3>1. job[c] \in LockedJobs
      BY <2>4, JobType DEF ReserveReadPlan, LockedOps, Shape
    <3>2. job'[c].op = "reserveLimited"
      BY <2>4, <3>1 DEF ReserveReadPlan, LockedJobs, Shape, TypeOK
    <3>3. \A e \in Clients \ {c} : job'[e] = job[e]
      BY <2>4 DEF ReserveReadPlan, Shape, TypeOK
    <3> QED
      BY <3>2, <3>3
  <2>2. CASE ReserveDecide(c)
    BY <2>2 DEF ReserveDecide, Shape, TypeOK
  <2>3. CASE \/ ConsumeRefuse(c) \/ ConsumeApply(c) \/ ReserveRefuse(c)
             \/ ReserveCommit(c) \/ SettleCommit(c) \/ ReleaseCommit(c)
    BY <1>2, <2>3 DEF ConsumeRefuse, ConsumeApply, ReserveRefuse,
                      ReserveCommit, SettleCommit, ReleaseCommit
  <2> QED
    BY <1>3, <2>1, <2>2, <2>3, <2>4 DEF Complete
<1>4. ASSUME NEW c \in Clients, Abort(c)
      PROVE  job'[d] = job[d]
  BY <1>2, <1>4 DEF Abort
<1>5. ASSUME UNCHANGED job
      PROVE  job'[d] = job[d]
  BY <1>5
<1>6. CASE \/ ExpireDueReservations \/ RefreshWorker \/ Tick \/ UNCHANGED vars
           \/ \E a \in Accounts, l \in Limits, m \in Modes : PlanChange(a, l, m)
           \/ \E a \in Accounts, n \in RefundAmounts : Refund(a, n)
           \/ \E a \in Accounts, r \in Refs, n \in GrantAmounts, m \in BOOLEAN :
                 Grant(a, r, n, m)
  BY <1>5, <1>6 DEF ExpireDueReservations, Expire, RefreshWorker,
                    RefreshPeriodicGrants, Tick, vars, PlanChange, Refund,
                    Grant
<1> QED
  BY <1>1, <1>3, <1>4, <1>6 DEF Next

\* What reserveTx admits still fits when it commits.
LEMMA FitsStep ==
    Shape /\ Shape' /\ AdmittedFits /\ [Next]_vars => AdmittedFits'
<1> SUFFICES ASSUME Shape, Shape', AdmittedFits, [Next]_vars,
                    NEW d \in Clients, job'[d].op = "reserveAdmitted"
             PROVE  Available(job[d])' >= job'[d].n
  BY DEF AdmittedFits
<1>1. /\ job'[d].acct \in Accounts /\ job'[d].period \in Periods
      /\ job'[d].n \in Nat /\ job'[d].limit \in Nat /\ job'[d].used \in Nat
      /\ job'[d].reserved \in Nat
  <2>1. job'[d] \in Jobs
    BY DEF Shape, TypeOK
  <2>2. job'[d] \in LockedJobs
    BY <2>1 DEF Jobs, Idle, ConsumeJobs, ReserveJobs, LockedJobs, SettleJobs,
                ReleaseJobs
  <2> QED
    BY <2>2, AmountAssumption DEF LockedJobs
<1> PICK a \in Accounts, p \in Periods : a = job'[d].acct /\ p = job'[d].period
  BY <1>1
<1>2. /\ Granted(a, p) \in Nat
      /\ Granted(a, p)' \in Nat
      /\ Granted(a, p) <= Granted(a, p)'
  BY <1>1, GrantsStay, GrantedMono DEF Shape
<1>3. job'[d].limit + Granted(a, p) - job'[d].used - job'[d].reserved
        >= job'[d].n
  <2>1. CASE job'[d] = job[d]
    BY <2>1 DEF AdmittedFits, Available
  <2>2. CASE ReserveDecide(d)
    <3>1. job[d] \in LockedJobs
      BY <2>2, JobType DEF ReserveDecide, LockedOps, Shape
    <3>2. /\ job'[d] = [job[d] EXCEPT !.op = "reserveAdmitted"]
          /\ ~(Available(job[d]) < job[d].n)
      BY <2>2 DEF ReserveDecide, Idle, Shape, TypeOK
    <3>3. /\ job'[d].acct = job[d].acct /\ job'[d].period = job[d].period
          /\ job'[d].n = job[d].n /\ job'[d].limit = job[d].limit
          /\ job'[d].used = job[d].used /\ job'[d].reserved = job[d].reserved
      BY <3>1, <3>2 DEF LockedJobs
    <3>4. ~(job'[d].limit + Granted(a, p) - job'[d].used - job'[d].reserved
              < job'[d].n)
      BY <3>2, <3>3 DEF Available
    <3> QED
      BY <1>1, <1>2, <3>4
  <2> QED
    BY <2>1, <2>2, AdmittedBefore
<1>4. Available(job[d])'
        = job'[d].limit + Granted(a, p)' - job'[d].used - job'[d].reserved
  BY DEF Available, Granted
<1> QED
  BY <1>1, <1>2, <1>3, <1>4

LEMMA FitsInvariant ==
    Spec => []AdmittedFits
<1>1. Init => AdmittedFits
  BY DEF Init, AdmittedFits, Idle
<1> QED
  BY <1>1, FitsStep, ShapeInvariant, PTL DEF Spec

\* Steps that use no more of the limit than they add to the overage, and
\* withdraw neither limit nor grants.
LEMMA OversellKept ==
    ASSUME Shape, Shape', NoOversell,
           \A a \in Accounts, p \in Periods :
              /\ used'[a][p] + reserved'[a][p] + overage[a][p]
                   <= used[a][p] + reserved[a][p] + overage'[a][p]
              /\ peak[a] <= peak'[a],
           \A b \in Accounts, g \in GrantIds :
              grants'[b][g] = grants[b][g] \/ grants[b][g].amount = 0
    PROVE  NoOversell'
<1> SUFFICES ASSUME NEW a \in Accounts, NEW p \in Periods
             PROVE  used'[a][p] + reserved'[a][p]
                      <= peak'[a] + Granted(a, p)' + overage'[a][p]
  BY DEF NoOversell
<1>1. /\ used[a][p] \in Nat /\ used'[a][p] \in Nat
      /\ reserved[a][p] \in Nat /\ reserved'[a][p] \in Nat
      /\ overage[a][p] \in Nat /\ overage'[a][p] \in Nat
      /\ peak[a] \in Nat /\ peak'[a] \in Nat
  BY DEF Shape, TypeOK
<1>2. /\ Granted(a, p) \in Nat
      /\ Granted(a, p)' \in Nat
      /\ Granted(a, p) <= Granted(a, p)'
  BY GrantedMono DEF Shape
<1>3. used[a][p] + reserved[a][p] <= peak[a] + Granted(a, p) + overage[a][p]
  BY DEF NoOversell
<1> QED
  BY <1>1, <1>2, <1>3

LEMMA ConsumeApplyOversell ==
    ASSUME Shape, Shape', NoOversell, NEW c \in Clients, ConsumeApply(c)
    PROVE  NoOversell'
<1>1. PICK a \in Accounts, q \in Periods, n \in Nat :
         a = job[c].acct /\ q = job[c].period /\ n = job[c].n
  BY JobType, AmountAssumption DEF Shape, ConsumeApply, ConsumeJobs
<1>2. /\ Admitted(job[c])
      /\ job[c].op = "consume"
      /\ \A b \in Accounts, p \in Periods :
           /\ used'[b][p] = IF b = a /\ p = q THEN used[b][p] + n
                                              ELSE used[b][p]
           /\ overage'[b][p] = IF b = a /\ p = q /\ job[c].soft
                               THEN overage[b][p] + n ELSE overage[b][p]
      /\ UNCHANGED <<reserved, peak, grants>>
  BY <1>1 DEF ConsumeApply, Shape, TypeOK
<1>3. \A b \in Accounts, p \in Periods :
         /\ used[b][p] \in Nat
         /\ reserved[b][p] \in Nat
         /\ overage[b][p] \in Nat
         /\ peak[b] \in Nat
  BY DEF Shape, TypeOK
<1>4. CASE job[c].soft
  BY <1>1, <1>2, <1>3, <1>4, OversellKept
<1>5. CASE ~job[c].soft
  <2>1. used[a][q] + n + reserved[a][q] <= job[c].limit + Granted(a, q)
    BY <1>1, <1>2, <1>5 DEF Admitted
  <2>2. job[c].limit <= peak[a] /\ job[c].limit \in Nat
    BY <1>1, <1>2, JobType DEF Shape, LimitsSeen, ConsumeJobs
  <2>3. \A b \in Accounts, p \in Periods :
           Granted(b, p)' = Granted(b, p) /\ Granted(b, p) \in Nat
    <3>1. \A b \in Accounts, p \in Periods : Granted(b, p) \in Nat
      BY <1>2, GrantedMono DEF Shape
    <3> QED
      BY <1>2, <3>1 DEF Granted
  <2>4. ASSUME NEW b \in Accounts, NEW p \in Periods
        PROVE  used'[b][p] + reserved'[b][p]
                 <= peak'[b] + Granted(b, p)' + overage'[b][p]
    <3>1. Granted(b, p)' = Granted(b, p) /\ Granted(b, p) \in Nat
      BY <2>3
    <3>2. CASE b = a /\ p = q
      BY <1>1, <1>2, <1>3, <1>5, <2>1, <2>2, <3>1, <3>2
    <3>3. CASE ~(b = a /\ p = q)
      BY <1>2, <1>3, <3>1, <3>3 DEF NoOversell
    <3> QED
      BY <3>2, <3>3
  <2> QED
    BY <2>4 DEF NoOversell
<1> QED
  BY <1>4, <1>5

LEMMA ReserveCommitOversell ==
    ASSUME Shape, Shape', AdmittedFits, NoOversell,
           NEW c \in Clients, ReserveCommit(c)
    PROVE  NoOversell'
<1>1. PICK a \in Accounts, q \in Periods, n \in Nat :
         a = job[c].acct /\ q = job[c].period /\ n = job[c].n
  BY JobType, AmountAssumption DEF Shape, ReserveCommit, LockedJobs, LockedOps
<1>2. /\ Available(job[c]) >= n
      /\ job[c].op = "reserveAdmitted"
      /\ \A b \in Accounts, p \in Periods :
           reserved'[b][p] = IF b = a /\ p = q THEN reserved[b][p] + n
                                               ELSE reserved[b][p]
      /\ UNCHANGED <<used, overage, peak, grants>>
  BY <1>1 DEF ReserveCommit, AdmittedFits, Shape, TypeOK
<1>3. \A b \in Accounts, p \in Periods :
         /\ used[b][p] \in Nat
         /\ reserved[b][p] \in Nat
         /\ overage[b][p] \in Nat
         /\ peak[b] \in Nat
  BY DEF Shape, TypeOK
<1>4. \A b \in Accounts, p \in Periods :
         Granted(b, p)' = Granted(b, p) /\ Granted(b, p) \in Nat
  <2>1. \A b \in Accounts, p \in Periods : Granted(b, p) \in Nat
    BY <1>2, GrantedMono DEF Shape
  <2> QED
    BY <1>2, <2>1 DEF Granted
<1>5. PICK l \in Nat :
         l + Granted(a, q) - used[a][q] - reserved[a][q] >= n /\ l <= peak[a]
  <2>1. job[c].used = used[a][q] /\ job[c].reserved = reserved[a][q]
    BY <1>1, <1>2 DEF Shape, ReadsAreCurrent, LockedOps
  <2>2. job[c].limit <= peak[a] /\ job[c].limit \in Nat
    BY <1>1, <1>2, JobType DEF Shape, LimitsSeen, LockedJobs, LockedOps
  <2> QED
    BY <1>1, <1>2, <2>1, <2>2 DEF Available
<1>6. ASSUME NEW b \in Accounts, NEW p \in Periods
      PROVE  used'[b][p] + reserved'[b][p]
               <= peak'[b] + Granted(b, p)' + overage'[b][p]
  <2>1. Granted(b, p)' = Granted(b, p) /\ Granted(b, p) \in Nat
    BY <1>4
  <2>2. CASE b = a /\ p = q
    BY <1>1, <1>2, <1>3, <1>5, <2>1, <2>2
  <2>3. CASE ~(b = a /\ p = q)
    BY <1>2, <1>3, <2>1, <2>3 DEF NoOversell
  <2> QED
    BY <2>2, <2>3
<1> QED
  BY <1>6 DEF NoOversell

LEMMA SettleCommitOversell ==
    ASSUME Shape, Shape', ReservedIsOutstanding, NoOversell,
           NEW c \in Clients, SettleCommit(c)
    PROVE  NoOversell'
<1>1. PICK a \in Accounts, q \in Periods, o \in Nat, n \in Nat :
         /\ a = job[c].acct
         /\ q = job[c].row.period
         /\ o = Outstanding(job[c].row)
         /\ n = job[c].n
  BY ClosingRow DEF SettleCommit
<1>2. o <= reserved[a][q]
  BY <1>1, SettleCommitReserved
<1>3. /\ \A b \in Accounts, p \in Periods :
           /\ used'[b][p] = IF b = a /\ p = q THEN used[b][p] + n
                                              ELSE used[b][p]
           /\ reserved'[b][p] = IF b = a /\ p = q
                                THEN AtLeastZero(reserved[b][p] - o)
                                ELSE reserved[b][p]
           /\ overage'[b][p] = IF b = a /\ p = q
                               THEN overage[b][p] + AtLeastZero(n - o)
                               ELSE overage[b][p]
      /\ UNCHANGED <<peak, grants>>
  <2>1. /\ used' = [used EXCEPT ![a][q] = @ + n]
        /\ reserved' = [reserved EXCEPT ![a][q] = AtLeastZero(@ - o)]
        /\ overage' = [overage EXCEPT ![a][q] = @ + AtLeastZero(n - o)]
        /\ UNCHANGED <<peak, grants>>
    BY <1>1 DEF SettleCommit
  <2>2. /\ used \in [Accounts -> [Periods -> Nat]]
        /\ reserved \in [Accounts -> [Periods -> Nat]]
        /\ overage \in [Accounts -> [Periods -> Nat]]
    BY DEF Shape, TypeOK
  <2>3. \A b \in Accounts, p \in Periods :
           used'[b][p] = IF b = a /\ p = q THEN used[b][p] + n
                                           ELSE used[b][p]
    BY <2>1, <2>2
  <2>4. \A b \in Accounts, p \in Periods :
           reserved'[b][p] = IF b = a /\ p = q
                             THEN AtLeastZero(reserved[b][p] - o)
                             ELSE reserved[b][p]
    BY <2>1, <2>2
  <2>5. \A b \in Accounts, p \in Periods :
           overage'[b][p] = IF b = a /\ p = q
                            THEN overage[b][p] + AtLeastZero(n - o)
                            ELSE overage[b][p]
    BY <2>1, <2>2
  <2> QED
    BY <2>1, <2>3, <2>4, <2>5
<1>4. \A b \in Accounts, p \in Periods :
         /\ used[b][p] \in Nat
         /\ reserved[b][p] \in Nat
         /\ overage[b][p] \in Nat
         /\ peak[b] \in Nat
  BY DEF Shape, TypeOK
<1>5. \A b \in Accounts, p \in Periods :
         /\ used'[b][p] + reserved'[b][p] + overage[b][p]
              <= used[b][p] + reserved[b][p] + overage'[b][p]
         /\ peak[b] <= peak'[b]
  BY <1>1, <1>2, <1>3, <1>4 DEF AtLeastZero
<1> QED
  BY <1>3, <1>5, OversellKept

\* Releasing and expiring only return capacity.
LEMMA ReturnOversell ==
    ASSUME Shape, Shape', NoOversell,
           \A a \in Accounts, p \in Periods :
              /\ used'[a][p] <= used[a][p]
              /\ reserved'[a][p] <= reserved[a][p],
           \A a \in Accounts : peak[a] <= peak'[a],
           UNCHANGED overage,
           \A b \in Accounts, g \in GrantIds :
              grants'[b][g] = grants[b][g] \/ grants[b][g].amount = 0
    PROVE  NoOversell'
<1>1. \A a \in Accounts, p \in Periods :
         /\ used[a][p] \in Nat /\ used'[a][p] \in Nat
         /\ reserved[a][p] \in Nat /\ reserved'[a][p] \in Nat
         /\ overage[a][p] \in Nat
  BY DEF Shape, TypeOK
<1>2. \A a \in Accounts, p \in Periods :
         /\ used'[a][p] + reserved'[a][p] + overage[a][p]
              <= used[a][p] + reserved[a][p] + overage'[a][p]
         /\ peak[a] <= peak'[a]
  BY <1>1
<1> QED
  BY <1>2, OversellKept

LEMMA OversellStep ==
    /\ Shape /\ Shape' /\ ReservedIsOutstanding /\ AdmittedFits /\ NoOversell
    /\ [Next]_vars
    => NoOversell'
<1> SUFFICES ASSUME Shape, Shape', ReservedIsOutstanding, AdmittedFits,
                    NoOversell, [Next]_vars
             PROVE  NoOversell'
  OBVIOUS
<1>1. /\ \A a \in Accounts, p \in Periods : /\ used[a][p] \in Nat
                                            /\ reserved[a][p] \in Nat
      /\ \A a \in Accounts : peak[a] \in Nat
  BY DEF Shape, TypeOK
<1>2. ASSUME UNCHANGED <<used, reserved, overage, grants, peak>>
      PROVE  NoOversell'
  BY <1>2 DEF NoOversell, Granted
<1>3. ASSUME NEW c \in Clients, NEW a \in Accounts, Call(c, a)
      PROVE  NoOversell'
  BY <1>2, <1>3
     DEF Call, ConsumeBegin, ReserveBegin, SettleBegin, ReleaseBegin
<1>4. ASSUME NEW c \in Clients, Complete(c)
      PROVE  NoOversell'
  <2>1. CASE \/ ConsumeRefuse(c) \/ ReserveLock(c) \/ ReserveReadPlan(c)
             \/ ReserveDecide(c) \/ ReserveRefuse(c)
    BY <1>2, <2>1 DEF ConsumeRefuse, ReserveLock, ReserveReadPlan, ReserveDecide,
           ReserveRefuse
  <2>2. CASE ReleaseCommit(c)
    <3>1. PICK a \in Accounts, q \in Periods, n \in Nat :
             /\ a = job[c].acct
             /\ q = job[c].row.period
             /\ n = ReleasedBy(job[c])
      BY <2>2, ClosingRow, ReleasedByType, AmountAssumption
         DEF ReleaseCommit
    <3>2. \A b \in Accounts, p \in Periods :
             reserved'[b][p] = IF b = a /\ p = q
                               THEN AtLeastZero(reserved[b][p] - n)
                               ELSE reserved[b][p]
      <4>1. reserved' = [reserved EXCEPT ![a][q] = AtLeastZero(@ - n)]
        BY <2>2, <3>1 DEF ReleaseCommit
      <4>2. reserved \in [Accounts -> [Periods -> Nat]]
        BY DEF Shape, TypeOK
      <4> QED
        BY <4>1, <4>2
    <3>3. UNCHANGED <<used, overage, grants, peak>>
      BY <2>2 DEF ReleaseCommit
    <3>4. \A b \in Accounts, p \in Periods :
             reserved'[b][p] <= reserved[b][p]
      BY <1>1, <3>1, <3>2 DEF AtLeastZero
    <3> QED
      BY <1>1, <3>3, <3>4, ReturnOversell
  <2> QED
    BY <1>4, <2>1, <2>2, ConsumeApplyOversell, ReserveCommitOversell,
       SettleCommitOversell DEF Complete
<1>5. ASSUME NEW c \in Clients, Abort(c)
      PROVE  NoOversell'
  BY <1>2, <1>5 DEF Abort
<1>6. ASSUME NEW a \in Accounts, NEW l \in Limits, NEW m \in Modes,
             PlanChange(a, l, m)
      PROVE  NoOversell'
  <2>1. Effective(l) \in Nat
    BY RowTypes
  <2>2. \A b \in Accounts : peak[b] <= peak'[b]
    BY <1>1, <1>6, <2>1 DEF PlanChange, Shape, TypeOK
  <2>3. UNCHANGED <<used, reserved, overage, grants>>
    BY <1>6 DEF PlanChange
  <2> QED
    BY <1>1, <2>2, <2>3, ReturnOversell
<1>7. ASSUME NEW a \in Accounts, NEW n \in RefundAmounts, Refund(a, n)
      PROVE  NoOversell'
  <2>1. PICK q \in Periods : q = Period(now)
    BY RowTypes DEF Shape, TypeOK
  <2>2. \A b \in Accounts, p \in Periods :
           used'[b][p] = IF b = a /\ p = q THEN AtLeastZero(used[b][p] - n)
                                           ELSE used[b][p]
    BY <1>7, <2>1 DEF Refund, Shape, TypeOK
  <2>3. \A b \in Accounts, p \in Periods : used'[b][p] <= used[b][p]
    BY <1>1, <2>2, AmountAssumption DEF AtLeastZero
  <2>4. UNCHANGED <<reserved, overage, grants, peak>>
    BY <1>7 DEF Refund
  <2> QED
    BY <1>1, <2>3, <2>4, ReturnOversell
<1>8. ASSUME NEW a \in Accounts, NEW r \in Refs, NEW n \in GrantAmounts,
             NEW m \in BOOLEAN, Grant(a, r, n, m)
      PROVE  NoOversell'
  <2>1. \A b \in Accounts, g \in GrantIds :
           grants'[b][g] = grants[b][g] \/ grants[b][g].amount = 0
    BY <1>8 DEF Grant, Shape, TypeOK
  <2>2. UNCHANGED <<used, reserved, overage, peak>>
    BY <1>8 DEF Grant
  <2> QED
    BY <1>1, <2>1, <2>2, ReturnOversell
<1>9. CASE ExpireDueReservations
  <2>1. PICK S : Expire(S)
    BY <1>9 DEF ExpireDueReservations
  <2>2. UNCHANGED <<used, overage, grants, peak>>
    BY <2>1 DEF Expire
  <2>3. ASSUME NEW a \in Accounts, NEW p \in Periods
        PROVE  reserved'[a][p] <= reserved[a][p]
    <3> DEFINE h == [k \in ResKeys |-> IF <<a, k>> \in S
                                       THEN HeldIn(res[a][k], p) ELSE 0]
    <3>1. h \in [ResKeys -> 0..MaxAmount]
      BY HeldFunctions
    <3> HIDE DEF h
    <3>2. Total(h) \in Nat
      BY <3>1, TotalType, FiniteAssumption
    <3>3. HeldBy(S, a, p) \in Nat
      BY <3>2 DEF HeldBy, h
    <3>4. reserved'[a][p] = AtLeastZero(reserved[a][p] - HeldBy(S, a, p))
      BY <2>1 DEF Expire
    <3> QED
      BY <1>1, <3>3, <3>4 DEF AtLeastZero
  <2> QED
    BY <1>1, <2>2, <2>3, ReturnOversell
<1>10. CASE RefreshWorker
  <2>1. PICK p \in Periods : RefreshPeriodicGrants(p)
    BY <1>10, RowTypes DEF RefreshWorker
  <2>2. \A b \in Accounts, g \in GrantIds :
           grants'[b][g] = grants[b][g] \/ grants[b][g].amount = 0
    BY <2>1 DEF RefreshPeriodicGrants, Refreshed
  <2>3. UNCHANGED <<used, reserved, overage, peak>>
    BY <2>1 DEF RefreshPeriodicGrants
  <2> QED
    BY <1>1, <2>2, <2>3, ReturnOversell
<1>11. CASE Tick
  BY <1>2, <1>11 DEF Tick
<1>12. CASE UNCHANGED vars
  BY <1>2, <1>12 DEF vars
<1> QED
  BY <1>3, <1>4, <1>5, <1>6, <1>7, <1>8, <1>9, <1>10, <1>11, <1>12 DEF Next

LEMMA OversellInit ==
    Init => NoOversell
<1> SUFFICES ASSUME Init, NEW a \in Accounts, NEW p \in Periods
             PROVE  used[a][p] + reserved[a][p]
                      <= peak[a] + Granted(a, p) + overage[a][p]
  BY DEF NoOversell
<1> DEFINE f == [g \in GrantIds |->
                   IF grants[a][g].period = p THEN grants[a][g].amount ELSE 0]
<1>1. f \in [GrantIds -> {0}]
  BY DEF Init, NoGrant
<1> HIDE DEF f
<1>2. Total(f) = 0
  BY <1>1, TotalZero
<1>3. Granted(a, p) = 0
  BY <1>2 DEF Granted, f
<1>4. peak[a] \in Nat
  BY ShapeInit DEF Shape, TypeOK
<1> QED
  BY <1>3, <1>4 DEF Init

\* No interleaving of Consume, Reserve, Settle and plan changes oversells an
\* account: what is consumed and reserved stays within the highest limit ever
\* in force plus the grants, apart from the consumption a soft limit or a
\* settlement above its reservation lets through.
THEOREM NeverOversold == Spec => []NoOversell
  BY ShapeInvariant, ReservedCorrect, FitsInvariant, OversellInit,
     OversellStep, PTL DEF Spec

-----------------------------------------------------------------------------
(* The used column *)

\* What the reservations of an account settled in a period, row by row.
LEMMA SettledFunctions ==
    ASSUME TypeOK, NEW a \in Accounts, NEW p \in Periods
    PROVE  [k \in ResKeys |-> SettledIn(res[a][k], p)]
             \in [ResKeys -> 0..MaxAmount]
<1>1. ASSUME NEW k \in ResKeys
      PROVE  SettledIn(res[a][k], p) \in 0..MaxAmount
  <2>1. res[a][k] \in Reservations
    BY DEF TypeOK
  <2> QED
    BY <2>1, AmountAssumption DEF SettledIn, Reservations
<1> QED
  BY <1>1

\* What an account charged once for each key, row by row.
LEMMA ConsumedFunctions ==
    ASSUME TypeOK, NEW a \in Accounts, NEW p \in Periods
    PROVE  [k \in ConsumeKeys |-> IF consumeIdem[a][k].period = p
                                  THEN consumeIdem[a][k].amount ELSE 0]
             \in [ConsumeKeys -> 0..MaxAmount]
<1>1. ASSUME NEW k \in ConsumeKeys
      PROVE  consumeIdem[a][k].amount \in 0..MaxAmount
  BY DEF TypeOK, IdemRows
<1>2. 0 \in 0..MaxAmount
  BY AmountAssumption
<1> QED
  BY <1>1, <1>2

LEMMA LedgerTypes ==
    ASSUME TypeOK, NEW a \in Accounts, NEW p \in Periods
    PROVE  /\ Settled(a, p) \in Nat
           /\ ConsumedOnce(a, p) \in Nat
           /\ used[a][p] \in Nat
           /\ direct[a][p] \in Int
<1> DEFINE f == [k \in ResKeys |-> SettledIn(res[a][k], p)]
           g == [k \in ConsumeKeys |-> IF consumeIdem[a][k].period = p
                                       THEN consumeIdem[a][k].amount ELSE 0]
<1>1. f \in [ResKeys -> 0..MaxAmount] /\ g \in [ConsumeKeys -> 0..MaxAmount]
  BY SettledFunctions, ConsumedFunctions
<1> HIDE DEF f, g
<1>2. Total(f) \in Nat /\ Total(g) \in Nat
  BY <1>1, TotalType, FiniteAssumption
<1> QED
  BY <1>2 DEF Settled, ConsumedOnce, f, g, TypeOK

\* When one reservation of an account changes, what the account settled in a
\* period changes with it.
LEMMA SettledUpdate ==
    ASSUME TypeOK, TypeOK', NEW a \in Accounts, NEW p \in Periods,
           NEW k \in ResKeys,
           \A l \in ResKeys \ {k} : res'[a][l] = res[a][l]
    PROVE  Settled(a, p)' = Settled(a, p) - SettledIn(res[a][k], p)
                              + SettledIn(res'[a][k], p)
<1> DEFINE f == [l \in ResKeys |-> SettledIn(res[a][l], p)]
           g == [l \in ResKeys |-> SettledIn(res'[a][l], p)]
<1>1. f \in [ResKeys -> 0..MaxAmount]
  BY SettledFunctions
<1>2. g \in [ResKeys -> 0..MaxAmount]
  <2>1. ASSUME NEW l \in ResKeys
        PROVE  SettledIn(res'[a][l], p) \in 0..MaxAmount
    <3>1. res'[a][l] \in Reservations
      BY DEF TypeOK
    <3> QED
      BY <3>1, AmountAssumption DEF SettledIn, Reservations
  <2> QED
    BY <2>1
<1>3. /\ f[k] = SettledIn(res[a][k], p)
      /\ g[k] = SettledIn(res'[a][k], p)
      /\ \A l \in ResKeys \ {k} : g[l] = f[l]
  OBVIOUS
<1>4. Settled(a, p) = Total(f) /\ Settled(a, p)' = Total(g)
  BY DEF Settled
<1> HIDE DEF f, g
<1> QED
  BY <1>1, <1>2, <1>3, <1>4, TotalUpdate, FiniteAssumption

\* An operation that settles nothing and charges nothing keeps the ledger,
\* whatever else it does to the reservations.
LEMMA LedgerKept ==
    ASSUME UsedIsLedger, UNCHANGED <<used, consumeIdem, direct>>,
           \A a \in Accounts, k \in ResKeys, p \in Periods :
              SettledIn(res'[a][k], p) = SettledIn(res[a][k], p)
    PROVE  UsedIsLedger'
<1>1. ASSUME NEW a \in Accounts, NEW p \in Periods
      PROVE  Settled(a, p)' = Settled(a, p)
  <2>1. [k \in ResKeys |-> SettledIn(res'[a][k], p)]
          = [k \in ResKeys |-> SettledIn(res[a][k], p)]
    OBVIOUS
  <2> QED
    BY <2>1 DEF Settled
<1>2. ASSUME NEW a \in Accounts, NEW p \in Periods
      PROVE  ConsumedOnce(a, p)' = ConsumedOnce(a, p)
  BY DEF ConsumedOnce
<1> QED
  BY <1>1, <1>2 DEF UsedIsLedger

\* A charge under an idempotency key that was never seen adds its row, a
\* keyless one is recorded as direct.
LEMMA ConsumeApplyLedger ==
    ASSUME Shape, Shape', UsedIsLedger, NEW c \in Clients, ConsumeApply(c)
    PROVE  UsedIsLedger'
<1>1. PICK a \in Accounts, q \in Periods, n \in 1..MaxAmount,
           k \in ConsumeKeys \cup {NoKey} :
         a = job[c].acct /\ q = job[c].period /\ n = job[c].n /\ k = job[c].key
  BY JobType DEF Shape, ConsumeApply, ConsumeJobs
<1>2. TypeOK /\ TypeOK' /\ n \in Nat
  BY AmountAssumption DEF Shape
<1>3. \A b \in Accounts, p \in Periods :
         used'[b][p] = IF b = a /\ p = q THEN used[b][p] + n ELSE used[b][p]
  BY <1>1 DEF ConsumeApply, Shape, TypeOK
<1>4. UNCHANGED res
  BY DEF ConsumeApply
<1>5. SUFFICES ASSUME NEW b \in Accounts, NEW p \in Periods
               PROVE  used'[b][p] = Settled(b, p)' + ConsumedOnce(b, p)'
                                      + direct'[b][p]
  BY DEF UsedIsLedger
<1>6. Settled(b, p)' = Settled(b, p)
  BY <1>4 DEF Settled
<1>7. /\ used[b][p] = Settled(b, p) + ConsumedOnce(b, p) + direct[b][p]
      /\ Settled(b, p) \in Nat /\ ConsumedOnce(b, p) \in Nat
      /\ direct[b][p] \in Int
  BY <1>2, LedgerTypes DEF UsedIsLedger
<1>8. CASE k = NoKey
  <2>1. /\ \A d \in Accounts, m \in Periods :
              direct'[d][m] = IF d = a /\ m = q THEN direct[d][m] + n
                                                ELSE direct[d][m]
        /\ UNCHANGED consumeIdem
    BY <1>1, <1>8 DEF ConsumeApply, Shape, TypeOK
  <2>2. ConsumedOnce(b, p)' = ConsumedOnce(b, p)
    BY <2>1 DEF ConsumedOnce
  <2> QED
    BY <1>2, <1>3, <1>6, <1>7, <2>1, <2>2
<1>9. CASE k # NoKey
  <2>1. /\ k \in ConsumeKeys
        /\ consumeIdem' = [consumeIdem EXCEPT ![a][k] =
                             [period |-> q, amount |-> n]]
        /\ UNCHANGED direct
        /\ ~(consumeIdem[a][k].amount > 0)
    BY <1>1, <1>9 DEF ConsumeApply, Replayed
  <2>2. consumeIdem[a][k].amount = 0
    <3>1. consumeIdem[a][k] \in IdemRows
      BY <1>2, <2>1 DEF TypeOK
    <3> QED
      BY <2>1, <3>1, AmountAssumption DEF IdemRows
  <2>3. CASE b # a
    <3>1. consumeIdem'[b] = consumeIdem[b]
      BY <1>2, <2>1, <2>3 DEF TypeOK
    <3>2. ConsumedOnce(b, p)' = ConsumedOnce(b, p)
      BY <3>1 DEF ConsumedOnce
    <3> QED
      BY <1>3, <1>6, <1>7, <2>1, <2>3, <3>2
  <2>4. CASE b = a
    <3> DEFINE f == [l \in ConsumeKeys |->
                       IF consumeIdem[b][l].period = p
                       THEN consumeIdem[b][l].amount ELSE 0]
               g == [l \in ConsumeKeys |->
                       IF consumeIdem'[b][l].period = p
                       THEN consumeIdem'[b][l].amount ELSE 0]
    <3>1. f \in [ConsumeKeys -> 0..MaxAmount]
      BY <1>2, ConsumedFunctions
    <3>2. /\ consumeIdem'[b][k] = [period |-> q, amount |-> n]
          /\ \A l \in ConsumeKeys \ {k} : consumeIdem'[b][l] = consumeIdem[b][l]
      BY <1>2, <2>1, <2>4 DEF TypeOK
    <3>3. /\ f[k] = 0
          /\ g[k] = IF p = q THEN n ELSE 0
          /\ \A l \in ConsumeKeys \ {k} : g[l] = f[l]
      BY <2>1, <2>2, <2>4, <3>2
    <3>4. g \in [ConsumeKeys -> 0..MaxAmount]
      <4>1. ASSUME NEW l \in ConsumeKeys
            PROVE  consumeIdem'[b][l].amount \in 0..MaxAmount
        BY <1>2 DEF TypeOK, IdemRows
      <4>2. 0 \in 0..MaxAmount
        BY AmountAssumption
      <4> QED
        BY <4>1, <4>2
    <3>5. ConsumedOnce(b, p) = Total(f) /\ ConsumedOnce(b, p)' = Total(g)
      BY DEF ConsumedOnce
    <3> HIDE DEF f, g
    <3>6. Total(g) = Total(f) - f[k] + g[k]
      BY <2>1, <3>1, <3>3, <3>4, TotalUpdate, FiniteAssumption
    <3>7. ConsumedOnce(b, p)' = ConsumedOnce(b, p)
                                  + (IF p = q THEN n ELSE 0)
      BY <1>2, <1>7, <3>3, <3>5, <3>6
    <3> QED
      BY <1>2, <1>3, <1>6, <1>7, <2>1, <2>4, <3>7
  <2> QED
    BY <2>3, <2>4
<1> QED
  BY <1>8, <1>9

\* Settle charges the counter and its reservation with the same amount; the
\* reservation had settled nothing before, so nothing is charged twice.
LEMMA SettleCommitLedger ==
    ASSUME Shape, Shape', UsedIsLedger, NEW c \in Clients, SettleCommit(c)
    PROVE  UsedIsLedger'
<1>1. PICK a \in Accounts, k \in ResKeys, q \in Periods, n \in 0..MaxAmount :
         /\ a = job[c].acct
         /\ k = job[c].key
         /\ q = job[c].row.period
         /\ n = job[c].n
  BY ClosingRow DEF SettleCommit
<1>2. /\ res[a][k] = job[c].row
      /\ res[a][k].status = "reserved"
      /\ res[a][k] \in Reservations
      /\ res[a][k].settled = 0
  BY <1>1, ClosingRow DEF SettleCommit, Shape, RowShape
<1>3. TypeOK /\ TypeOK' /\ n \in Nat
  BY AmountAssumption DEF Shape
<1>4. \A b \in Accounts, l \in ResKeys :
         res'[b][l] = IF b = a /\ l = k
                      THEN [res[a][k] EXCEPT !.status = "settled",
                                             !.settled = n]
                      ELSE res[b][l]
  <2>1. \A b \in Accounts, l \in ResKeys :
           res'[b][l] = IF b = a /\ l = k THEN SettledRow(res[a][k], n)
                                          ELSE res[b][l]
    BY <1>1, SettleRow
  <2> QED
    BY <2>1 DEF SettledRow
<1>5. res'[a][k].period = q /\ res'[a][k].settled = n /\ res[a][k].period = q
  <2>1. res'[a][k] = [res[a][k] EXCEPT !.status = "settled", !.settled = n]
    BY <1>4
  <2> QED
    BY <1>1, <1>2, <2>1 DEF Reservations
<1>6. \A b \in Accounts, p \in Periods :
         used'[b][p] = IF b = a /\ p = q THEN used[b][p] + n ELSE used[b][p]
  BY <1>1, SettleUsed
<1>7. UNCHANGED <<consumeIdem, direct>>
  BY DEF SettleCommit
<1>8. SUFFICES ASSUME NEW b \in Accounts, NEW p \in Periods
               PROVE  used'[b][p] = Settled(b, p)' + ConsumedOnce(b, p)'
                                      + direct'[b][p]
  BY DEF UsedIsLedger
<1>9. /\ used[b][p] = Settled(b, p) + ConsumedOnce(b, p) + direct[b][p]
      /\ Settled(b, p) \in Nat /\ ConsumedOnce(b, p) \in Nat
      /\ direct[b][p] \in Int
      /\ ConsumedOnce(b, p)' = ConsumedOnce(b, p)
      /\ direct'[b][p] = direct[b][p]
  BY <1>3, <1>7, LedgerTypes DEF UsedIsLedger, ConsumedOnce
<1>10. CASE b # a
  <2>1. \A l \in ResKeys : res'[b][l] = res[b][l]
    BY <1>4, <1>10
  <2>2. Settled(b, p)' = Settled(b, p)
    BY <2>1 DEF Settled
  <2> QED
    BY <1>6, <1>9, <1>10, <2>2
<1>11. CASE b = a
  <2>1. \A l \in ResKeys \ {k} : res'[b][l] = res[b][l]
    BY <1>4, <1>11
  <2>2. Settled(b, p)' = Settled(b, p) - SettledIn(res[b][k], p)
                           + SettledIn(res'[b][k], p)
    BY <1>3, <2>1, SettledUpdate
  <2>3. /\ SettledIn(res[b][k], p) = 0
        /\ SettledIn(res'[b][k], p) = IF p = q THEN n ELSE 0
    BY <1>2, <1>5, <1>11 DEF SettledIn
  <2> QED
    BY <1>3, <1>6, <1>9, <1>11, <2>2, <2>3
<1> QED
  BY <1>10, <1>11

LEMMA LedgerStep ==
    Shape /\ Shape' /\ UsedIsLedger /\ [Next]_vars => UsedIsLedger'
<1> SUFFICES ASSUME Shape, Shape', UsedIsLedger, [Next]_vars
             PROVE  UsedIsLedger'
  OBVIOUS
<1>1. ASSUME UNCHANGED <<used, consumeIdem, direct, res>>
      PROVE  UsedIsLedger'
  BY <1>1, LedgerKept
<1>2. ASSUME NEW c \in Clients, NEW a \in Accounts, Call(c, a)
      PROVE  UsedIsLedger'
  BY <1>1, <1>2
     DEF Call, ConsumeBegin, ReserveBegin, SettleBegin, ReleaseBegin
<1>3. ASSUME NEW c \in Clients, Complete(c)
      PROVE  UsedIsLedger'
  <2>1. CASE \/ ConsumeRefuse(c) \/ ReserveLock(c) \/ ReserveReadPlan(c)
             \/ ReserveDecide(c) \/ ReserveRefuse(c)
    BY <1>1, <2>1 DEF ConsumeRefuse, ReserveLock, ReserveReadPlan, ReserveDecide,
           ReserveRefuse
  <2>2. CASE ReserveCommit(c)
    <3>1. PICK a \in Accounts, k \in ResKeys :
             a = job[c].acct /\ k = job[c].key
      BY <2>2, JobType DEF ReserveCommit, Shape, LockedJobs, LockedOps
    <3>2. /\ res[a][k].settled = 0
          /\ res'[a][k].settled = 0
          /\ \A b \in Accounts, l \in ResKeys :
                b # a \/ l # k => res'[b][l] = res[b][l]
      <4>1. res[a][k].status = "none"
        BY <2>2, <3>1 DEF ReserveCommit
      <4>2. res[a][k].settled = 0
        BY <4>1 DEF Shape, RowShape
      <4>3. PICK r : r.settled = 0 /\ res' = [res EXCEPT ![a][k] = r]
        BY <2>2, <3>1 DEF ReserveCommit
      <4>4. /\ res'[a][k] = r
            /\ \A b \in Accounts, l \in ResKeys :
                  b # a \/ l # k => res'[b][l] = res[b][l]
        BY <4>3 DEF Shape, TypeOK
      <4> QED
        BY <4>2, <4>3, <4>4
    <3>3. \A b \in Accounts, l \in ResKeys, p \in Periods :
             SettledIn(res'[b][l], p) = SettledIn(res[b][l], p)
      BY <3>2 DEF SettledIn
    <3> QED
      BY <2>2, <3>3, LedgerKept DEF ReserveCommit
  <2>3. CASE ReleaseCommit(c)
    <3>1. ASSUME NEW b \in Accounts, NEW l \in ResKeys
          PROVE  /\ res'[b][l].settled = res[b][l].settled
                 /\ res'[b][l].period = res[b][l].period
      <4>1. PICK a \in Accounts, k \in ResKeys :
               a = job[c].acct /\ k = job[c].key
        BY <2>3, ClosingRow DEF ReleaseCommit
      <4>2. res[b][l] \in Reservations
        BY DEF Shape, TypeOK
      <4>3. \/ res'[b][l] = res[b][l]
            \/ res'[b][l] = AfterRelease(res[b][l], ReleasedBy(job[c]),
                                         job[c].call)
        <5>1. res' = [res EXCEPT ![a][k] =
                        IF @.status # "reserved" THEN @
                        ELSE AfterRelease(@, ReleasedBy(job[c]), job[c].call)]
          BY <2>3, <4>1 DEF ReleaseCommit
        <5>2. CASE b = a /\ l = k
          BY <5>1, <5>2 DEF Shape, TypeOK
        <5>3. CASE b # a \/ l # k
          BY <5>1, <5>3 DEF Shape, TypeOK
        <5> QED
          BY <5>2, <5>3
      <4> QED
        BY <4>2, <4>3 DEF AfterRelease, Reservations
    <3>2. UNCHANGED <<used, consumeIdem, direct>>
      BY <2>3 DEF ReleaseCommit
    <3> QED
      BY <3>1, <3>2, LedgerKept DEF SettledIn
  <2> QED
    BY <1>3, <2>1, <2>2, <2>3, ConsumeApplyLedger, SettleCommitLedger
       DEF Complete
<1>4. ASSUME NEW c \in Clients, Abort(c)
      PROVE  UsedIsLedger'
  BY <1>1, <1>4 DEF Abort
<1>5. ASSUME NEW a \in Accounts, NEW l \in Limits, NEW m \in Modes,
             PlanChange(a, l, m)
      PROVE  UsedIsLedger'
  BY <1>1, <1>5 DEF PlanChange
<1>6. ASSUME NEW a \in Accounts, NEW n \in RefundAmounts, Refund(a, n)
      PROVE  UsedIsLedger'
  <2>1. PICK q \in Periods : q = Period(now)
    BY RowTypes DEF Shape, TypeOK
  <2>2. PICK u \in Nat : u = AtLeastZero(used[a][q] - n)
    BY AmountAssumption, RowTypes DEF Shape, TypeOK
  <2>3. \A b \in Accounts, p \in Periods :
           /\ used'[b][p] = IF b = a /\ p = q THEN u ELSE used[b][p]
           /\ direct'[b][p] = IF b = a /\ p = q
                              THEN direct[b][p] - (used[b][p] - u)
                              ELSE direct[b][p]
    BY <1>6, <2>1, <2>2 DEF Refund, Shape, TypeOK
  <2>4. UNCHANGED <<res, consumeIdem>>
    BY <1>6 DEF Refund
  <2>5. ASSUME NEW b \in Accounts, NEW p \in Periods
        PROVE  used'[b][p] = Settled(b, p)' + ConsumedOnce(b, p)'
                               + direct'[b][p]
    <3>1. /\ Settled(b, p)' = Settled(b, p)
          /\ ConsumedOnce(b, p)' = ConsumedOnce(b, p)
      BY <2>4 DEF Settled, ConsumedOnce
    <3>2. /\ used[b][p] = Settled(b, p) + ConsumedOnce(b, p) + direct[b][p]
          /\ Settled(b, p) \in Nat /\ ConsumedOnce(b, p) \in Nat
          /\ direct[b][p] \in Int
          /\ used[b][p] \in Nat
      BY LedgerTypes DEF UsedIsLedger, Shape
    <3> QED
      BY <2>2, <2>3, <3>1, <3>2
  <2> QED
    BY <2>5 DEF UsedIsLedger
<1>7. ASSUME NEW a \in Accounts, NEW r \in Refs, NEW n \in GrantAmounts,
             NEW m \in BOOLEAN, Grant(a, r, n, m)
      PROVE  UsedIsLedger'
  BY <1>1, <1>7 DEF Grant
<1>8. CASE ExpireDueReservations
  <2>1. PICK S : Expire(S)
    BY <1>8 DEF ExpireDueReservations
  <2>2. ASSUME NEW b \in Accounts, NEW l \in ResKeys
        PROVE  /\ res'[b][l].settled = res[b][l].settled
               /\ res'[b][l].period = res[b][l].period
    <3>1. res[b][l] \in Reservations
      BY DEF Shape, TypeOK
    <3>2. \/ res'[b][l] = res[b][l]
          \/ res'[b][l] = [res[b][l] EXCEPT !.status = "expired"]
      BY <2>1 DEF Expire
    <3> QED
      BY <3>1, <3>2 DEF Reservations
  <2>3. UNCHANGED <<used, consumeIdem, direct>>
    BY <2>1 DEF Expire
  <2> QED
    BY <2>2, <2>3, LedgerKept DEF SettledIn
<1>9. CASE RefreshWorker
  BY <1>1, <1>9 DEF RefreshWorker, RefreshPeriodicGrants
<1>10. CASE Tick
  BY <1>1, <1>10 DEF Tick
<1>11. CASE UNCHANGED vars
  BY <1>1, <1>11 DEF vars
<1> QED
  BY <1>2, <1>3, <1>4, <1>5, <1>6, <1>7, <1>8, <1>9, <1>10, <1>11 DEF Next

LEMMA LedgerInit ==
    Init => UsedIsLedger
<1> SUFFICES ASSUME Init, NEW a \in Accounts, NEW p \in Periods
             PROVE  used[a][p] = Settled(a, p) + ConsumedOnce(a, p)
                                   + direct[a][p]
  BY DEF UsedIsLedger
<1> DEFINE f == [k \in ResKeys |-> SettledIn(res[a][k], p)]
           g == [k \in ConsumeKeys |-> IF consumeIdem[a][k].period = p
                                       THEN consumeIdem[a][k].amount ELSE 0]
<1>1. f \in [ResKeys -> {0}] /\ g \in [ConsumeKeys -> {0}]
  BY DEF Init, SettledIn, NoReservation, NoIdem
<1>2. Settled(a, p) = Total(f) /\ ConsumedOnce(a, p) = Total(g)
  BY DEF Settled, ConsumedOnce
<1> HIDE DEF f, g
<1>3. Total(f) = 0 /\ Total(g) = 0
  BY <1>1, TotalZero
<1>4. used[a][p] = 0 /\ direct[a][p] = 0
  BY DEF Init
<1> QED
  BY <1>2, <1>3, <1>4

\* The used column of every counter is what was settled, plus one charge for
\* each idempotency key of ConsumeWith, plus what keyless calls did: no
\* retry, duplicate or interleaving of Consume, Settle, ReleaseReservation
\* and the expiry worker charges twice or loses a charge.
THEOREM LedgerBalances == Spec => []UsedIsLedger
  BY ShapeInvariant, LedgerInit, LedgerStep, PTL DEF Spec
-----------------------------------------------------------------------------
(* Periodic grants *)

\* A row that RefreshPeriodicGrants derived for a period credits that period,
\* and its template credits another one.
DerivedRows ==
    \A a \in Accounts, r \in Refs, q \in Periods :
       grants[a][<<r, q>>].amount > 0 =>
          /\ grants[a][<<r, q>>].period = q
          /\ grants[a][<<r, Base>>].amount > 0
          /\ grants[a][<<r, Base>>].period # q

LEMMA GrantIdTypes ==
    /\ \A r \in Refs : <<r, Base>> \in GrantIds
    /\ \A r \in Refs, q \in Periods :
          <<r, q>> \in GrantIds /\ <<r, q>> # <<r, Base>>
    /\ Base \notin Periods
<1>1. Base \notin Periods
  BY RowTypes DEF Base
<1> QED
  BY <1>1 DEF GrantIds

LEMMA GrantDerived ==
    ASSUME TypeOK, DerivedRows, NEW a \in Accounts, NEW r \in Refs,
           NEW n \in GrantAmounts, NEW m \in BOOLEAN, Grant(a, r, n, m)
    PROVE  DerivedRows'
<1>1. \A b \in Accounts, g \in GrantIds :
         b # a \/ g # <<r, Base>> => grants'[b][g] = grants[b][g]
  BY DEF Grant, TypeOK
<1>2. grants[a][<<r, Base>>].amount = 0
  BY DEF Grant
<1> SUFFICES ASSUME NEW b \in Accounts, NEW s \in Refs, NEW q \in Periods,
                    grants'[b][<<s, q>>].amount > 0
             PROVE  /\ grants'[b][<<s, q>>].period = q
                    /\ grants'[b][<<s, Base>>].amount > 0
                    /\ grants'[b][<<s, Base>>].period # q
  BY DEF DerivedRows
<1>3. <<s, q>> \in GrantIds /\ <<s, Base>> \in GrantIds
      /\ <<s, q>> # <<r, Base>>
  BY GrantIdTypes
<1>4. grants'[b][<<s, q>>] = grants[b][<<s, q>>]
  BY <1>1, <1>3
<1>5. /\ grants[b][<<s, q>>].period = q
      /\ grants[b][<<s, Base>>].amount > 0
      /\ grants[b][<<s, Base>>].period # q
  BY <1>4 DEF DerivedRows
<1>6. b # a \/ <<s, Base>> # <<r, Base>>
  BY <1>2, <1>5
<1> QED
  BY <1>1, <1>3, <1>4, <1>5, <1>6

LEMMA RefreshDerived ==
    ASSUME TypeOK, DerivedRows, NEW p \in Periods, RefreshPeriodicGrants(p)
    PROVE  DerivedRows'
<1> SUFFICES ASSUME NEW b \in Accounts, NEW s \in Refs, NEW q \in Periods,
                    grants'[b][<<s, q>>].amount > 0
             PROVE  /\ grants'[b][<<s, q>>].period = q
                    /\ grants'[b][<<s, Base>>].amount > 0
                    /\ grants'[b][<<s, Base>>].period # q
  BY DEF DerivedRows
<1>1. PICK g \in GrantIds : g = <<s, q>>
  BY GrantIdTypes
<1>2. PICK t \in GrantIds : t = <<s, Base>>
  BY GrantIdTypes
<1>3. g[1] = s /\ g[2] = q /\ t[2] = Base /\ Base # p
  BY <1>1, <1>2, GrantIdTypes
<1>4. grants'[b][g] = Refreshed(b, g, p) /\ grants'[b][t] = Refreshed(b, t, p)
  BY DEF RefreshPeriodicGrants
<1>5. grants'[b][t] = grants[b][t]
  BY <1>3, <1>4 DEF Refreshed
<1>6. CASE grants[b][g].amount > 0
  <2>1. grants'[b][g] = grants[b][g]
    BY <1>4, <1>6 DEF Refreshed
  <2> QED
    BY <1>1, <1>2, <1>5, <1>6, <2>1 DEF DerivedRows
<1>7. CASE ~(grants[b][g].amount > 0)
  <2>1. grants'[b][g] # grants[b][g]
    BY <1>1, <1>7
  <2>2. /\ q = p
        /\ grants[b][t].period # p
        /\ grants'[b][g] = [period |-> p, amount |-> grants[b][t].amount,
                            monthly |-> FALSE]
    BY <1>2, <1>3, <1>4, <2>1 DEF Refreshed
  <2> QED
    BY <1>1, <1>2, <1>5, <2>2
<1> QED
  BY <1>6, <1>7

LEMMA DerivedStep ==
    TypeOK /\ DerivedRows /\ [Next]_vars => DerivedRows'
<1> SUFFICES ASSUME TypeOK, DerivedRows, [Next]_vars
             PROVE  DerivedRows'
  OBVIOUS
<1>1. ASSUME UNCHANGED grants
      PROVE  DerivedRows'
  BY <1>1 DEF DerivedRows
<1>2. ASSUME NEW c \in Clients, NEW a \in Accounts, Call(c, a)
      PROVE  UNCHANGED grants
  BY <1>2 DEF Call, ConsumeBegin, ReserveBegin, SettleBegin, ReleaseBegin
<1>3. ASSUME NEW c \in Clients, Complete(c)
      PROVE  UNCHANGED grants
  BY <1>3 DEF Complete, ConsumeRefuse, ConsumeApply, ReserveLock,
              ReserveReadPlan, ReserveDecide, ReserveRefuse, ReserveCommit, SettleCommit, ReleaseCommit
<1>4. ASSUME NEW c \in Clients, Abort(c)
      PROVE  UNCHANGED grants
  BY <1>4 DEF Abort
<1>5. ASSUME NEW a \in Accounts, NEW l \in Limits, NEW m \in Modes,
             PlanChange(a, l, m)
      PROVE  UNCHANGED grants
  BY <1>5 DEF PlanChange
<1>6. ASSUME NEW a \in Accounts, NEW n \in RefundAmounts, Refund(a, n)
      PROVE  UNCHANGED grants
  BY <1>6 DEF Refund
<1>7. CASE ExpireDueReservations \/ Tick \/ UNCHANGED vars
  BY <1>1, <1>7 DEF ExpireDueReservations, Expire, Tick, vars
<1>8. CASE RefreshWorker
  <2>1. PICK p \in Periods : RefreshPeriodicGrants(p)
    BY <1>8, RowTypes DEF RefreshWorker
  <2> QED
    BY <2>1, RefreshDerived
<1> QED
  BY <1>1, <1>2, <1>3, <1>4, <1>5, <1>6, <1>7, <1>8, GrantDerived DEF Next

LEMMA DerivedInit ==
    Init => DerivedRows
<1> SUFFICES ASSUME Init, NEW a \in Accounts, NEW r \in Refs,
                    NEW q \in Periods
             PROVE  ~(grants[a][<<r, q>>].amount > 0)
  BY DEF DerivedRows
<1>1. grants[a][<<r, q>>] = NoGrant
  BY GrantIdTypes DEF Init
<1> QED
  BY <1>1 DEF NoGrant

\* The rows of a reference that credit a period are the caller's own or the
\* one derived for the period, never both.
LEMMA CreditedOnce ==
    DerivedRows => RefreshedOnce
<1> SUFFICES ASSUME DerivedRows, NEW a \in Accounts, NEW r \in Refs,
                    NEW p \in Periods
             PROVE  Cardinality({g \in GrantIds :
                                   /\ g[1] = r
                                   /\ grants[a][g].amount > 0
                                   /\ grants[a][g].period = p}) <= 1
  BY DEF RefreshedOnce
<1> DEFINE credits == {g \in GrantIds : /\ g[1] = r
                                        /\ grants[a][g].amount > 0
                                        /\ grants[a][g].period = p}
<1>1. ASSUME NEW g \in credits
      PROVE  \/ /\ g = <<r, Base>>
                /\ grants[a][<<r, Base>>].period = p
             \/ /\ g = <<r, p>>
                /\ grants[a][<<r, Base>>].period # p
  <2>1. PICK q \in Periods \cup {Base} : g = <<r, q>>
    BY DEF GrantIds
  <2>2. CASE q = Base
    BY <2>1, <2>2
  <2>3. CASE q \in Periods
    <3>1. q = p /\ grants[a][<<r, Base>>].period # q
      BY <2>1, <2>3 DEF DerivedRows
    <3> QED
      BY <2>1, <3>1
  <2> QED
    BY <2>1, <2>2, <2>3
<1>2. \A g, h \in credits : g = h
  BY <1>1
<1>3. credits = {} \/ \E g \in credits : credits = {g}
  <2> HIDE DEF credits
  <2> QED
    BY <1>2
<1>4. Cardinality(credits) <= 1
  <2> HIDE DEF credits
  <2>1. CASE credits = {}
    BY <2>1, FS_EmptySet
  <2>2. CASE \E g \in credits : credits = {g}
    <3>1. PICK g \in credits : credits = {g}
      BY <2>2
    <3>2. Cardinality({g}) = 1
      BY FS_Singleton
    <3> QED
      BY <3>1, <3>2
  <2> QED
    BY <1>3, <2>1, <2>2
<1> QED
  BY <1>4

\* A monthly grant credits each period once: RefreshPeriodicGrants never adds
\* to the month a grant was given in, and repeating it, or running it on a
\* clock read before the month ended, inserts nothing twice.
THEOREM GrantedOnce == Spec => []RefreshedOnce
<1>1. Shape => TypeOK
  BY DEF Shape
<1>2. Spec => []DerivedRows
  BY <1>1, ShapeInvariant, DerivedInit, DerivedStep, PTL DEF Spec
<1> QED
  BY <1>2, CreditedOnce, PTL

-----------------------------------------------------------------------------
(* Closed reservations *)

\* What an operation may do to a reservation.
RowStep(a, k) ==
    /\ res[a][k].status \in {"settled", "released", "expired"}
         => res'[a][k] = res[a][k]
    /\ res[a][k].status = "reserved"
         => /\ res'[a][k].period = res[a][k].period
            /\ res'[a][k].amount = res[a][k].amount
            /\ res'[a][k].released >= res[a][k].released

LEMMA RowKept ==
    ASSUME Shape, NEW a \in Accounts, NEW k \in ResKeys,
           res'[a][k] = res[a][k] \/ res[a][k].status = "none"
    PROVE  RowStep(a, k)
<1>1. res[a][k].released \in Nat
  BY AmountAssumption DEF Shape, TypeOK, Reservations
<1> QED
  BY <1>1 DEF RowStep

LEMMA RowsStep ==
    ASSUME Shape, [Next]_vars, NEW a \in Accounts, NEW k \in ResKeys
    PROVE  RowStep(a, k)
<1>0. res[a][k] \in Reservations /\ res[a][k].released \in Nat
  BY AmountAssumption DEF Shape, TypeOK, Reservations
<1>1. ASSUME UNCHANGED res
      PROVE  RowStep(a, k)
  BY <1>1, RowKept
<1>2. ASSUME NEW c \in Clients, NEW b \in Accounts, Call(c, b)
      PROVE  UNCHANGED res
  BY <1>2 DEF Call, ConsumeBegin, ReserveBegin, SettleBegin, ReleaseBegin
<1>3. ASSUME NEW c \in Clients, Complete(c)
      PROVE  RowStep(a, k)
  <2>1. CASE \/ ConsumeRefuse(c) \/ ConsumeApply(c) \/ ReserveLock(c)
             \/ ReserveReadPlan(c) \/ ReserveDecide(c) \/ ReserveRefuse(c)
    BY <1>1, <2>1
       DEF ConsumeRefuse, ConsumeApply, ReserveLock, ReserveReadPlan,
           ReserveDecide, ReserveRefuse
  <2>2. CASE ReserveCommit(c)
    <3>1. res'[a][k] = res[a][k] \/ res[a][k].status = "none"
      BY <2>2 DEF ReserveCommit, Shape, TypeOK
    <3> QED
      BY <3>1, RowKept
  <2>3. CASE SettleCommit(c)
    <3>1. PICK b \in Accounts, l \in ResKeys :
             /\ b = job[c].acct /\ l = job[c].key
             /\ res[b][l].status = "reserved"
      BY <2>3, ClosingRow DEF SettleCommit
    <3>2. CASE b = a /\ l = k
      <4>1. \A d \in Accounts, m \in ResKeys :
               res'[d][m] = IF d = b /\ m = l
                            THEN [res[b][l] EXCEPT !.status = "settled",
                                                   !.settled = job[c].n]
                            ELSE res[d][m]
        BY <2>3, <3>1 DEF SettleCommit, Shape, TypeOK
      <4>2. /\ res'[a][k].period = res[a][k].period
            /\ res'[a][k].amount = res[a][k].amount
            /\ res'[a][k].released = res[a][k].released
        BY <1>0, <3>2, <4>1 DEF Reservations
      <4> QED
        BY <1>0, <3>1, <3>2, <4>2 DEF RowStep
    <3>3. CASE ~(b = a /\ l = k)
      <4>1. res'[a][k] = res[a][k]
        BY <2>3, <3>1, <3>3 DEF SettleCommit, Shape, TypeOK
      <4> QED
        BY <4>1, RowKept
    <3> QED
      BY <3>2, <3>3
  <2>4. CASE ReleaseCommit(c)
    <3>1. PICK b \in Accounts, l \in ResKeys, n \in Nat :
             /\ b = job[c].acct /\ l = job[c].key
             /\ res[b][l].status = "reserved"
             /\ n = ReleasedBy(job[c])
      BY <2>4, ClosingRow, ReleasedByType, AmountAssumption
         DEF ReleaseCommit
    <3>2. CASE b = a /\ l = k
      <4>1. res'[a][k] = AfterRelease(res[a][k], n, job[c].call)
        BY <2>4, <3>1, <3>2 DEF ReleaseCommit, Shape, TypeOK
      <4>2. /\ res'[a][k].period = res[a][k].period
            /\ res'[a][k].amount = res[a][k].amount
            /\ res'[a][k].released = res[a][k].released + n
        BY <1>0, <4>1 DEF AfterRelease, Reservations
      <4> QED
        BY <1>0, <3>1, <3>2, <4>2 DEF RowStep
    <3>3. CASE ~(b = a /\ l = k)
      <4>1. res'[a][k] = res[a][k]
        BY <2>4, <3>1, <3>3 DEF ReleaseCommit, Shape, TypeOK
      <4> QED
        BY <4>1, RowKept
    <3> QED
      BY <3>2, <3>3
  <2> QED
    BY <1>3, <2>1, <2>2, <2>3, <2>4 DEF Complete
<1>4. ASSUME NEW c \in Clients, Abort(c)
      PROVE  UNCHANGED res
  BY <1>4 DEF Abort
<1>5. ASSUME NEW b \in Accounts, NEW l \in Limits, NEW m \in Modes,
             PlanChange(b, l, m)
      PROVE  UNCHANGED res
  BY <1>5 DEF PlanChange
<1>6. ASSUME NEW b \in Accounts, NEW n \in RefundAmounts, Refund(b, n)
      PROVE  UNCHANGED res
  BY <1>6 DEF Refund
<1>7. ASSUME NEW b \in Accounts, NEW r \in Refs, NEW n \in GrantAmounts,
             NEW m \in BOOLEAN, Grant(b, r, n, m)
      PROVE  UNCHANGED res
  BY <1>7 DEF Grant
<1>8. CASE ExpireDueReservations
  <2>1. PICK S : Expire(S)
    BY <1>8 DEF ExpireDueReservations
  <2>2. CASE <<a, k>> \in S
    <3>1. /\ res'[a][k] = [res[a][k] EXCEPT !.status = "expired"]
          /\ res[a][k].status = "reserved"
      BY <2>1, <2>2 DEF Expire, IsBatch, Due
    <3>2. /\ res'[a][k].period = res[a][k].period
          /\ res'[a][k].amount = res[a][k].amount
          /\ res'[a][k].released = res[a][k].released
      BY <1>0, <3>1 DEF Reservations
    <3> QED
      BY <1>0, <3>1, <3>2 DEF RowStep
  <2>3. CASE <<a, k>> \notin S
    <3>1. res'[a][k] = res[a][k]
      BY <2>1, <2>3 DEF Expire
    <3> QED
      BY <3>1, RowKept
  <2> QED
    BY <2>2, <2>3
<1>9. CASE RefreshWorker \/ Tick \/ UNCHANGED vars
  BY <1>1, <1>9 DEF RefreshWorker, RefreshPeriodicGrants, Tick, vars
<1> QED
  BY <1>1, <1>2, <1>3, <1>4, <1>5, <1>6, <1>7, <1>8, <1>9 DEF Next

\* A settled, released or expired reservation is never written again, however
\* many callers of Settle and ReleaseReservation and rounds of the expiry
\* worker are under way on it when it closes.
THEOREM NeverReopened == Spec => ClosedForGood
<1>1. Shape /\ [Next]_vars
        => [\A a \in Accounts, k \in ResKeys :
              /\ res[a][k].status \in {"settled", "released", "expired"}
                   => res'[a][k] = res[a][k]
              /\ res[a][k].status = "reserved"
                   => /\ res'[a][k].period = res[a][k].period
                      /\ res'[a][k].amount = res[a][k].amount
                      /\ res'[a][k].released >= res[a][k].released]_vars
  BY RowsStep DEF RowStep
<1> QED
  BY <1>1, ShapeInvariant, PTL DEF Spec, ClosedForGood
-----------------------------------------------------------------------------
(* The service implements Capacity                                         *)

\* An open reservation holds something.  Without this, the last release of a
\* reservation could be a step of Capacity that returns nothing.
OpenHoldsSome ==
    \A a \in Accounts, k \in ResKeys :
       res[a][k].status = "reserved" => res[a][k].released < res[a][k].amount

LEMMA OpenInit == Init => OpenHoldsSome
  BY DEF Init, OpenHoldsSome, NoReservation

LEMMA OpenStep ==
    Shape /\ OpenHoldsSome /\ [Next]_vars => OpenHoldsSome'
<1> SUFFICES ASSUME Shape, OpenHoldsSome, [Next]_vars,
                    NEW a \in Accounts, NEW k \in ResKeys,
                    res'[a][k].status = "reserved"
             PROVE  res'[a][k].released < res'[a][k].amount
  BY DEF OpenHoldsSome
<1>1. /\ res[a][k] \in Reservations
      /\ res[a][k].released \in Nat
      /\ res[a][k].amount \in Nat
      /\ res[a][k].status = "reserved"
           => res[a][k].released < res[a][k].amount
  BY AmountAssumption DEF Shape, TypeOK, Reservations, OpenHoldsSome
<1>2. ASSUME res'[a][k] = res[a][k]
      PROVE  res'[a][k].released < res'[a][k].amount
  BY <1>1, <1>2
<1>3. ASSUME NEW c \in Clients, NEW b \in Accounts, Call(c, b)
      PROVE  UNCHANGED res
  BY <1>3 DEF Call, ConsumeBegin, ReserveBegin, SettleBegin, ReleaseBegin
<1>4. ASSUME NEW c \in Clients, Complete(c)
      PROVE  res'[a][k].released < res'[a][k].amount
  <2>1. CASE \/ ConsumeRefuse(c) \/ ConsumeApply(c) \/ ReserveLock(c)
             \/ ReserveReadPlan(c) \/ ReserveDecide(c) \/ ReserveRefuse(c)
    BY <1>2, <2>1
       DEF ConsumeRefuse, ConsumeApply, ReserveLock, ReserveReadPlan,
           ReserveDecide, ReserveRefuse
  <2>2. CASE ReserveCommit(c)
    <3>1. job[c].n \in 1..MaxAmount
      BY <2>2, JobType DEF ReserveCommit, Shape, LockedJobs, LockedOps
    <3>2. \/ res'[a][k] = res[a][k]
          \/ res'[a][k] = [status |-> "reserved", period |-> job[c].period,
                           amount |-> job[c].n, settled |-> 0,
                           released |-> 0, releaseKeys |-> {},
                           expiresAt |-> job[c].expiresAt]
      BY <2>2 DEF ReserveCommit, Shape, TypeOK
    <3> QED
      BY <1>2, <3>1, <3>2, AmountAssumption
  <2>3. CASE SettleCommit(c)
    <3>1. PICK b \in Accounts, l \in ResKeys :
             /\ b = job[c].acct /\ l = job[c].key
             /\ res[b][l].status = "reserved"
      BY <2>3, ClosingRow DEF SettleCommit
    <3>2. \A d \in Accounts, m \in ResKeys :
             res'[d][m] = IF d = b /\ m = l
                          THEN [res[b][l] EXCEPT !.status = "settled",
                                                 !.settled = job[c].n]
                          ELSE res[d][m]
      BY <2>3, <3>1 DEF SettleCommit, Shape, TypeOK
    <3>3. CASE a = b /\ k = l
      <4>1. res'[a][k] = [res[a][k] EXCEPT !.status = "settled",
                                           !.settled = job[c].n]
        BY <3>2, <3>3
      <4>2. res'[a][k].status = "settled"
        BY <1>1, <4>1 DEF Reservations
      <4> QED
        BY <4>2
    <3> QED
      BY <1>2, <3>2, <3>3
  <2>4. CASE ReleaseCommit(c)
    <3>1. PICK n \in Nat : n = ReleasedBy(job[c])
      BY <2>4, ReleasedByType, AmountAssumption DEF ReleaseCommit
    <3>2. \/ res'[a][k] = res[a][k]
          \/ res'[a][k] = AfterRelease(res[a][k], n, job[c].call)
      BY <2>4, <3>1 DEF ReleaseCommit, Shape, TypeOK
    <3>3. CASE res'[a][k] = AfterRelease(res[a][k], n, job[c].call)
      <4>1. /\ res'[a][k].released = res[a][k].released + n
            /\ res'[a][k].amount = res[a][k].amount
            /\ res'[a][k].status = IF res[a][k].released + n >= res[a][k].amount
                                   THEN "released" ELSE res[a][k].status
        BY <1>1, <3>3 DEF AfterRelease, Reservations
      <4> QED
        BY <1>1, <4>1
    <3> QED
      BY <1>2, <3>2, <3>3
  <2> QED
    BY <1>4, <2>1, <2>2, <2>3, <2>4 DEF Complete
<1>5. ASSUME NEW c \in Clients, Abort(c)
      PROVE  UNCHANGED res
  BY <1>5 DEF Abort
<1>6. ASSUME NEW b \in Accounts, NEW l \in Limits, NEW m \in Modes,
             PlanChange(b, l, m)
      PROVE  UNCHANGED res
  BY <1>6 DEF PlanChange
<1>7. ASSUME NEW b \in Accounts, NEW n \in RefundAmounts, Refund(b, n)
      PROVE  UNCHANGED res
  BY <1>7 DEF Refund
<1>8. ASSUME NEW b \in Accounts, NEW r \in Refs, NEW n \in GrantAmounts,
             NEW m \in BOOLEAN, Grant(b, r, n, m)
      PROVE  UNCHANGED res
  BY <1>8 DEF Grant
<1>9. CASE ExpireDueReservations
  <2>1. PICK S : Expire(S)
    BY <1>9 DEF ExpireDueReservations
  <2>2. \/ res'[a][k] = res[a][k]
        \/ res'[a][k] = [res[a][k] EXCEPT !.status = "expired"]
    BY <2>1 DEF Expire
  <2>3. res'[a][k] = [res[a][k] EXCEPT !.status = "expired"]
          => res'[a][k].status = "expired"
    BY <1>1 DEF Reservations
  <2> QED
    BY <1>2, <2>2, <2>3
<1>10. CASE RefreshWorker \/ Tick \/ UNCHANGED vars
  BY <1>2, <1>10 DEF RefreshWorker, RefreshPeriodicGrants, Tick, vars
<1> QED
  BY <1>2, <1>3, <1>4, <1>5, <1>6, <1>7, <1>8, <1>9, <1>10 DEF Next

-----------------------------------------------------------------------------
(* The state of Capacity in a state of the service *)

\* What open reservations withhold is what the reserved column counts.
LEMMA SameHeld ==
    ASSUME Shape, ReservedIsOutstanding, NEW a \in Accounts, NEW p \in Periods
    PROVE  Promise!Held(a, p) = reserved[a][p]
<1> DEFINE f == [k \in ResKeys |-> HeldIn(res[a][k], p)]
           S == {u \in ResKeys \X (1..MaxAmount) :
                   /\ Claim(res[a][u[1]]).period = p
                   /\ u[2] <= Claim(res[a][u[1]]).left}
<1>1. ASSUME NEW k \in ResKeys, NEW n \in 1..MaxAmount
      PROVE  n <= HeldIn(res[a][k], p)
               <=> (Claim(res[a][k]).period = p /\ n <= Claim(res[a][k]).left)
  BY AmountAssumption DEF Claim, HeldIn
<1>2. Units(f) = S
  <2>1. \A u \in ResKeys \X (1..MaxAmount) :
           /\ u[1] \in ResKeys
           /\ u[2] \in 1..MaxAmount
           /\ f[u[1]] = HeldIn(res[a][u[1]], p)
    OBVIOUS
  <2>2. DOMAIN f = ResKeys
    OBVIOUS
  <2> QED
    BY <1>1, <2>1, <2>2 DEF Units
<1>3. Promise!Held(a, p) = Cardinality(S)
  <2>1. S = {u \in ResKeys \X (1..MaxAmount) :
               /\ [b \in Accounts |-> [k \in ResKeys |-> Claim(res[b][k])]]
                     [a][u[1]].period = p
               /\ u[2] <= [b \in Accounts |-> [k \in ResKeys |->
                             Claim(res[b][k])]][a][u[1]].left}
    OBVIOUS
  <2> HIDE DEF S
  <2>2. Promise!Cardinality(S) = Cardinality(S)
    BY DEF Promise!Cardinality, Cardinality
  <2> QED
    BY <2>1, <2>2 DEF Promise!Held
<1> QED
  BY <1>2, <1>3 DEF ReservedIsOutstanding, Held, Total

\* What an account is granted in a period is a number.
LEMMA GrantedType ==
    ASSUME TypeOK, NEW a \in Accounts, NEW p \in Periods
    PROVE  Effective(limit[a]) \in Nat /\ Granted(a, p) \in Nat
<1> DEFINE f == [g \in GrantIds |->
                   IF grants[a][g].period = p THEN grants[a][g].amount ELSE 0]
<1>1. f \in [GrantIds -> 0..MaxAmount]
  <2>1. \A g \in GrantIds : grants[a][g].amount \in 0..MaxAmount
    BY DEF TypeOK, GrantRows
  <2>2. 0 \in 0..MaxAmount
    BY AmountAssumption
  <2> QED
    BY <2>1, <2>2
<1> HIDE DEF f
<1>2. Total(f) \in Nat
  BY <1>1, GrantIdsFinite, TotalType
<1>3. Effective(limit[a]) \in Nat
  BY RowTypes DEF TypeOK
<1> QED
  BY <1>2, <1>3 DEF Granted, f

LEMMA PromiseInit ==
    Init => Promise!Init
<1> SUFFICES ASSUME Init PROVE Promise!Init
  OBVIOUS
<1>1. TypeOK
  BY ShapeInit DEF Shape
<1>2. used = [a \in Accounts |-> [p \in Periods |-> 0]]
  BY DEF Init
<1>3. [a \in Accounts |-> [k \in ResKeys |-> Claim(res[a][k])]]
        \in [Accounts -> [ResKeys -> [stage: {"none"}, period: Periods,
                                      left: {0}]]]
  <2>1. ASSUME NEW a \in Accounts, NEW k \in ResKeys
        PROVE  Claim(res[a][k]) \in [stage: {"none"}, period: Periods,
                                     left: {0}]
    <3>1. res[a][k] = NoReservation
      BY DEF Init
    <3>2. Period(0) \in Periods
      BY RowTypes
    <3> QED
      BY <3>1, <3>2 DEF Claim, NoReservation
  <2> QED
    BY <2>1
<1>4. [a \in Accounts |-> {k \in ConsumeKeys : consumeIdem[a][k].amount > 0}]
        = [a \in Accounts |-> {}]
  BY DEF Init, NoIdem
<1>5. [a \in Accounts |-> Effective(limit[a])] \in [Accounts -> Nat]
  <2>1. \A a \in Accounts : Effective(limit[a]) \in Nat
    BY <1>1, RowTypes DEF TypeOK
  <2> QED
    BY <2>1
<1>6. [a \in Accounts |-> [p \in Periods |-> Granted(a, p)]]
        = [a \in Accounts |-> [p \in Periods |-> 0]]
  <2>1. ASSUME NEW a \in Accounts, NEW p \in Periods
        PROVE  Granted(a, p) = 0
    <3> DEFINE f == [g \in GrantIds |-> IF grants[a][g].period = p
                                        THEN grants[a][g].amount ELSE 0]
    <3>1. f \in [GrantIds -> {0}]
      BY DEF Init, NoGrant
    <3> HIDE DEF f
    <3>2. Total(f) = 0
      BY <3>1, TotalZero
    <3> QED
      BY <3>2 DEF Granted, f
  <2> QED
    BY <2>1
<1>7. [c \in Clients |-> Quoted(job[c])] = [c \in Clients |-> {}]
  BY DEF Init, Idle, Quoted
<1> QED
  BY <1>2, <1>3, <1>4, <1>5, <1>6, <1>7 DEF Promise!Init
-----------------------------------------------------------------------------
(* Steps *)

LimitNow == [a \in Accounts |-> Effective(limit[a])]
GrantedNow == [a \in Accounts |-> [p \in Periods |-> Granted(a, p)]]
QuoteNow == [c \in Clients |-> Quoted(job[c])]
ClaimNow == [a \in Accounts |-> [k \in ResKeys |-> Claim(res[a][k])]]
ChargedNow == [a \in Accounts |->
                 {k \in ConsumeKeys : consumeIdem[a][k].amount > 0}]

LEMMA PlanKept ==
    ASSUME UNCHANGED <<limit, grants>>
    PROVE  LimitNow' = LimitNow /\ GrantedNow' = GrantedNow
<1>1. \A a \in Accounts, p \in Periods : Granted(a, p)' = Granted(a, p)
  BY DEF Granted
<1> QED
  BY <1>1 DEF LimitNow, GrantedNow

LEMMA QuoteKept ==
    ASSUME \A c \in Clients : Quoted(job'[c]) = Quoted(job[c])
    PROVE  QuoteNow' = QuoteNow
  BY DEF QuoteNow

\* A transaction that was quoted no limit ends without a trace.
LEMMA EndedQuote ==
    ASSUME TypeOK, NEW c \in Clients, Finish(c),
           job[c].op \notin {"reserveLimited", "reserveAdmitted"}
    PROVE  QuoteNow' = QuoteNow
<1>1. \A d \in Clients : Quoted(job'[d]) = Quoted(job[d])
  BY DEF Finish, Idle, Quoted, TypeOK
<1> QED
  BY <1>1, QuoteKept

\* One that was quoted a limit gives the quote up.
LEMMA DroppedQuote ==
    ASSUME TypeOK, NEW c \in Clients, Finish(c)
    PROVE  QuoteNow' = [QuoteNow EXCEPT ![c] = {}]
<1>1. \A d \in Clients :
         Quoted(job'[d]) = IF d = c THEN {} ELSE Quoted(job[d])
  BY DEF Finish, Idle, Quoted, TypeOK
<1> QED
  BY <1>1 DEF QuoteNow

\* All that a step of Settle, ReleaseReservation or Consume leaves alone.
Terms == <<LimitNow, GrantedNow, QuoteNow>>

LEMMA TermsKept ==
    ASSUME TypeOK, NEW c \in Clients, Finish(c), UNCHANGED <<limit, grants>>,
           job[c].op \in {"consume", "settle", "release"}
    PROVE  Terms' = Terms
  BY PlanKept, EndedQuote DEF Terms

LEMMA ClaimKept ==
    ASSUME UNCHANGED res
    PROVE  ClaimNow' = ClaimNow
  BY DEF ClaimNow

LEMMA ChargedKept ==
    ASSUME UNCHANGED consumeIdem
    PROVE  ChargedNow' = ChargedNow
  BY DEF ChargedNow

\* Changing one reservation changes its claim.
LEMMA OneClaim ==
    ASSUME NEW a \in Accounts, NEW k \in ResKeys, NEW c,
           \A b \in Accounts, l \in ResKeys :
              Claim(res'[b][l]) = IF b = a /\ l = k THEN c
                                                    ELSE Claim(res[b][l])
    PROVE  ClaimNow' = [ClaimNow EXCEPT ![a][k] = c]
<1>1. ClaimNow' = [b \in Accounts |-> [l \in ResKeys |-> Claim(res'[b][l])]]
  BY DEF ClaimNow
<1>2. [ClaimNow EXCEPT ![a][k] = c]
        = [b \in Accounts |-> [l \in ResKeys |->
             IF b = a /\ l = k THEN c ELSE Claim(res[b][l])]]
  BY DEF ClaimNow
<1> QED
  BY <1>1, <1>2

\* Reserve: what it found available of the limit it read is still there.
LEMMA ReservePromise ==
    ASSUME Shape, ReservedIsOutstanding, AdmittedFits, NEW c \in Clients,
           ReserveCommit(c)
    PROVE  Promise!Next
<1>1. PICK a \in Accounts, k \in ResKeys, p \in Periods, n \in 1..MaxAmount,
           m \in Nat :
         /\ a = job[c].acct /\ k = job[c].key
         /\ p = job[c].period /\ n = job[c].n
         /\ m = job[c].limit
  BY JobType DEF Shape, ReserveCommit, LockedJobs, LockedOps
<1>2. job[c].used = used[a][p] /\ job[c].reserved = reserved[a][p]
  BY <1>1 DEF Shape, ReadsAreCurrent, ReserveCommit, LockedOps
<1>3. /\ used[a][p] \in Nat /\ reserved[a][p] \in Nat /\ n \in Nat
      /\ GrantedNow[a][p] = Granted(a, p)
      /\ Granted(a, p) \in Nat
  BY AmountAssumption, GrantedType DEF Shape, TypeOK, GrantedNow
<1>4. QuoteNow[c] = {<<a, m>>}
  BY <1>1 DEF ReserveCommit, QuoteNow, Quoted
<1>5. ClaimNow[a][k].stage = "none"
  BY <1>1 DEF ReserveCommit, ClaimNow, Claim
<1>6. ClaimNow' = [ClaimNow EXCEPT ![a][k] =
                     [stage |-> "open", period |-> p, left |-> n]]
  <2>1. \A b \in Accounts, l \in ResKeys :
           res'[b][l] = IF b = a /\ l = k
                        THEN [status |-> "reserved", period |-> p,
                              amount |-> n, settled |-> 0, released |-> 0,
                              releaseKeys |-> {},
                              expiresAt |-> job[c].expiresAt]
                        ELSE res[b][l]
    BY <1>1 DEF ReserveCommit, Shape, TypeOK
  <2>2. res'[a][k] = [status |-> "reserved", period |-> p, amount |-> n,
                      settled |-> 0, released |-> 0, releaseKeys |-> {},
                      expiresAt |-> job[c].expiresAt]
    BY <2>1
  <2>3. Claim(res'[a][k]) = [stage |-> "open", period |-> p, left |-> n]
    BY <1>3, <2>2 DEF Claim, Outstanding
  <2>4. \A b \in Accounts, l \in ResKeys :
           Claim(res'[b][l]) = IF b = a /\ l = k
                               THEN [stage |-> "open", period |-> p,
                                     left |-> n]
                               ELSE Claim(res[b][l])
    BY <2>1, <2>3
  <2> QED
    BY <2>4, OneClaim
<1>7. used[a][p] + Promise!Held(a, p) + n <= m + GrantedNow[a][p]
  <2>1. m + Granted(a, p) - used[a][p] - reserved[a][p] >= n
    BY <1>1, <1>2 DEF AdmittedFits, ReserveCommit, Available
  <2>2. Promise!Held(a, p) = reserved[a][p]
    BY SameHeld
  <2> QED
    BY <1>3, <2>1, <2>2
<1>8. \E q \in QuoteNow[c] :
         q[1] = a
         /\ used[a][p] + Promise!Held(a, p) + n <= q[2] + GrantedNow[a][p]
  BY <1>4, <1>7
<1>9. /\ LimitNow' = LimitNow /\ GrantedNow' = GrantedNow
      /\ QuoteNow' = [QuoteNow EXCEPT ![c] = {}]
      /\ ChargedNow' = ChargedNow /\ used' = used
  BY PlanKept, DroppedQuote, ChargedKept DEF ReserveCommit, Shape
<1>10. Promise!Reserve(c, a, k, p, n)
  BY <1>5, <1>6, <1>8, <1>9
     DEF Promise!Reserve, LimitNow, GrantedNow, QuoteNow, ClaimNow, ChargedNow
<1> QED
  BY <1>10 DEF Promise!Next

\* Taking n from an open claim.
LEMMA WithoutClaim ==
    ASSUME NEW p, NEW o \in Int, NEW n \in Int, NEW c,
           c = [stage |-> "open", period |-> p, left |-> o]
    PROVE  Promise!Without(c, n)
             = [stage |-> IF n = o THEN "closed" ELSE "open",
                period |-> p, left |-> o - n]
<1>1. c.stage = "open" /\ c.period = p /\ c.left = o
  OBVIOUS
<1>2. Promise!Without(c, n)
        = [c EXCEPT !.left = o - n,
                    !.stage = IF n = o THEN "closed" ELSE "open"]
  BY <1>1 DEF Promise!Without
<1> QED
  BY <1>1, <1>2

\* Settle: all that is left is closed and the amount is consumed.
LEMMA SettlePromise ==
    ASSUME Shape, NEW c \in Clients, SettleCommit(c)
    PROVE  Promise!Next
<1>1. PICK a \in Accounts, k \in ResKeys, q \in Periods,
           n \in 0..MaxAmount, o \in 0..MaxAmount :
         /\ a = job[c].acct /\ k = job[c].key
         /\ q = res[a][k].period /\ q = job[c].row.period
         /\ n = job[c].n
         /\ o = Outstanding(res[a][k])
         /\ res[a][k].status = "reserved"
  BY ClosingRow DEF SettleCommit
<1>2. res[a][k] \in Reservations /\ o \in Nat /\ n \in Nat
  BY AmountAssumption DEF Shape, TypeOK
<1>3. Claim(res[a][k]) = [stage |-> "open", period |-> q, left |-> o]
  BY <1>1 DEF Claim
<1>4. ClaimNow[a][k] = Claim(res[a][k])
  BY DEF ClaimNow
<1>5. Promise!Without(ClaimNow[a][k], ClaimNow[a][k].left)
        = [stage |-> "closed", period |-> q, left |-> 0]
  <2>1. ClaimNow[a][k].left = o
    BY <1>3, <1>4
  <2>2. Promise!Without(ClaimNow[a][k], o)
          = [stage |-> "closed", period |-> q, left |-> o - o]
    BY <1>2, <1>3, <1>4, WithoutClaim
  <2> QED
    BY <1>2, <2>1, <2>2
<1>6. ClaimNow' = [ClaimNow EXCEPT ![a][k] =
                     [stage |-> "closed", period |-> q, left |-> 0]]
  <2>1. \A b \in Accounts, l \in ResKeys :
           res'[b][l] = IF b = a /\ l = k
                        THEN [res[a][k] EXCEPT !.status = "settled",
                                               !.settled = n]
                        ELSE res[b][l]
    <3>1. \A b \in Accounts, l \in ResKeys :
             res'[b][l] = IF b = a /\ l = k THEN SettledRow(res[a][k], n)
                                            ELSE res[b][l]
      BY <1>1, SettleRow
    <3> QED
      BY <3>1 DEF SettledRow
  <2>2. res'[a][k].status = "settled" /\ res'[a][k].period = q
    <3>1. res'[a][k] = [res[a][k] EXCEPT !.status = "settled", !.settled = n]
      BY <2>1
    <3> QED
      BY <1>1, <1>2, <3>1 DEF Reservations
  <2>3. Claim(res'[a][k]) = [stage |-> "closed", period |-> q, left |-> 0]
    BY <2>2 DEF Claim
  <2>4. \A b \in Accounts, l \in ResKeys :
           Claim(res'[b][l]) = IF b = a /\ l = k
                               THEN [stage |-> "closed", period |-> q,
                                     left |-> 0]
                               ELSE Claim(res[b][l])
    BY <2>1, <2>3
  <2> QED
    BY <2>4, OneClaim
<1>7. used' = [used EXCEPT ![a][ClaimNow[a][k].period] = @ + n]
  <2>1. ClaimNow[a][k].period = q
    BY <1>3, <1>4
  <2>2. used' = [used EXCEPT ![a][q] = @ + n]
    BY <1>1 DEF SettleCommit
  <2> QED
    BY <2>1, <2>2
<1>8. Terms' = Terms /\ ChargedNow' = ChargedNow
  BY TermsKept, ChargedKept DEF SettleCommit, Shape
<1>9. ClaimNow[a][k].stage = "open"
  BY <1>3, <1>4
<1>10. ClaimNow' = [ClaimNow EXCEPT ![a][k] =
                      Promise!Without(@, @.left)]
  BY <1>5, <1>6
<1>11. Promise!Settle(a, k, n)
  BY <1>7, <1>8, <1>9, <1>10
     DEF Promise!Settle, Terms, LimitNow,
           GrantedNow, QuoteNow, ClaimNow, ChargedNow
<1> QED
  BY <1>11 DEF Promise!Next

\* ReleaseReservation: some of what is left is given back, or all of it.
LEMMA ReleasePromise ==
    ASSUME Shape, OpenHoldsSome, NEW c \in Clients, ReleaseCommit(c)
    PROVE  Promise!Next
<1>1. PICK a \in Accounts, k \in ResKeys, q \in Periods,
           o \in 0..MaxAmount, n \in 0..MaxAmount :
         /\ a = job[c].acct /\ k = job[c].key
         /\ q = res[a][k].period
         /\ o = Outstanding(res[a][k])
         /\ n = ReleasedBy(job[c])
         /\ n <= o
         /\ res[a][k].status = "reserved"
         /\ res[a][k] = job[c].row
  BY ClosingRow, ReleasedByType DEF ReleaseCommit
<1>2. /\ res[a][k] \in Reservations /\ o \in Nat /\ n \in Nat
      /\ res[a][k].amount \in Nat /\ res[a][k].released \in Nat
      /\ o = res[a][k].amount - res[a][k].released
      /\ res[a][k].released < res[a][k].amount
  BY <1>1, AmountAssumption
     DEF Shape, TypeOK, Reservations, Outstanding, OpenHoldsSome
<1>3. n > 0
  <2>1. job[c].n \in Nat
    BY ClosingRow, AmountAssumption DEF ReleaseCommit
  <2> QED
    BY <1>1, <1>2, <2>1 DEF ReleasedBy
<1>4. /\ Claim(res[a][k]) = [stage |-> "open", period |-> q, left |-> o]
      /\ ClaimNow[a][k] = Claim(res[a][k])
  BY <1>1 DEF Claim, ClaimNow
<1> DEFINE d == [stage |-> IF n = o THEN "closed" ELSE "open",
                 period |-> q, left |-> o - n]
<1>5. Promise!Without(ClaimNow[a][k], n) = d
  <2>1. o \in Int /\ n \in Int
    BY <1>2
  <2>2. ClaimNow[a][k] = [stage |-> "open", period |-> q, left |-> o]
    BY <1>4
  <2> QED
    BY <2>1, <2>2, WithoutClaim
<1>6. ClaimNow' = [ClaimNow EXCEPT ![a][k] = d]
  <2>1. \A b \in Accounts, l \in ResKeys :
           res'[b][l] = IF b = a /\ l = k
                        THEN AfterRelease(res[a][k], n, job[c].call)
                        ELSE res[b][l]
    BY <1>1 DEF ReleaseCommit, Shape, TypeOK
  <2>2. /\ res'[a][k].period = q
        /\ res'[a][k].amount = res[a][k].amount
        /\ res'[a][k].released = res[a][k].released + n
        /\ res'[a][k].status = IF res[a][k].released + n >= res[a][k].amount
                               THEN "released" ELSE "reserved"
    <3>1. res'[a][k] = AfterRelease(res[a][k], n, job[c].call)
      BY <2>1
    <3> QED
      BY <1>1, <1>2, <3>1 DEF AfterRelease, Reservations
  <2>3. Claim(res'[a][k]) = d
    BY <1>1, <1>2, <2>2 DEF Claim, Outstanding
  <2> HIDE DEF d
  <2>4. \A b \in Accounts, l \in ResKeys :
           Claim(res'[b][l]) = IF b = a /\ l = k THEN d
                                                 ELSE Claim(res[b][l])
    BY <2>1, <2>3
  <2> QED
    BY <2>4, OneClaim
<1>7. Terms' = Terms /\ ChargedNow' = ChargedNow /\ used' = used
  BY TermsKept, ChargedKept DEF ReleaseCommit, Shape
<1>8. ClaimNow[a][k].stage = "open" /\ n <= ClaimNow[a][k].left
  BY <1>1, <1>4
<1> HIDE DEF d
<1>9. ClaimNow' = [ClaimNow EXCEPT ![a][k] = Promise!Without(@, n)]
  BY <1>5, <1>6
<1>10. Promise!Return(a, k, n)
  BY <1>7, <1>8, <1>9 DEF Promise!Return, Terms, LimitNow,
           GrantedNow, QuoteNow, ClaimNow, ChargedNow
<1> QED
  BY <1>3, <1>10 DEF Promise!Next

\* The expiry worker closes a batch of open reservations at once.
LEMMA ExpirePromise ==
    ASSUME Shape, NEW S, Expire(S)
    PROVE  Promise!Next
<1>1. /\ S \in SUBSET (Accounts \X ResKeys)
      /\ \A r \in S : /\ r[1] \in Accounts /\ r[2] \in ResKeys
                      /\ res[r[1]][r[2]].status = "reserved"
  BY DEF Expire, IsBatch, Due
<1>2. \A r \in S : ClaimNow[r[1]][r[2]].stage = "open"
  BY <1>1 DEF ClaimNow, Claim
<1>3. ASSUME NEW a \in Accounts, NEW k \in ResKeys
      PROVE  Claim(res'[a][k]) =
               IF <<a, k>> \in S
               THEN Promise!Without(ClaimNow[a][k], ClaimNow[a][k].left)
               ELSE ClaimNow[a][k]
  <2>1. /\ res'[a][k] = IF <<a, k>> \in S
                        THEN [res[a][k] EXCEPT !.status = "expired"]
                        ELSE res[a][k]
        /\ res[a][k] \in Reservations
        /\ ClaimNow[a][k] = Claim(res[a][k])
    BY DEF Expire, Shape, TypeOK, ClaimNow
  <2>2. CASE <<a, k>> \in S
    <3>1. res[a][k].status = "reserved"
      BY <1>1, <2>2
    <3>2. /\ res'[a][k].status = "expired"
          /\ res'[a][k].period = res[a][k].period
      BY <2>1, <2>2 DEF Reservations
    <3>3. Claim(res'[a][k]) = [stage |-> "closed",
                               period |-> res[a][k].period, left |-> 0]
      BY <3>2 DEF Claim
    <3>4. PICK o \in Int : o = Outstanding(res[a][k])
      BY <2>1 DEF Reservations, Outstanding
    <3>5. Claim(res[a][k]) = [stage |-> "open",
                              period |-> res[a][k].period, left |-> o]
      BY <3>1, <3>4 DEF Claim
    <3>6. Promise!Without(ClaimNow[a][k], ClaimNow[a][k].left)
            = [stage |-> "closed", period |-> res[a][k].period, left |-> 0]
      <4>1. ClaimNow[a][k].left = o
        BY <2>1, <3>5
      <4>2. Promise!Without(ClaimNow[a][k], o)
              = [stage |-> "closed", period |-> res[a][k].period,
                 left |-> o - o]
        BY <2>1, <3>5, WithoutClaim
      <4> QED
        BY <4>1, <4>2
    <3> QED
      BY <2>2, <3>3, <3>6
  <2>3. CASE <<a, k>> \notin S
    BY <2>1, <2>3
  <2> QED
    BY <2>2, <2>3
<1>4. ClaimNow' = [a \in Accounts |-> [k \in ResKeys |->
                     IF <<a, k>> \in S
                     THEN Promise!Without(ClaimNow[a][k], ClaimNow[a][k].left)
                     ELSE ClaimNow[a][k]]]
  <2>1. ClaimNow' = [a \in Accounts |-> [k \in ResKeys |->
                       Claim(res'[a][k])]]
    BY DEF ClaimNow
  <2> QED
    BY <1>3, <2>1
<1>5. Terms' = Terms /\ ChargedNow' = ChargedNow /\ used' = used
  BY PlanKept, ChargedKept DEF Expire, Terms, QuoteNow
<1>6. Promise!Expire(S)
  BY <1>2, <1>4, <1>5 DEF Promise!Expire, Terms, LimitNow,
           GrantedNow, QuoteNow, ClaimNow, ChargedNow
<1> QED
  BY <1>1, <1>6 DEF Promise!Next

\* Consume: a key that was charged before is not charged again.
LEMMA ConsumePromise ==
    ASSUME Shape, NEW c \in Clients, ConsumeApply(c)
    PROVE  Promise!Next
<1>1. PICK a \in Accounts, p \in Periods, n \in 1..MaxAmount,
           k \in ConsumeKeys \cup {NoKey} :
         a = job[c].acct /\ p = job[c].period /\ n = job[c].n /\ k = job[c].key
  BY JobType DEF Shape, ConsumeApply, ConsumeJobs
<1>2. /\ used' = [used EXCEPT ![a][p] = @ + n]
      /\ Terms' = Terms
      /\ ClaimNow' = ClaimNow
  BY <1>1, TermsKept, ClaimKept DEF ConsumeApply, Shape
<1>3. CASE k = NoKey
  <2>1. ChargedNow' = ChargedNow
    BY <1>1, <1>3, ChargedKept DEF ConsumeApply
  <2>2. ChargedNow' = [ChargedNow EXCEPT ![a] = @ \cup {}]
    BY <2>1 DEF ChargedNow
  <2>3. Promise!Charge(a, p, n, {})
    BY <1>2, <2>2 DEF Promise!Charge, Terms, LimitNow,
           GrantedNow, QuoteNow, ClaimNow, ChargedNow
  <2> QED
    BY <2>3 DEF Promise!Next
<1>4. CASE k # NoKey
  <2>1. /\ k \in ConsumeKeys
        /\ consumeIdem' = [consumeIdem EXCEPT ![a][k] =
                             [period |-> p, amount |-> n]]
        /\ ~(consumeIdem[a][k].amount > 0)
    BY <1>1, <1>4 DEF ConsumeApply, Replayed
  <2>2. /\ consumeIdem'[a][k].amount > 0
        /\ \A b \in Accounts, l \in ConsumeKeys :
              b # a \/ l # k => consumeIdem'[b][l] = consumeIdem[b][l]
    BY <2>1, AmountAssumption DEF Shape, TypeOK
  <2>3. {k} \cap ChargedNow[a] = {}
    BY <2>1 DEF ChargedNow
  <2>4. ASSUME NEW b \in Accounts
        PROVE  ChargedNow'[b] = IF b = a THEN ChargedNow[b] \cup {k}
                                         ELSE ChargedNow[b]
    BY <2>1, <2>2 DEF ChargedNow
  <2>5. ChargedNow' = [ChargedNow EXCEPT ![a] = @ \cup {k}]
    BY <2>4 DEF ChargedNow
  <2>6. Promise!Charge(a, p, n, {k})
    BY <1>2, <2>3, <2>5 DEF Promise!Charge, Terms, LimitNow,
           GrantedNow, QuoteNow, ClaimNow, ChargedNow
  <2> QED
    BY <2>1, <2>6 DEF Promise!Next
<1> QED
  BY <1>3, <1>4

\* Release of consumption gives back what the counter has, at most.
LEMMA RefundPromise ==
    ASSUME Shape, NEW a \in Accounts, NEW n \in RefundAmounts, Refund(a, n)
    PROVE  Promise!Next \/ UNCHANGED Promise!vars
<1>1. PICK p \in Periods, m \in 1..MaxAmount : p = Period(now) /\ m = n
  BY RowTypes, AmountAssumption DEF Shape, TypeOK
<1>2. PICK u \in Nat : u = used[a][p]
  BY DEF Shape, TypeOK
<1>3. used' = [used EXCEPT ![a][p] = AtLeastZero(u - m)]
  BY <1>1, <1>2 DEF Refund
<1>4. Terms' = Terms /\ ClaimNow' = ClaimNow /\ ChargedNow' = ChargedNow
  BY PlanKept, ClaimKept, ChargedKept DEF Refund, Terms, QuoteNow
<1>5. CASE u = 0
  <2>1. AtLeastZero(u - m) = used[a][p]
    BY <1>2, <1>5, AmountAssumption DEF AtLeastZero
  <2>2. used' = used
    BY <1>3, <2>1 DEF Shape, TypeOK
  <2> QED
    BY <1>4, <2>2 DEF Promise!vars, Terms, LimitNow,
           GrantedNow, QuoteNow, ClaimNow, ChargedNow
<1>6. CASE u # 0
  <2>1. PICK d \in 1..MaxAmount : d <= u /\ AtLeastZero(u - m) = u - d
    <3>1. CASE m <= u
      BY <1>2, <3>1, AmountAssumption DEF AtLeastZero
    <3>2. CASE m > u
      <4>1. u \in 1..MaxAmount
        BY <1>2, <1>6, <3>2, AmountAssumption
      <4>2. AtLeastZero(u - m) = u - u
        BY <1>2, <3>2, AmountAssumption DEF AtLeastZero
      <4> QED
        BY <4>1, <4>2
    <3> QED
      BY <3>1, <3>2, AmountAssumption
  <2>2. used' = [used EXCEPT ![a][p] = @ - d] /\ d <= used[a][p]
    BY <1>2, <1>3, <2>1
  <2>3. Promise!Refund(a, p, d)
    BY <1>4, <2>2 DEF Promise!Refund, Terms, LimitNow,
           GrantedNow, QuoteNow, ClaimNow, ChargedNow
  <2> QED
    BY <2>3 DEF Promise!Next
<1> QED
  BY <1>5, <1>6

\* A plan change moves the limit, and no quote given before.
LEMMA PlanPromise ==
    ASSUME Shape, Shape', NEW a \in Accounts, NEW l \in Limits, NEW m \in Modes,
           PlanChange(a, l, m)
    PROVE  Promise!Next
<1>1. LimitNow' \in [Accounts -> Nat]
  <2>1. \A b \in Accounts : Effective(limit'[b]) \in Nat
    BY RowTypes DEF Shape, TypeOK
  <2> QED
    BY <2>1 DEF LimitNow
<1>2. GrantedNow' = GrantedNow
  BY DEF PlanChange, GrantedNow, Granted
<1>3. QuoteNow' = QuoteNow /\ ClaimNow' = ClaimNow /\ ChargedNow' = ChargedNow
  BY ClaimKept, ChargedKept DEF PlanChange, QuoteNow
<1>4. Promise!PlanChange
  BY <1>1, <1>2, <1>3
     DEF PlanChange, Promise!PlanChange, LimitNow, GrantedNow, QuoteNow,
         ClaimNow, ChargedNow
<1> QED
  BY <1>4 DEF Promise!Next

\* A grant or a refresh of the grants adds to what was granted.
LEMMA GrantPromise ==
    ASSUME Shape, Shape', [Next]_vars,
           UNCHANGED <<limit, job, used, res, consumeIdem>>
    PROVE  Promise!Next
<1>1. ASSUME NEW a \in Accounts, NEW p \in Periods
      PROVE  /\ Granted(a, p)' \in Nat
             /\ Granted(a, p) <= Granted(a, p)'
  BY GrantsStay, GrantedMono DEF Shape
<1>2. GrantedNow' \in [Accounts -> [Periods -> Nat]]
  BY <1>1 DEF GrantedNow
<1>3. \A a \in Accounts, p \in Periods : GrantedNow[a][p] <= GrantedNow'[a][p]
  BY <1>1 DEF GrantedNow
<1>4. /\ LimitNow' = LimitNow /\ QuoteNow' = QuoteNow
      /\ ClaimNow' = ClaimNow /\ ChargedNow' = ChargedNow
  BY ClaimKept, ChargedKept DEF LimitNow, QuoteNow
<1>5. Promise!Grant
  BY <1>2, <1>3, <1>4
     DEF Promise!Grant, LimitNow, GrantedNow, QuoteNow, ClaimNow, ChargedNow
<1> QED
  BY <1>5 DEF Promise!Next

\* reserveTx reads the plan: the caller is quoted its limit.
LEMMA AskPromise ==
    ASSUME Shape, NEW c \in Clients, ReserveReadPlan(c)
    PROVE  Promise!Next
<1>1. PICK a \in Accounts : a = job[c].acct
  BY JobType DEF Shape, ReserveReadPlan, LockedJobs, LockedOps
<1>2. \A d \in Clients :
         Quoted(job'[d]) = IF d = c THEN {<<a, LimitNow[a]>>}
                                    ELSE Quoted(job[d])
  <2>1. job[c] \in LockedJobs
    BY JobType DEF Shape, ReserveReadPlan, LockedOps
  <2>2. /\ job'[c].op = "reserveLimited"
        /\ job'[c].acct = a
        /\ job'[c].limit = LimitNow[a]
        /\ \A d \in Clients \ {c} : job'[d] = job[d]
    BY <1>1, <2>1 DEF ReserveReadPlan, LockedJobs, LimitNow, Shape, TypeOK
  <2> QED
    BY <2>2 DEF Quoted
<1>3. QuoteNow' = [QuoteNow EXCEPT ![c] = {<<a, LimitNow[a]>>}]
  BY <1>2 DEF QuoteNow
<1>4. /\ LimitNow' = LimitNow /\ GrantedNow' = GrantedNow /\ used' = used
      /\ ClaimNow' = ClaimNow /\ ChargedNow' = ChargedNow
  BY PlanKept, ClaimKept, ChargedKept DEF ReserveReadPlan
<1>5. Promise!Ask(c, a)
  BY <1>3, <1>4
     DEF Promise!Ask, LimitNow, GrantedNow, QuoteNow, ClaimNow, ChargedNow
<1> QED
  BY <1>5 DEF Promise!Next

\* A transaction that ends without writing forgets its quote, if it has one.
LEMMA ForgetPromise ==
    ASSUME Shape, NEW c \in Clients, Finish(c),
           UNCHANGED <<limit, used, res, consumeIdem, grants>>
    PROVE  Promise!Next
<1>1. QuoteNow' = [QuoteNow EXCEPT ![c] = {}]
  BY DroppedQuote DEF Shape
<1>2. /\ LimitNow' = LimitNow /\ GrantedNow' = GrantedNow
      /\ ClaimNow' = ClaimNow /\ ChargedNow' = ChargedNow
  BY PlanKept, ClaimKept, ChargedKept
<1>3. Promise!Forget(c)
  BY <1>1, <1>2
     DEF Promise!Forget, LimitNow, GrantedNow, QuoteNow, ClaimNow, ChargedNow
<1> QED
  BY <1>3 DEF Promise!Next

LEMMA PromiseStep ==
    /\ Shape /\ Shape' /\ ReservedIsOutstanding /\ OpenHoldsSome
    /\ AdmittedFits /\ [Next]_vars
    => Promise!Next \/ UNCHANGED Promise!vars
<1> SUFFICES ASSUME Shape, Shape', ReservedIsOutstanding, OpenHoldsSome,
                    AdmittedFits, [Next]_vars
             PROVE  Promise!Next \/ UNCHANGED Promise!vars
  OBVIOUS
<1>1. ASSUME UNCHANGED <<limit, grants, used, res, consumeIdem>>,
             \A d \in Clients : Quoted(job'[d]) = Quoted(job[d])
      PROVE  UNCHANGED Promise!vars
  <2>1. /\ LimitNow' = LimitNow /\ GrantedNow' = GrantedNow
        /\ QuoteNow' = QuoteNow
        /\ ClaimNow' = ClaimNow /\ ChargedNow' = ChargedNow
    BY <1>1, PlanKept, QuoteKept, ClaimKept, ChargedKept
  <2> QED
    BY <1>1, <2>1 DEF Promise!vars, LimitNow, GrantedNow, QuoteNow, ClaimNow,
                      ChargedNow
<1>2. ASSUME NEW c \in Clients, NEW a \in Accounts, Call(c, a)
      PROVE  UNCHANGED Promise!vars
  <2>1. \A d \in Clients : Quoted(job'[d]) = Quoted(job[d])
    <3>1. job[c] = Idle /\ \A d \in Clients \ {c} : job'[d] = job[d]
      BY <1>2 DEF Call, ConsumeBegin, ReserveBegin, SettleBegin, ReleaseBegin,
                  Shape, TypeOK
    <3>2. job'[c].op \in {"consume", "reserve", "settle", "release"}
      BY <1>2 DEF Call, ConsumeBegin, ReserveBegin, SettleBegin, ReleaseBegin,
                  Shape, TypeOK
    <3> QED
      BY <3>1, <3>2 DEF Quoted, Idle
  <2>2. UNCHANGED <<limit, grants, used, res, consumeIdem>>
    BY <1>2 DEF Call, ConsumeBegin, ReserveBegin, SettleBegin, ReleaseBegin
  <2> QED
    BY <1>1, <2>1, <2>2
<1>3. ASSUME NEW c \in Clients, Complete(c)
      PROVE  Promise!Next \/ UNCHANGED Promise!vars
  <2>1. CASE ConsumeRefuse(c) \/ ReserveRefuse(c)
    BY <2>1, ForgetPromise DEF ConsumeRefuse, ReserveRefuse
  <2>2. CASE ReserveLock(c)
    <3>1. \A d \in Clients : Quoted(job'[d]) = Quoted(job[d])
      BY <2>2 DEF ReserveLock, Quoted, Idle, Shape, TypeOK
    <3> QED
      BY <1>1, <2>2, <3>1 DEF ReserveLock
  <2>3. CASE ReserveDecide(c)
    <3>1. CASE Available(job[c]) < job[c].n
      BY <2>3, <3>1, ForgetPromise DEF ReserveDecide, Finish
    <3>2. CASE ~(Available(job[c]) < job[c].n)
      <4>1. job[c] \in LockedJobs
        BY <2>3, JobType DEF ReserveDecide, LockedOps, Shape
      <4>2. job' = [job EXCEPT ![c] = [job[c] EXCEPT !.op = "reserveAdmitted"]]
        BY <2>3, <3>2 DEF ReserveDecide
      <4>3. /\ job'[c].op = "reserveAdmitted"
            /\ job'[c].acct = job[c].acct
            /\ job'[c].limit = job[c].limit
            /\ \A d \in Clients \ {c} : job'[d] = job[d]
        BY <4>1, <4>2 DEF LockedJobs, Shape, TypeOK
      <4>4. \A d \in Clients : Quoted(job'[d]) = Quoted(job[d])
        BY <2>3, <4>3 DEF ReserveDecide, Quoted
      <4> QED
        BY <1>1, <2>3, <4>4 DEF ReserveDecide
    <3> QED
      BY <3>1, <3>2
  <2> QED
    BY <1>3, <2>1, <2>2, <2>3, AskPromise, ConsumePromise, ReservePromise,
       SettlePromise, ReleasePromise DEF Complete
<1>4. ASSUME NEW c \in Clients, Abort(c)
      PROVE  Promise!Next
  BY <1>4, ForgetPromise DEF Abort
<1>5. ASSUME NEW a \in Accounts, NEW l \in Limits, NEW m \in Modes,
             PlanChange(a, l, m)
      PROVE  Promise!Next
  BY <1>5, PlanPromise
<1>6. ASSUME NEW a \in Accounts, NEW r \in Refs, NEW n \in GrantAmounts,
             NEW m \in BOOLEAN, Grant(a, r, n, m)
      PROVE  Promise!Next
  BY <1>6, GrantPromise DEF Grant
<1>7. CASE ExpireDueReservations
  BY <1>7, ExpirePromise DEF ExpireDueReservations
<1>8. CASE RefreshWorker
  BY <1>8, GrantPromise DEF RefreshWorker, RefreshPeriodicGrants
<1>9. CASE Tick \/ UNCHANGED vars
  BY <1>1, <1>9 DEF Tick, vars
<1> QED
  BY <1>2, <1>3, <1>4, <1>5, <1>6, <1>7, <1>8, <1>9, RefundPromise DEF Next

\* The quota service, with its tables, row locks, transactions and workers,
\* does nothing an account of capacity with atomic operations would not do:
\* a reservation is granted only if it fits, at the instant it is written,
\* under the limit its caller read in the same call and the grants there
\* are, returns what it holds once, and a charge is made once for its
\* idempotency key.
THEOREM Implements == Spec => ImplementsCapacity
<1>1. Spec => []OpenHoldsSome
  BY ShapeInvariant, OpenInit, OpenStep, PTL DEF Spec
<1> QED
  BY <1>1, ShapeInvariant, ReservedCorrect, FitsInvariant, PromiseInit,
     PromiseStep, PTL DEF Spec, ImplementsCapacity, Promise!Spec
=============================================================================
