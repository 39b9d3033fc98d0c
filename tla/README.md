# Specifications of ploykit

TLA+ specifications of the concurrent core of ploykit, the TLC runs that check
them on small instances, and TLAPS proofs of their safety properties for every
instance. Paths are relative to the root of the repository.

| component | modules | checked by | proved |
|---|---|---|---|
| quota (`quota/`) | `Quota`, refining `Capacity` in `QuotaCapacity` | `MCQuota`: quota_reserve, quota_limits | `QuotaProofs` |
| webhooks (`webhooks/`) | `Webhooks`, refining `DeliveryQueue` in `WebhooksQueue` | `MCWebhooks`: webhooks_races, webhooks_live | `WebhooksProofs` |
| schedule (`schedule/`, `platform/cronx`) | `Schedule` | `MCSchedule`: schedule_scan | `ScheduleProofs` |
| realtime hub (`platform/wsx`) | `Hub` | `MCHub`: hub_pumps | `HubProofs` |
| members of a workspace (`workspace/`) | `Members` | `MCMembers`: members_races, members_owner | `MembersProofs` |
| orders and payments (`billing/`) | `Billing` | `MCBilling`: billing_events | `BillingProofs` |
| engine pool (`platform/renderx`) | `Pool` | `MCPool`: pool_renders | `EngineProofs` |
| engine bridge (`renderx/internal/qjs`) | `Bridge` | `MCBridge`: bridge_slots | `EngineProofs` |
| page cache (`platform/renderx`) | `Pages` | `MCPages`: pages_serve | `PagesProofs` |

To repeat a check, run TLC with the configuration of the run on the `MC` module
of its component; to repeat the proofs, run tlapm on each of the eight `...Proofs`
modules (about 15,400 obligations, some fifteen minutes). All 31 safety properties
that the passing runs check, the two refinements among them, are proved; the
nine liveness properties are out of the prover's reach and are model-checked
only.

## 1. The system

ploykit is a framework for multi-tenant SaaS products: eleven business
domains, two authorization layers and some twenty platform packages over one
PostgreSQL database. A deployment runs one or more replicas of the same
process. Each replica serves HTTP and WebSocket requests and runs a set of
background workers on tickers. Replicas share nothing but the database (and a
redis channel for realtime frames), so what makes the system correct is how
statements and transactions of several replicas interleave: unique indexes,
row locks, `SKIP LOCKED`, conditional updates, and what a process still
remembers of a row it read earlier.

### Inventory

| component | state | operations | what is hard | what must hold |
|---|---|---|---|---|
| quota | counters per workspace, key and month; reservations; grants; idempotency rows | Consume, ConsumeWith, Release, Reserve, Settle, ReleaseReservation, Grant, GrantPeriodic; expiry and refresh workers | reservers racing for the last unit, plans changing under a charge, settle, release and expiry on one reservation, ends of months, crashed callers | `reserved` is what open reservations hold, `used` is a ledger, no oversell, closed stays closed, nothing is held for ever |
| webhooks | subscriptions, delivery rows | subscribe, pause, delete, emit, ping, redeliver; delivery worker (claim, POST, mark, dead-letter, auto-disable) | claims without a lease, outcomes in the wrong order, two-statement marks, crashes in a batch | dead only for cause, delivered only if acknowledged, dead letters reported, no delivery pending for ever |
| schedule | plans with `next_fire_at`; River jobs | create, update, delete; scanner (select, claim, enqueue); fire worker | claims against a stale candidate, read-modify-write edits, plans that stop parsing, crash between claim and enqueue | one claim per fire, `next_fire_at` follows the cron, accepted fires get a job, no plan stays due |
| wsx | rooms, connections with two pumps, queues, memories of event ids | connect, auth, subscribe, unsubscribe, broadcast, evict | two pumps and broadcasters on one client, callbacks outside the lock, full queues | members are live connections, counters and callbacks balance, one copy of an event, no silent loss |
| relayx | queues of frames between replicas | publish, run, forward | loops, lost frames | a frame reaches each replica at most once |
| workspace | workspaces, members, invitations, share links, role configuration | invite, accept, redeem, remove, leave, transfer, delete | last owner leaving while a transfer completes, an invitation or the last use of a link taken twice, deletion against joins | never two owners, never none, nobody in without a valid entry |
| billing | plans, subscriptions, orders, webhook inbox, channel configuration, meters | checkout, webhook events, cancel, renewals, expiry workers | events late, repeated and out of order, handled statement by statement; crashes between statements | one handler per event, rights only of paid orders, a payment gives its plan |
| identity | users, sessions, codes, tokens, factors | register, log in, refresh, revoke, step up, impersonate | a code used twice, a revoked session refreshed | codes and challenges are used once, revocation wins |
| events, workers | River jobs; registry of workers | emit in a transaction, dispatch; start, drain | emit and rollback, drain and panic | an event is dispatched if and only if its transaction commits |
| authz, authorization | none: decisions over roles, scopes and a catalog | decide | order of stages | deny before challenge before allow |
| pg | pools, circuit breaker of the replica | Within, Read | half-open probes | one probe at a time |
| renderx engine pool | engines, the channel of idle ones, their goroutines | render, watchdog, kill, replace, close | a caller that leaves, a trap against the watchdog, close against everything | one holder per engine, capacity kept, accepted callers return |
| renderx bridge | table of value slots, string arena of one engine | eval, host call, throw, free | errors on every path, nested calls, full table, arena wrapping | each slot has one owner, nothing overwritten before it is read |
| renderx page cache | memory and disk layers, embedded snapshots and tombstones, poison list | serve, invalidate, refresh | an invalidation during a render, two layers written one after the other, shared renders, restarts | after an Invalidate nothing older but what was in somebody's hands or revived by a restart, nothing outdated for longer than the TTL |
| settings | settings and their cache | get, set | a cache that misses a change | a value set is read in the end |
| notify, audit, analytics, legal, provisioning | rows written by single statements; partitions | append, list, retire | little | |
| admin | none of its own | calls the other domains | | |
| webx, redisx, egressx, sealx, storagex, whsign, metrics, logs, ids, cronx, pgmigrate, pgpart, mcpx, devx | middleware, I/O, cryptography, tooling | | | |
| frontend, example, tools | TypeScript, demonstration, repository checks | | | |

How they interact: request handlers call a domain's service; domains call
each other only through closures and hooks wired by the product; a domain
hands work to background workers through its tables (quota, webhooks) or
through River (schedule, events); billing changes the plan that quota reads;
events reach webhooks (`EmitForEvent`) and the hub (`BroadcastEvent`), and the
hub reaches other replicas through relayx.

`PROJECT.json` lists every component with its status, and the hazards of the
modelled ones at the lines where they bite.

## 2. Conventions

* A step is what the database or the runtime makes indivisible: one SQL
  statement, one transaction where its row locks make its statements
  indivisible, one section under a mutex, one exchange over the network.
  Whatever a process has read and not used yet is kept in its job (`job`,
  `scan`, `edit`, `cast`, `reader`, `req`, `proc`), so that other steps come in between.
* A transaction that is rolled back leaves no trace: the states within it are
  modelled only where another transaction can see its locks.
* Variables marked *history* are not in the code. They record what a property
  has to remember (who acknowledged, how often an event was queued) and no
  guard reads them, except for bounds.
* Every bound is a CONSTANT (`MaxTime`, `MaxUsed`, `MaxCrashes`, ...) and is
  named in the module.
* Each module states a type invariant, `TypeOK` (`BridgeTypeOK` in `Bridge`, whose names
  differ from those of `Pool` because `EngineProofs` extends both). It is proved in
  every module, and is the first conjunct of the inductive invariants (`IInv` in
  most of the `...Proofs` modules); the runs check that of `Quota`.
* A `...Proofs` module holds the inductive invariant of its component, a lemma for
  each action or each part of the invariant, and the theorems at its end. Before
  it was proved, each inductive invariant was checked by TLC on the run of its
  component. The theorems hold for every value of the constants that the
  assumptions of the component's module admit, the bounds included. What speaks
  of fairness is model-checked only: liveness and ENABLED are out of the prover's
  reach.
* Operators whose comment says *mutant*, and those placed before a definition
  under a related name (`RowNotLocked`, `ExhaustedOneEarly`, `UniqueByPlan`),
  are plausible mistakes in the code they stand for. No specification uses
  them: each one, put in place of the definition it accompanies, makes TLC
  find the property it is paired with in `PROJECT.json` violated, which shows
  that the property depends on that code.

## 3. Quota

### Correspondence

| module | code |
|---|---|
| `used`, `reserved` | table `quota_counter`; an account is a (workspace, key) pair |
| `res`, `grants`, `consumeIdem` | tables `quota_reservation`, `quota_grant`, `quota_consume_idem` |
| `limit`, `mode`, `PlanChange` | the workspace's plan, changed by billing or an administrator |
| `ConsumeBegin` / `ConsumeApply`, `ConsumeRefuse` | `consume` reads the plan outside the transaction, then `consumeIdem` and `consumeOnce` charge with a conditional upsert |
| `ReserveBegin` / `ReserveLock` / `ReserveReadPlan` / `ReserveDecide` / `ReserveCommit`, `ReserveRefuse` | `Reserve` looks the key up; `reserveTx` locks the counter by an upsert and looks again; reads the plan; sums the grants and decides; adds to the counter, inserts and commits |
| `SettleBegin` / `SettleCommit`, `ReleaseBegin` / `ReleaseCommit` | the `FOR UPDATE` of the reservation, then the counter, the row and the commit |
| `Expire` | `ExpireDueReservations`: a batch with `SKIP LOCKED` and one grouped update of the counters |
| `Grant`, `RefreshPeriodicGrants` | `Grant`, `GrantTx`, `GrantPeriodic`; the hourly refresh, whose derived rows carry `ref_id#period` |
| `Refund` | `Release`, the compensating decrement |
| `Abort` | a failed statement or a lost connection: rollback |

`CounterLocked` and `RowLocked` are the row locks, derived from the
transactions in flight. `Calendar` maps an instant to its month.

### Runs

* **quota_reserve** (441 thousand states): one account, two callers, two
  reservation keys of amount 2, partial, full and excessive releases with two
  call keys, settlements, consumption with one idempotency key, refunds, a plan
  that moves between a limit of 1 and of 2 at any moment, and batches of two.
  The two instants are in two months, and a lifetime is shorter than one: a
  reservation is under way or open when its month ends, the worker may find it
  due in either, and the two callers can reserve one key on both sides of the
  end, so that `ReserveRefuse` is reached. Two callers and the expiry worker make
  three parties on one row, the most its lock can order differently; two keys
  let a batch hold two rows of one counter, or of two months. The same run
  checks the refinement below.
* **quota_limits** (349 thousand states, without symmetry): plans move between no
  limit and a limit of 1, hard and soft, while two callers consume and reserve
  and grants are added and refreshed across the end of a month; liveness, see
  below.

`ReservedIsOutstanding` is the property that matters most: the code subtracts
with `GREATEST(0, ...)`, so a capacity returned twice would leave no error and
no negative number. `NoOversell` is stated against `peak`, the highest limit
ever in force, because lowering a plan below what is used is legal, and with
`overage`, because soft limits and settlements above the reservation are.

### The promise

`Capacity` says what a product may rely on, without tables, locks and
transactions: a reservation is granted in one step, only if at that instant
consumption, what the *open reservations* withhold and it fit under the grants
and a plan limit its caller was quoted (`Ask`); it is given back in parts,
settled or expired once; a key is charged once. `QuotaCapacity` maps the tables
to it (`Claim`: a reservation holds what is outstanding while its status is
`reserved`; `Quoted`: the limit `reserveTx` has read and not yet used) and
quota_reserve checks `ImplementsCapacity`. The point of it: `reserveTx` compares
the cached columns `used` and `reserved` that it read under its lock, and the
promise speaks of the reservations themselves, at the commit.

The quote is there because the promise cannot be stronger: `reserveTx` reads the
plan and the grants by two statements at READ COMMITTED
(`quota/reservation.go:167` and `:175`), commits at `:216`, and nothing locks the
plan or the workspace. A plan that is lowered in between does not stop the
reservation, which is then open above the limit in force; a promise that compares
with the limit at the commit is violated by the code. The grants make no such
difference, since none is ever withdrawn.

One behaviour that the promise leaves open: a reservation that outlives its
month is settled, released or expired on the row of a month that is over, while
`docs/ROADMAP.md:64` says that counter rows "freeze once a period ends". A
product that takes a closed month as final would read a number that can change.

### Fairness

`FairSpec` assumes that a transaction ends (completes or is aborted), that the
clock goes on to its bound, and that the workers' tickers go on
(`quota/adapters/workers`). Expiry needs strong fairness per reservation: with
`SKIP LOCKED` a round passes over a row a caller has locked, and the
assumption is that no caller has it locked on every round. Under it
`EventuallyClosed` (a caller that dies after Reserve does not hold capacity
for ever) and `EventuallyRefreshed` (a monthly grant reaches the last month).

### Proofs

`QuotaProofs` proves for any accounts, callers, keys, limits, amounts, calendar
and bounds, from the assumptions named in `Quota` (finite sets of keys,
amounts bounded by `MaxAmount`, a calendar that does not go back):

1. `TypeCorrect` and `ReadsStayCurrent`, from the inductive invariant
   `Shape == TypeOK /\ RowShape /\ ReadsAreCurrent /\ LimitsSeen`. `TypeOK` is
   not inductive alone: `reserved` and `released` stay natural numbers within
   their bounds only because a release is limited to what is outstanding
   (`RowShape`), and what Settle and ReleaseReservation subtract was read
   under the lock of the row (`ReadsAreCurrent`). `LimitsSeen` bounds the limits
   that consumers and reservers have read by `peak`. `ShapeStep` has one lemma per action.
2. `ReservedCorrect`: given `Shape`, each action changes the column and the
   sum over the reservations by the same amount (`ReservedStep`). The closing
   transactions share `ClosingReserved`; an expiry, which changes many rows at
   once, is `ExpireReserved`.
3. `NeverOversold`: given both and `AdmittedFits` (what `reserveTx` has admitted
   still fits under the limit it read: the counter is locked and grants only
   arrive, `FitsInvariant`), `OversellStep`. A settlement is the interesting
   case: what it adds to `used` beyond what it takes from `reserved` is exactly
   what it adds to `overage`.
4. `LedgerBalances`: the same way, each action changes `used` and one part of the
   ledger by the same amount. A consumption that replays its key changes neither;
   a settlement charges a reservation that had settled nothing before, which is
   known from the row it read under its lock.
5. `GrantedOnce`, from the invariant `DerivedRows`: a derived row credits the period
   in its name, and its template credits another one. Without the second half
   the refresh could credit the month of the grant itself.
6. `NeverReopened`, an action property: the transactions that close a reservation
   read it open under its lock (`ReadsAreCurrent`), and an expiry takes open rows
   that nobody has locked.
7. `Implements`: `Spec => ImplementsCapacity`. The counter that `reserveTx` compares
   equals what the promise sums over the reservations (`ReservedCorrect`), so a
   commit that the code admits (`AdmittedFits`) is a step that the promise admits;
   the read of the plan is `Ask`, a transaction that ends without writing is
   `Forget`, and every other action is a step of `Capacity` or a stutter. `OpenHoldsSome` (an open reservation
   holds something) is needed for the last release: without it a release that
   returns nothing and closes the row would map to no step.

A sum over rows is written as the number of pairs of a row and one of its
units (`Total`), so that sums of any size are handled by the theorems about
cardinality; `TotalSplit` and `TotalUpdate` are the lemmas everything rests
on. `MCQuota` checks by an assumption that this is the ordinary sum.

Only model-checked: the two liveness properties.

### Left out

The hooks (`OnExhausted`, `OnGrant`, `OnNearLimit`, `OnReservationExpired`), which
run after the fact and whose errors are only logged; the read-only summaries
and routes; the width of integers: no limit is the number 2^62, to which
grants would have to add another 2^62 to overflow. Two expiry batches that lock
counters in different orders can deadlock in PostgreSQL, which aborts one: an
expiry is a single step here, so only the abort is visible.

## 4. Webhooks

### Correspondence

| module | code |
|---|---|
| `sub`, `row` | tables `webhook_subscription`, `webhook_delivery`; the foreign key is `ON DELETE SET NULL`, the partial unique index is `Conflicts` |
| `CreateSubscription` ... `AdminRedeliver` | the calls of `Service` and its repository of the same names |
| `FinalizeOrphans`, `ClaimLock`, `ClaimCommit` | the two statements of `ClaimPending`; the second holds its locks between the last two |
| `Deliver` | `deliverOne` up to the answer, with what `Verdicts` makes of it |
| `Mark`, `MarkConflict`, `Stamp` | `MarkDelivered` and `MarkRetry`: the delivery row, then `first_failure_at` |
| `Check`, `AutoDisable` | the hook and `maybeAutoDisable` |
| `StatementFails`, `Crash` | a failed statement (logged, and the worker goes on) and the end of a process |

An attempt comes out as `ok` (2xx), `fail` (transport error or another status),
`abort` and `rejected` (the hook or the egress guard refuses for good) or
`unsealed` (the secret cannot be opened: retried).

### Runs

* **webhooks_races** (1.4 million states, symmetric workers and deliveries): two
  workers, one row at a time, two deliveries of one subscription, one rung (two
  attempts, the second is the last), one failed statement. Two workers on one row
  are what a claim without a lease allows; the second delivery is the copy that
  `Redeliver` makes, which a late retry of the first then meets
  (`MarkConflict`). `DeadIsReported` and `WindowSpansNoSuccess` excuse what a
  lost statement takes away. The same run checks the refinement below.
* **webhooks_live** (391 thousand states): the same workers with one delivery, all
  ends of an attempt, one crash and one failed statement. `DeadForCause`, and
  `EventuallySettled` under fairness. Whether a delivery can be held up by another
  is not checked: with two and all faults there are 7.5 million states, too many
  for a temporal property.

Attempts saturate after the last rung.

### The promise

`DeliveryQueue` says what a subscriber may rely on, without workers, clock and
locks: an event waits for a subscription once; it is tried before anything is
recorded of it; it is recorded as delivered only if the subscriber has
acknowledged it by then, and given up only if it was refused for good, its tries
are used up or its subscription is gone. `WebhooksQueue` maps a row to an entry
by leaving out the time of its next attempt, and webhooks_races checks
`ImplementsQueue`. The point of it: `MarkDelivered` and `MarkRetry` write by the
id of the row and ask nothing about its status, long after `ClaimPending` has given its
lock up, and what they write is justified all the same at the instant they
write it. The promise is as weak as the code makes it in two places. `Retry` may
follow `Deliver` and `GiveUp`, because the mark of a slow worker comes last; and
`Try` counts several tries of one entry before the first answer.

Observations without a run:

* ADR 0001 (`docs/adr/0001-async-substrate-positioning.md:37`) names `ClaimPending`
  as the example of a loop that `SKIP LOCKED` makes safe for several replicas.
  The claim leaves the row pending and due and its lock ends with the statement
  (`webhooks/adapters/pgrepo/repo.go:166`), so that two replicas have the same
  delivery in hand after three of their steps. At-least-once delivery allows
  it; the invariants show what remains true in spite of it.
* The status of a delivery is not final: a late `MarkRetry` of a second replica
  turns a delivered row back into a pending one, and a late `MarkDelivered` turns
  a dead one into a delivered one.
* `webhooks/doc.go:28` calls `X-Delivery-Id` a per-attempt id that retries mint
  anew; `webhooks/app/service.go:312` sends the id of the row, which all attempts
  share.
* Between the `Check` and the `AutoDisable` of one worker a success of the same
  subscription may be recorded, and the subscription is disabled all the same.

### Fairness

Weak fairness of each worker's loop: `DeliveryWorker.Run` calls `DeliverPending`
on a ticker as long as the process lives, and a crashed worker is started
again by its supervisor. `EventuallySettled` excuses a paused subscription, whose
deliveries the code means to leave pending.

### Proofs

`WebhooksProofs` proves for any number of workers,
subscriptions, rows and faults and any ladder: `GivenUpForCause` (`DeadForCause`),
`DeadLettersReported` (`DeadIsReported`), `NothingDeliveredUnseen`
(`DeliveredWasAcked`, which the refinement implies and no run repeats) and
`WindowIsHonest` (`WindowSpansNoSuccess`). They have one
inductive invariant, in which `Backed` and `Judged` say what a worker may still
believe of a row it claimed some steps ago, now that its lock is gone: the row
exists and has counted at least the attempts of the claim, and the worker's
verdict rests on an acknowledgement, a refusal or a ladder used up. Neither says
what the row's status is, because another worker may have written it: that these
two suffice is what makes the claim without a lease safe. `Attached` keeps
`first_failure_at` and the subscriptions of rows in order.

`Implements` (`ImplementsQueue`) proves the refinement action by action (`QueueStep`).
Two more invariants carry it. `UniqueIn(row)` is the partial unique index as a
fact about the whole table: emit, ping, redelivery and a late retry, the four
writers of a pending row, each keep it by its own test. `Named` says that the
event of a ping (a fresh id in the code, the id of the ping's row in the model) is,
in the ping and in every copy of it, the id of a row that exists, so that the next
ping is about something new. The case
with the most to say is the claim: the rows under its lock are still pending
and still have a subscription when it counts their attempts (`ClaimTries`), which
is a part of `Backed`. Only model-checked: `EventuallySettled`.

### Left out

Secrets, their rotation and signatures; the HTTP routes and listings; several
workspaces (no statement of the queue crosses them); retention.

## 5. Schedule

### Correspondence

| module | code |
|---|---|
| `plan` | table `schedule_plan`; a cron is a period and a phase (`Fires`), one with period 0 matches no date |
| `Create`, `Delete`, `UpdateRead`, `UpdateCompute`, `UpdateWrite` | `Service`; `Update` reads the plan, computes the next fire with the clock it reads then, and writes the whole row later |
| `Begin` | `ScanOnce` reads the clock, once for the whole scan |
| `Select`, `ClaimPlan`, `PenalisePlan` | `ClaimDue`: the candidates, then one conditional update for each |
| `PlanFires`, `Fire` | the misfire policy and the insert of a River job, unique by its arguments |
| `Work` | `FireWorker.Work` |
| `ClaimFails`, `FireFails`, `Crash`, `Spoil` | a failed statement, a failed insert, the end of a process, and a row whose time zone or cron no longer parses |

A tick is a minute, the resolution of a cron. The clock goes on whatever is
under way: any step of a scan or of an edit may come minutes after the one
before. River is external: jobs with equal arguments are inserted once and
every job runs.

### Runs

* **schedule_scan** (1.16 million states): one plan, two scanners, one editor with
  one update, one fault, three ticks; a cron that fires on every tick, one that
  fires on every other, so that a reschedule moves the next fire either way, and
  one that matches no date. Three ticks are enough for the races at the minute
  boundary: a plan created at 1 is due at 2, a scan begun at 2 and one begun at
  3 both hold that fire, and an update computed at 1 can be written when it is
  over.

What the code does at those boundaries is less than ADR 0001 (Decision 3) says.
There a plan is claimed "only if the `next` column still equals the enumerated
snapshot value", so that "a concurrent reschedule (PATCH cron) cannot be swallowed
by the claim". The statement asks whether the row is due at the time of the scan
(`schedule/pgrepo.go:154`). The properties say what is left of the promise, and
their comments say what is not:

* `OneClaimPerFire`: of the scans that begin before the next fire one claims, also
  when they end long after it. A scan that began later may claim the plan as well
  and then reports the due it has read: River drops the job as a duplicate and
  the newer fire never happens. Without that proviso TLC finds the second claim.
* `NextMatchesCron` leaves out the plans in `late`: those of which an insert or an
  update wrote a next fire that was over by then (`InTime` is the exact test; an
  update that puts back the cron and the next fire the row has is in time). A
  scan that read the old cron finds such a row due and writes the old cron's next
  fire into it, so the reschedule is swallowed for one fire. Without the
  exception TLC finds that run, in nine states: read, compute, tick, scan, write,
  claim.
* A cron such as `0 0 30 2 *` parses, matches no date, and its next fire is Go's
  zero time (`platform/cronx/cronx.go:28`); the plan is due for ever and claimed
  by every scan. `platform/cronx/cronx_test.go` requires the next fire to be
  later than the instant it is asked of. Such a plan is in `late` from its first
  row on, and `EventuallyServed` leaves out rows with the zero time.

Fairness is that of the scanners' tickers and of the clock. `EventuallyServed` says
that no plan stays due for ever; it would fail without the penalty for rows that
do not parse. With one plan the run does not show such a row in front of others
in a full batch.

A fire is lost when its insert fails or a process dies between claim and insert:
the code accepts that, and `accepted`, of which `NoFireLost` speaks, then drops it.
A claim that fails ends the batch (`ClaimFails`) and loses nothing. In the run a
batch has one plan; batches of any size are left to the proof.

### Proofs

`ScheduleProofs` proves for any plans, scanners, updates, crons, batch, grace and
penalty, and without any assumption on how long scans and updates take:

* `NothingLost` (`NoFireLost`), from `AcceptedAreOwed`: a fire that was claimed and is
  let through by the misfire policy has its job, or is in the list of the scanner
  that claimed it, with what is needed for the insert.
* `ClaimedOnce` (`OneClaimPerFire`) and `NextIsOfItsCron` (`NextMatchesCron`).

The last two rest on `Coherent`. `OneClaimPerFire` needs `ClaimedIsPast`, that the
next fire of a plan is never before one that a claim wrote, and `CandidatesAgree`:
a scan that holds a plan with another cron than the row's began before the row's
next fire (`ScansArePast`), so that the conditional update does not find the row.
An update that is written in time keeps this, since it moves the plan past every
scan under way; `EditsAreSound` says what it may write. That the next fire exists
and is later is arithmetic on remainders (`Division`, `FireExists`). Only
model-checked: `EventuallyServed`.

## 6. Realtime hub

### Correspondence

| module | code |
|---|---|
| `rooms`, `scopes`, `conns`, `dropped` | `Hub.rooms`, `client.scopes`, `Hub.conns`, `client.dropped` |
| `send`, `dedup` | the channel `client.send` (how full it is) and `client.dedupOrder` |
| `reader`, `writer` | `ServeWS` and `readPump`; `writePump` |
| `Ask`, `Accept`, `Reject`, `Reply`, `AnswerAtOnce`, `Unsubscribe` | `handleControl`, with the product's answer (`Authorize`, `WorkspaceMember`, `PATResolve`) as a step of its own |
| `drop`, `Callback`, `ReaderDropped`, `WriterDropped` | `drop`: the swap and the rooms, the callbacks outside the lock, the counter |
| `Broadcast`, `Remember`, `Queue` | `broadcastLocal` and the two halves of `deliver` |
| `Break` | the peer leaves, the network fails, a deadline passes |

A repeated `Broadcast` of one event stands for a second room, a retry and the
copy that comes over the relay.

### Runs

* **hub_pumps** (1.4 million states, symmetric clients): two connections, one
  topic and the user's room, a queue of one frame, a memory of one event, one
  broadcaster. Two connections make rooms that fill and empty in turn; a queue
  of one overflows at once.

Observation without a run: `join` does not look at `dropped`
(`platform/wsx/hub.go:183`). While the read pump waits for the product's answer to a
subscribe, the write pump may notice the broken connection and drop the client; the
join that follows puts the client back, and the drop of the read pump does
nothing. The room never empties again, `OnUnsubscribe` is not called, and
broadcasts go on to the client, although `platform/wsx/hub_test.go:534` expects
an evicted connection to leave. `ConnsCounted` and `CallbacksBalance` are stated so
that they hold all the same.

`CHECK_DEADLOCK FALSE`: every connection is made once, and the hub is at rest when
all have ended. There is no liveness property yet; the gauge of connections,
which two drops may set in the wrong order, is a metric and left out.

### Proofs

`HubProofs` proves for any finite number of clients and events, any rooms,
broadcasters, queue and memory: `CounterIsRight` (`ConnsCounted`), `CallbacksAddUp`
(`CallbacksBalance`), `OneCopy` (`OneCopyPerEvent`) and `NothingLostSilently`
(`RememberedIsQueued`). The counter and the balance are equations between a number
and the size of a set (the open connections, the callbacks still to be made), so
each step is a lemma about what one goroutine adds to or takes from that set.
They are inductive only with `Wired`, which ties the program counters of the two
pumps to `dropped`: of two pumps in `drop` one does the work, and a pump that is
about to collect callbacks owes none. `OneCopyPerEvent` needs `Copied`: an event in a
client's queue is in its memory, and one broadcaster at most is between the two
halves of `deliver` for it. As the property says, this holds while the memory
has room for all events (`Roomy`); beyond that `dedupDepth` forgets, and the code
accepts a second copy. Finiteness is assumed because the counter counts.

## 7. Members

### Correspondence

| module | code |
|---|---|
| `member`, `row`, `invitation`, `link`, `alive` | tables `member`, `workspace_invitation`, `workspace_share_link`, `workspace` |
| `Update`, `Updated` | `UpdateMemberRole`, `RemoveMember`, `Leave`: an UPDATE with the sub-select of `lastOwnerGuardSQL`; the snapshot, then the write |
| `Transfer`, `Promote`, `Demote` | `TransferOwnership`, `TransferOwnershipTx`: two statements of a transaction |
| `Invite`, `Answer`, `Accept`, `Inserted`, `Accepted` | an invitation, and `AcceptInvitationTx`, whose UPDATE of the invitation keeps the row locked to the end of the transaction |
| `CreateLink`, `CloseLink`, `Redeem`, `Redeemed` | share links and `RedeemShareLinkTx`, which reads the link `FOR UPDATE` |
| `Delete`, `Cascade`, `Deadlocked` | `DeleteWorkspaceCascade`, one DELETE of the workspace, whose foreign keys then delete the rows that refer to it |
| `Rollback` | a failed statement, a lost connection, a deadlock that PostgreSQL broke |

At READ COMMITTED an UPDATE that waited for a row checks its condition on the new
version of the row, while a sub-select keeps reading the snapshot of the
statement: the module turns on this.

### Runs

* **members_races** (103 thousand states): three users, two requests at a time,
  one invitation and one link with one use. Three users let two transfers start
  from one owner towards different members; more requests only add statements
  that wait for the same rows. `AtMostOneOwner`, `EntriesAuthorized` and, under
  fairness, `RequestsReturn`.
* **members_owner**: the sub-select of the last-owner guard reads an old snapshot,
  so that a removal that waited for the row that a transfer promotes removes
  the only owner.

Fairness: a request goes on when it can (strong, because a row lock that is
taken and released again and again is granted in the order of arrival), and
PostgreSQL breaks a deadlock. That the deletion and a join do not wait for each
other for ever is therefore an assumption about PostgreSQL; what
`RequestsReturn` shows is that no other wait of the model needs it.

An observation: the unique index on pending invitations (migration 021) does
not look at `expires_at`, while `HasPendingInvitation` does; an invitation that
has expired unanswered bars a new one and is no longer listed to be revoked.

### Proofs

`MembersProofs` proves `OneOwner` (`AtMostOneOwner`) and `JoinsAuthorized`
(`EntriesAuthorized`) for any users, requests, invitations, links and `MaxUses`. Of all
statements only the second of a transfer makes an owner, and it makes one of the
user it promotes in the same step in which it takes the role from the one there
is; if that owner is gone it writes nothing (`SoleOwnerStep`). `EntriesAuthorized`
counts entries and needs `LocksHold`: a request that has locked an invitation or a
link finds it pending, or with a use left, when it commits, and no other request
has it locked. That a workspace is never without an owner is what members_owner
refutes. Only model-checked: `RequestsReturn`.

### Left out

Names, the cap on created workspaces, personal workspaces and their
provisioning, the configuration of roles.

## 8. Billing

### Correspondence

| module | code |
|---|---|
| `order`, `event` | tables of orders and of payment events (the inbox) |
| `plan`, `subscription`, `period`, `cancelRequested` | columns of `workspace` |
| `Receive` | `HandleWebhook` and `InsertPaymentEvent`: handled again only if the row is in `error` |
| `Status` ... `Mark` | the statements of `handlePaid`, `handleFailed`, `handleRefund`, `handleRenewed`, `handleCanceled`, each committed on its own |
| `Cancel`, `Request` | `UserCancelSubscription` and the administrator's |
| `ExpireOrder`, `ExpireWorkspace` | the two sweepers |
| `Fail`, `Crash` | a statement fails and the event is marked `error`; the process dies |
| `Pay`, `Reported` | the channel (external): it takes money whatever became of the order, and reports in any order |

### Runs

* **billing_events** (1.1 million states): one order, all five kinds of event, two
  requests at a time, one failed statement or one crash. Two requests are enough
  for every race between two handlers, a handler and a person, or a handler and a
  sweeper. `PaidIsGranted` excuses a crash, and must (below).

Fairness: a request goes on, and the channel delivers a payment again until it is
acknowledged (every channel does, for days).

Observations without a run:

* `handleRefund` marks the order refunded in one statement and takes the plan back
  in the next (`billing/app/service.go:372`). If the second fails once, the repeated
  delivery finds the order refunded, stops, and the plan is kept;
  `billing/app/service_bq_test.go:173` assumes that the first delivery has taken it
  back.
* A process that dies while it handles a payment leaves the event `received`
  (`billing/adapters/pgrepo/repo.go:255`); its deliveries are then taken for
  duplicates and the order never gives its plan, although
  `docs/plan-upstream-shuijing-admin-billing.md:279` relies on the replay.
* A refund handled between the status and the plan of the same payment leaves
  the plan given after it was taken back.
* `SetWorkspaceSubscription` does not look at what is there, so a renewal racing
  a cancellation brings the subscription back; `ExpireDueWorkspaces` leaves
  `subscription_ref` in place; a request to cancel that lands after the sweep
  stays set.
* A failed attempt makes an order `failed`, and the payment that succeeds at the
  next attempt of the same session is ignored (`service.go:270`).

### Proofs

`BillingProofs` proves for any orders, events, requests and number of faults:
`HandledOnce` (`OneHandler`), `OnlyPaidRights` (`RightsWerePaid`) and `Final`
(`FinalStaysFinal`). The first two are inductive with `Handling` and
`GivesWhatWasPaid`. `Handling` says that a request is at a statement that its kind of
event reaches and that its event is marked `received`, which is all that keeps a
second delivery out (`InsertPaymentEvent` takes a row again only in `error`).
`GivesWhatWasPaid` says that a request about to write the plan or the subscription
has seen its order paid, some committed statements ago; it is stable because
no statement makes a paid order anything but refunded. `RightsWerePaid` accordingly
admits a refunded order, which the observations above need. `Final` looks at
every statement that writes the status of an order. Only model-checked:
`PaidIsGranted`.

### Left out

Amounts and their reconciliation (events carry the right amount), manual and
overage orders, refused checkouts, the catalog and the channels.

## 9. Engine pool

### Correspondence

| module | code (`platform/renderx/engine.go`) |
|---|---|
| `instances`, `idle`, `closed` | the fields of `EnginePool` |
| `dead`, `killed`, `runner` | the flag, the channel `deadCh` and the goroutine of an `engineInstance` |
| `Acquire` ... `Push` | `acquire`, `ask`, `release`, a select at a time |
| `Answered`, `Finish`, `Trap`, `Retire`, `Exit` | `handle` and `run` |
| `Kill`, `Check`, `Install`, `Discard`, `Shrink` | `killInstance` and `replaceInstance` |
| `Close`, `CloseNext`, `CloseKill` | `Close` |

**pool_renders**: two callers, one of whom may leave at any time, one engine, up to
three engines built, two faults (slow renders and traps). One engine with two
callers contends for everything; three builds allow a kill, a retirement and a
replacement of each. `OneHolder`, `CapacityKept`, and under weak fairness of the
goroutines `AcceptedReturns`, `HandedOver` and `CloseReturns`. A slow render need not
end: only the watchdog's timer frees its caller.

Observations without a run:

* The watchdog's timer belongs to the caller. When that caller's context ends
  first, the instance goes back to `idle` while it renders, and the next caller
  blocks in `ask` at `inst.reqs <- req` before any timer exists (`engine.go:469`),
  although `docs/rendering.md:460` says that a wedged instance is reclaimed
  without blocking the pool.
* `handle` answers before it marks the instance dead (`engine.go:396`), so that a
  dead instance may reach `idle`; with the replacement the channel is over its
  capacity and a `release` waits for a checkout or for `Close`.
* Of two calls of `replaceInstance` for one slot the second builds an engine and
  drops it without closing it.

`CHECK_DEADLOCK FALSE`: after `Close` everything has stopped.

### Proofs

`EngineProofs` proves `InOnePlace` (`OneHolder`) and `SlotsKept` (`CapacityKept`) for any
callers, size of the pool and number of faults. `OneHolder` counts the places of
an engine; the proof says it without counting (`OnePlace`: no two processes
hold one engine, no engine is twice in the channel or there and held, and a live
one is somewhere) and turns it into the number at the end. It is inductive with
`Known` (nothing refers to an engine before it is built), `Replacing` (whoever
replaces an engine has found it dead) and `Listening` (the goroutine answers only
the caller that waits for it, so that an answer finds its caller still there).

The number of engines built is a bound of the model, and `TypeCorrect` shows that it
is never in the way: `Afforded` charges every engine built beyond the first ones to
a slow render or a trap of the engine it replaces, so that
`MaxBuilt >= Size + MaxFaults` engines are enough. Without that, a guard of the model
could hide a replacement that the code would make. `PoolAssumption` also says that
callers are not named like the pairs that stand for replacements. Only
model-checked: `AcceptedReturns`, `HandedOver`, `CloseReturns`.

## 10. Engine bridge

The WebAssembly module of QuickJS knows 65,536 slots that keep JavaScript values
alive for Go, and an arena of 8 MB for the strings Go hands over. `Bridge` models
both as `csrc/bridge.c` does (`Store`, `Load`, `FreeValue`, `Place`), with the calls that
a render makes on them: `WriteCode`, `WriteName`, `Eval` and the result
(`quickjs.go`, `EvalToString`), `CallGo` and `ReturnGo` (`go_callback_wrapper` and the
wrapper that `Function` installs), `Replace` (the pool closes the instance).

**bridge_slots** (143 thousand states): eleven slots, of which four are permanent,
and an arena of five units with scripts of 1, 3, 4 and 6. Two nested host calls
of up to two arguments fill the table within one render, and errors thrown fill
it in several; scripts are smaller than the arena, as large as it less the file
name, and too large. The arena pointer starts anywhere.

What the properties show, and what they leave:

* `SlotsAccounted`: each error that the host function throws loses one slot for
  good (`quickjs.go:331` frees undefined results only); nothing else does.
* `OverflowIsReported` needs the premise that the table has had room. Once an
  instance has lost its 65,531 slots, an error finds no slot, the script sees
  undefined instead, and a render whose directives were cut off answers with a
  page, against `docs/rendering.md:476`. A result without a slot reads as the
  string `undefined`, and every render fails to parse; the instance is not
  retired for it.
* `ArenaIntact` needs the premise that a script leaves room for two file names:
  one that fills the arena has its head overwritten by its file name, since
  `arena_alloc` (`bridge.c:109`) starts again at the beginning and assumes that
  what was there is no longer needed.

### Proofs

`EngineProofs`, which holds the proofs about the pool, also proves the four theorems
about `Bridge`, from `BridgeAssumption` alone and so for any sizes of the table and of the
arena, any number of arguments and any depth of host calls: `BridgeTypeCorrect`,
`EverySlotAccounted` (`SlotsAccounted`), `StringsApart` (`ArenaIntact`) and `OverflowReaches`
(`OverflowIsReported`). The inductive invariant `BridgeInv` has five parts.

* `BridgeTypeOK`.
* `Written`: strings are in the arena only between the calls that write them and
  the one that reads them, the arena pointer is just behind the script when the
  name is written, and no host call is in progress that could move it. When the
  file name does not fit behind the script, it starts at the beginning, and the
  script begins far enough from there if it leaves room for two names
  (`Allocated`).
* `Phases`: there is a result only between `qjs_eval` and its being read, and an error
  is unwinding only while the script runs.
* `Accounted`: the handles in use (`Naming`: arguments, `this`, result, permanent and lost
  slots) never name a slot twice, and the free list holds exactly the slots that
  they do not name (`Kept`). `SlotsAccounted` counts places and cannot be carried from
  one state to the next by itself: it does not say that following the links from
  the head ends. `Free` says it, by the way the links take (`Walk`). Storing takes the
  head off the way (`StoreTakes`), freeing puts a slot before it (`FreeGives`), and
  `AccountedAtMentions` leads back from `Accounted` to the count, since a way without a
  repetition is no longer than the table (`FreeListNames`).
* `Cut`: once directives are cut off, and while every value has had a slot, the error
  is unwinding, or is the result, or is the answer.

`FreeList`, `StoreAll` and `FreeAll` are functions defined by recursion over a list of any
length. The library's induction theorems take an operator and cannot be used;
the proofs do their inductions over sets instead. `Successors` shows that a set with 0
and all successors contains every number (if it missed n, the successor function would
inject its part of 0..n into itself without being onto, which `FS_Injection` excludes),
`Steps` is the same up to a bound, and `Iterated` gives the function that a recursion
defines, from which `FreeAllSteps`, `StoreAllSteps` and `FreeListLinks` unfold the three.

### Left out

The exported operations on values that rendering does not use, getters of an
error's `message` that call the host, sizes near 2^32, modules and pending jobs.
Assumed is that a page does not catch the errors of the host function.

## 11. Page cache

### Correspondence

| module | code (`platform/renderx`) |
|---|---|
| `mem`, `disk` | the layers of `LayeredCache`; an entry is the version of the data it shows, and its age |
| `embed` | the snapshot of the build and `embedTombstone` |
| `poison`, `flight` | `poisonList`; the call of the singleflight group for this page |
| `Begin`, `Poisoned`, `NotFound`, `Fallback` | `ServeHTTP`, `embedPage`, `serveStatic`: a page that the loader does not have is answered 404, from no tier; any other error goes to the copy of any age |
| `GetMem`, `GetDisk`, `Fill`, `Join` | `Get` and `GetOrLoadHit`; the leader looks again (`loadOrReplay`) |
| `Load`, `Render`, `Fail`, `PutMem`, `PutDisk` | `propsForRoute`, `RenderOnce`, `Put`; the same for `rerender` |
| `PeekMem`, `PeekDisk` | `GetStale` and `serveStaleOrError` |
| `Publish`, `Bury`, `DropMem`, `DropDisk`, `DropFails` | a change of the data, then `Invalidate` or `Refresh`, or neither |
| `Evict`, `Restart`, `Tick` | the LRU bound, a restart on the same build, time |

**pages_serve** (1.9 million states, symmetric requests): two requests, one
publisher, two changes of the data, TTL and poison time of one tick, two
failures or restarts. Two changes let an old render meet a new one, that of a
request or that of `Refresh`; with two publishers and one fault both properties
hold, too (3.6 million states). An age is counted up to one more than the TTL,
since nothing depends on more. No call spans a tick: calls take seconds, the TTL
is an hour.

* `InvalidatedIsGone` speaks of every `Invalidate`, with whatever runs beside it: a
  request that begins after it has returned is answered with older data, from any
  tier, only in two ways, which the model tells apart by two history variables.
  A *stray* is an entry that somebody had loaded, or read from disk, when the
  `Invalidate` deleted the layers, and wrote or served afterwards (`cache.go:134`,
  `:211`). *revived* is a snapshot whose tombstone a restart on the same build has
  forgotten. Each exception is needed: without any of the two places where an
  entry becomes a stray, or without *revived*, TLC finds a violation.
* `TTLBacksUp` shows that the TTL bounds what a stray can do, in every layer and
  order, as long as renders succeed (a copy of any age is a fallback by design):
  this is what R8 of `docs/rendering.md` relies on.

The documents make neither exception, so the code does less than they say.
`docs/rendering.md:703` promises that an `Invalidate` is visible at the next
request; a render that was under way when it ran undoes it for up to one TTL, and
nobody is told. `invalidate.go:58-60` has the tombstones reset by the next build,
whose snapshots are authoritative again; a restart resets them as well, with
the snapshots of the old build, and those are served until the next `Invalidate`,
however old they are.

Another observation: a page on the poison list whose entry is invalidated answers
with the error page until its time is over, also when its data has been mended;
and `Refresh` renders a page that is on the list.

### Proofs

`PagesProofs` proves `NothingTooOld` (`TTLBacksUp`) and `InvalidatedStaysGone`
(`InvalidatedIsGone`) for any requests, publishers, times, changes and faults, which
is more than any run reaches: with several publishers and several faults there
are too many states. `TTLBacksUp` rests on `Timely`: an entry, in a layer or in the
hands of a process, is at least as old as its version has been outdated, since a
load reads the current version at age zero and both count the same ticks.
`InvalidatedIsGone` rests on three parts. `Recent`: strays apart, no layer, and no process
that will write, holds a version below the floor, that of the last `Invalidate` that
has returned. `Cleaning`: between the deletion from memory and the one from disk,
strays apart, neither memory nor a process holds anything older than what is
being invalidated, although the file on disk may still be read. `Buried`: the
embedded snapshot is under a tombstone by then, or a restart has brought it
back. Both theorems are about every later request through `Honest`, which relates
an answer to the floor at the moment the request began. There is no liveness
property.

### Left out

The match of routes and the graph of dependent pages (each page is
invalidated by itself), a change of the build (`PurgeForeign` then empties the
disk), files on disk that do not parse, entity tags and the SPA fallback.

## 12. Findings

| run | kind | where |
|---|---|---|
| members_owner | bug | `workspace/adapters/pgrepo/workspaces.go:197` |

The observations of the sections above are behaviours of the models, too, which
no run is kept for; the gravest are the refund and the crash of section 8, the
evicted connection of section 6, the fires and edits at the turn of a minute
that ADR 0001 rules out (section 5) and the page that a render brings back after
its `Invalidate` (section 11). Where a property of a passing run makes an exception
for one of them, its comment says so and names the line that promises more.

## 13. Not modelled

* quickjs-ng, the JavaScript engine in C below `renderx/internal/qjs/csrc`, is
  third-party code; what a script computes is a choice in `Pool` and `Bridge`.
  It makes up nearly all of the C in the repository.
* The channels of billing, cryptography (`sealx`, `whsign`), storage, the HTTP
  layers and the frontend: formats and I/O, without a state of their own that
  other components read.
* `authz` and `authorization` are pure decisions over large tables, which their
  own tests enumerate.
* `relayx`: a composition of hubs; one hub with its pumps is large by itself.
* `identity`, `settings`, `pg`, `events` and `workers` have states and races worth a
  module each; `PROJECT.json` says what each one keeps.

## 14. Plan

Modules: `Identity` (sessions with rotation, codes and challenges used once);
the circuit breaker of `pg`; `Settings` with its cache; a composition of `Billing`
with `Quota` through the plan it changes, and of `Hub` with a relay.

Theorems: that `Pages` implements an abstract specification, a register with
bounded staleness, in the way `Quota` implements `Capacity` and `Webhooks` implements
`DeliveryQueue`.
