------------------------------ MODULE Webhooks ------------------------------
(***************************************************************************)
(* Outgoing webhooks (webhooks/): subscriptions, the delivery queue in     *)
(* table webhook_delivery, and the delivery workers that claim due rows,   *)
(* POST them and record the outcome, with a retry ladder, dead letters and *)
(* the automatic disabling of a subscription that keeps failing.           *)
(*                                                                         *)
(* A step is one SQL statement (each is a transaction of its own) or one   *)
(* HTTP exchange.  ClaimPending takes two: its row locks are held from     *)
(* ClaimLock to ClaimCommit.  A worker keeps in job what it read and has   *)
(* not used yet.  All subscriptions belong to one workspace; secrets and   *)
(* signatures are left out.                                                *)
(***************************************************************************)
EXTENDS Integers, Sequences, FiniteSets

CONSTANTS
    Subs,           \* subscription ids
    Events,         \* event ids
    Ids,            \* delivery ids; a bound on the rows ever inserted
    Workers,        \* delivery workers, one per replica
    NoSub,          \* subscription_id NULL
    Wants,          \* the events each subscription's event_types match
    RetryBackoff,   \* the ladder, in ticks
    Window,         \* AutoDisableWindow, in ticks
    Batch,          \* DeliveryWorker.Batch
    Outcomes,       \* what may come of an attempt
    MaxCrashes,     \* bound on worker crashes
    MaxFailures,    \* bound on failed statements
    MaxTime         \* bound on the clock

ASSUME WebhookAssumption ==
    /\ NoSub \notin Subs \cup Ids
    /\ Events \cap Ids = {}
    /\ IsFiniteSet(Ids)
    /\ Wants \in [Subs -> SUBSET Events]
    /\ RetryBackoff \in Seq(Nat) /\ RetryBackoff # <<>>
    /\ Window \in Nat /\ Batch \in Nat \ {0}
    /\ MaxCrashes \in Nat /\ MaxFailures \in Nat /\ MaxTime \in Nat
    /\ Outcomes \subseteq {"ok", "fail", "abort", "rejected", "unsealed"}

VARIABLES
    now,            \* the clock of the services and of the database
    sub,            \* webhook_subscription
    row,            \* webhook_delivery
    job,            \* what each worker is doing
    acked,          \* history: deliveries a receiver answered with 2xx
    refused,        \* history: deliveries aborted or rejected for good
    reported,       \* history: deliveries passed to OnDeliveryFailed
    lastAck,        \* history: when a delivery was last marked delivered
    crashes,        \* worker crashes so far
    failures        \* failed statements so far

vars == <<now, sub, row, job, acked, refused, reported, lastAck, crashes, failures>>
history == <<acked, refused, reported, lastAck, crashes, failures>>

-----------------------------------------------------------------------------
(* Rows and jobs *)

Times == 0..MaxTime
Never == -1

\* attempts saturates here: the code only asks which rung of the ladder it
\* is on and whether it is past the last one.
MaxAttempts == Len(RetryBackoff) + 1

SubRows == [state: {"none", "live", "deleted"}, active: BOOLEAN,
            firstFailure: Times \cup {Never}]

Deliveries ==
    [status: {"none", "pending", "delivered", "dead"}, sub: Subs \cup {NoSub},
     event: Events \cup Ids, attempts: 0..MaxAttempts, nextAt: Times]

Absent(s) == sub[s].state # "live"
Exists(i) == row[i].status # "none"
Free == {i \in Ids : ~Exists(i)}

\* Mutant: the index does not exist.
ConflictsNever(s, e, i) == FALSE

\* The partial unique index uq_webhook_delivery; NULLs never conflict.
Conflicts(s, e, i) ==
    /\ s # NoSub
    /\ \E j \in Ids \ {i} : /\ row[j].status = "pending"
                            /\ row[j].sub = s
                            /\ row[j].event = e

NewRow(s, e) == [status |-> "pending", sub |-> s, event |-> e,
                 attempts |-> 0, nextAt |-> now]

\* A claimed delivery, as ClaimPending returned it.
Items == [id: Ids, sub: Subs, attempts: 0..MaxAttempts]

Results == {"delivered", "retry", "dead"}

Jobs ==
    [pc: {"idle", "lock"}]
    \cup [pc: {"commit"}, locked: SUBSET Ids]
    \cup [pc: {"deliver"}, todo: SUBSET Items]
    \cup [pc: {"mark", "stamp", "check", "disable"}, todo: SUBSET Items,
          item: Items, result: Results, nextAt: Times]

Idle == [pc |-> "idle"]

\* Rows the claim statement of another worker has locked.
LockedBy(w) == IF job[w].pc = "commit" THEN job[w].locked ELSE {}
Locked == UNION {LockedBy(w) : w \in Workers}

\* The loop of DeliverPending: the next claimed delivery, or done.
NextItem(todo) == IF todo = {} THEN Idle ELSE [pc |-> "deliver", todo |-> todo]

Init ==
    /\ now = 0
    /\ sub = [s \in Subs |-> [state |-> "none", active |-> FALSE,
                              firstFailure |-> Never]]
    /\ row = [i \in Ids |-> [status |-> "none", sub |-> NoSub, event |-> i,
                             attempts |-> 0, nextAt |-> 0]]
    /\ job = [w \in Workers |-> Idle]
    /\ acked = {} /\ refused = {} /\ reported = {}
    /\ lastAck = [s \in Subs |-> Never]
    /\ crashes = 0 /\ failures = 0

-----------------------------------------------------------------------------
(* Subscriptions and the queue: calls of the API *)

CreateSubscription(s) ==
    /\ sub[s].state = "none"
    /\ sub' = [sub EXCEPT ![s].state = "live", ![s].active = TRUE]
    /\ UNCHANGED <<now, row, job, history>>

\* The foreign key of webhook_delivery is ON DELETE SET NULL.
DeleteSubscription(s) ==
    /\ ~Absent(s)
    /\ \A i \in Locked : row[i].sub # s
    /\ sub' = [sub EXCEPT ![s].state = "deleted", ![s].active = FALSE]
    /\ row' = [i \in Ids |-> IF row[i].sub = s
                             THEN [row[i] EXCEPT !.sub = NoSub] ELSE row[i]]
    /\ UNCHANGED <<now, job, history>>

SetActive(s, active) ==
    sub' = IF Absent(s) THEN sub ELSE [sub EXCEPT ![s].active = active]

SetSubscriptionActive(s, active) ==
    /\ ~Absent(s)
    /\ SetActive(s, active)
    /\ UNCHANGED <<now, row, job, history>>

Targets(e) == {s \in Subs : /\ sub[s].active
                            /\ e \in Wants[s]
                            /\ ~Conflicts(s, e, NoSub)}

EmitForEvent(e) ==
    /\ Targets(e) # {}
    /\ \E ids \in [Targets(e) -> Free] :
          /\ \A s, t \in Targets(e) : ids[s] = ids[t] => s = t
          /\ row' = [i \in Ids |->
                       IF \E s \in Targets(e) : ids[s] = i
                       THEN NewRow(CHOOSE s \in Targets(e) : ids[s] = i, e)
                       ELSE row[i]]
    /\ UNCHANGED <<now, sub, job, history>>

\* A ping has an event id of its own; the delivery id stands for it.
EnqueuePing(s) ==
    /\ sub[s].active
    /\ \E i \in Free : row' = [row EXCEPT ![i] = NewRow(s, i)]
    /\ UNCHANGED <<now, sub, job, history>>

\* Redeliver joins the subscription; AdminRedeliver does not, and copies an
\* orphan with its NULL subscription.  Both answer with the pending row when
\* there is one.
CopyRow(i) ==
    /\ ~Conflicts(row[i].sub, row[i].event, NoSub)
    /\ \E j \in Free : row' = [row EXCEPT ![j] = NewRow(row[i].sub, row[i].event)]
    /\ UNCHANGED <<now, sub, job, history>>

Redeliver(i) == Exists(i) /\ row[i].sub # NoSub /\ CopyRow(i)
AdminRedeliver(i) == Exists(i) /\ CopyRow(i)

-----------------------------------------------------------------------------
(* The delivery worker *)

\* The first statement of ClaimPending.
OrphanedNever(i) == FALSE

Orphaned(i) == row[i].status = "pending" /\ row[i].sub = NoSub

FinalizeOrphans(w) ==
    /\ job[w] = Idle
    /\ row' = [i \in Ids |-> IF Orphaned(i)
                             THEN [row[i] EXCEPT !.status = "dead"] ELSE row[i]]
    /\ job' = [job EXCEPT ![w] = [pc |-> "lock"]]
    /\ UNCHANGED <<now, sub, history>>

Due(i) == /\ row[i].status = "pending"
          /\ row[i].nextAt <= now
          /\ row[i].sub # NoSub
          /\ sub[row[i].sub].active

\* ORDER BY next_attempt_at LIMIT batch over the rows in candidates.
IsOldest(claimed, candidates) ==
    /\ claimed \subseteq candidates
    /\ \/ Cardinality(claimed) = Batch
       \/ Cardinality(claimed) < Batch /\ claimed = candidates
    /\ \A i \in claimed, j \in candidates \ claimed :
          row[i].nextAt <= row[j].nextAt

\* The second statement selects FOR UPDATE SKIP LOCKED ...
ClaimLock(w) ==
    /\ job[w].pc = "lock"
    /\ \E claimed \in SUBSET Ids :
          /\ IsOldest(claimed, {i \in Ids \ Locked : Due(i)})
          /\ job' = [job EXCEPT ![w] = [pc |-> "commit", locked |-> claimed]]
    /\ UNCHANGED <<now, sub, row, history>>

CountAttempt(n) == IF n < MaxAttempts THEN n + 1 ELSE n

Claimed(i) == [id |-> i, sub |-> row[i].sub,
               attempts |-> CountAttempt(row[i].attempts)]

\* ... and counts the attempt; the row stays pending and due.
ClaimCommit(w) ==
    /\ job[w].pc = "commit"
    /\ row' = [i \in Ids |->
                 IF i \in job[w].locked
                 THEN [row[i] EXCEPT !.attempts = CountAttempt(@)] ELSE row[i]]
    /\ job' = [job EXCEPT ![w] = NextItem({Claimed(i) : i \in job[w].locked})]
    /\ UNCHANGED <<now, sub, history>>

\* The instants d after t with 20% of jitter, up to the bound on the clock.
Jittered(t, d) ==
    {u \in Times : \E e \in 0..(2 * d) : /\ 4 * d <= 5 * e /\ 5 * e <= 6 * d
                                         /\ u = IF t + e < MaxTime
                                                THEN t + e ELSE MaxTime}

Rung(attempts) == IF attempts < 1 THEN 1
                  ELSE IF attempts > Len(RetryBackoff) THEN Len(RetryBackoff)
                  ELSE attempts

ExhaustedOneEarly(attempts) == attempts >= Len(RetryBackoff)

Exhausted(attempts) == attempts > Len(RetryBackoff)

\* What is recorded for each outcome of an attempt at item.
retryPlan(item) ==
    {[result |-> IF Exhausted(item.attempts) THEN "dead" ELSE "retry",
      nextAt |-> t] : t \in Jittered(now, RetryBackoff[Rung(item.attempts)])}

Verdicts(outcome, item) ==
    CASE outcome = "ok" -> {[result |-> "delivered", nextAt |-> now]}
      [] outcome \in {"abort", "rejected"} -> {[result |-> "dead", nextAt |-> now]}
      [] OTHER -> retryPlan(item)

\* deliverOne up to the answer: "fail" is a transport error or a status
\* that is not 2xx, "rejected" and "unsealed" never reach the receiver.
Deliver(w) ==
    /\ job[w].pc = "deliver"
    /\ \E item \in job[w].todo, outcome \in Outcomes :
          /\ \E v \in Verdicts(outcome, item) :
                job' = [job EXCEPT ![w] =
                          [pc |-> "mark", todo |-> @.todo \ {item},
                           item |-> item, result |-> v.result,
                           nextAt |-> v.nextAt]]
          /\ acked' = IF outcome = "ok" THEN acked \cup {item.id} ELSE acked
          /\ refused' = IF outcome \in {"abort", "rejected"}
                        THEN refused \cup {item.id} ELSE refused
    /\ UNCHANGED <<now, sub, row, reported, lastAck, crashes, failures>>

ReturnWithoutHook(j) == NextItem(j.todo)

\* Where the worker goes when MarkDelivered or MarkRetry has returned,
\* with or without an error.
Return(j) == IF j.result = "dead" THEN [j EXCEPT !.pc = "check"]
             ELSE NextItem(j.todo)

\* The first statement of each has no condition but the id.
MarkedRow(r, j) ==
    IF j.result = "delivered" THEN [r EXCEPT !.status = "delivered"]
    ELSE [r EXCEPT !.status = IF j.result = "dead" THEN "dead" ELSE "pending",
                   !.nextAt = j.nextAt]

Mark(w) ==
    /\ job[w].pc = "mark"
    /\ LET j == job[w]
           i == j.item.id
           s == row[i].sub IN
       /\ i \notin Locked
       /\ ~(j.result = "retry" /\ Conflicts(s, row[i].event, i))
       /\ row' = [row EXCEPT ![i] = MarkedRow(@, j)]
       /\ job' = [job EXCEPT ![w].pc = "stamp"]
       /\ lastAck' = IF j.result = "delivered" /\ s # NoSub
                     THEN [lastAck EXCEPT ![s] = now] ELSE lastAck
    /\ UNCHANGED <<now, sub, acked, refused, reported, crashes, failures>>

\* A retry that the unique index refuses is logged and given up.
MarkConflict(w) ==
    /\ job[w].pc = "mark"
    /\ LET i == job[w].item.id IN
       /\ i \notin Locked
       /\ job[w].result = "retry" /\ Conflicts(row[i].sub, row[i].event, i)
    /\ job' = [job EXCEPT ![w] = Return(@)]
    /\ UNCHANGED <<now, sub, row, history>>

StampedNeverCleared(r, result) ==
    [r EXCEPT !.firstFailure =
       IF result # "delivered" /\ @ = Never THEN now ELSE @]

StampedSub(r, result) ==
    [r EXCEPT !.firstFailure =
       IF result = "delivered" THEN Never
       ELSE IF @ = Never THEN now ELSE @]

\* The second statement, on the subscription the row has now.
Stamp(w) ==
    /\ job[w].pc = "stamp"
    /\ LET s == row[job[w].item.id].sub IN
       sub' = IF s = NoSub THEN sub
              ELSE [sub EXCEPT ![s] = StampedSub(@, job[w].result)]
    /\ job' = [job EXCEPT ![w] = Return(@)]
    /\ UNCHANGED <<now, row, history>>

\* The rest of markRetry for a dead delivery: the hook, then the reading
\* half of maybeAutoDisable.
WindowElapsed(s) == /\ sub[s].firstFailure # Never
                    /\ now - sub[s].firstFailure >= Window

Check(w) ==
    /\ job[w].pc = "check"
    /\ reported' = reported \cup {job[w].item.id}
    /\ LET s == job[w].item.sub IN
       job' = [job EXCEPT ![w] =
                 IF ~Absent(s) /\ WindowElapsed(s)
                 THEN [@ EXCEPT !.pc = "disable"] ELSE NextItem(@.todo)]
    /\ UNCHANGED <<now, sub, row, acked, refused, lastAck, crashes, failures>>

AutoDisable(w) ==
    /\ job[w].pc = "disable"
    /\ SetActive(job[w].item.sub, FALSE)
    /\ job' = [job EXCEPT ![w] = NextItem(@.todo)]
    /\ UNCHANGED <<now, row, history>>

\* A statement of MarkDelivered or MarkRetry fails: logged, and the worker
\* goes on as if it had succeeded.
StatementFails(w) ==
    /\ failures < MaxFailures
    /\ job[w].pc \in {"mark", "stamp"}
    /\ job' = [job EXCEPT ![w] = Return(@)]
    /\ failures' = failures + 1
    /\ UNCHANGED <<now, sub, row, acked, refused, reported, lastAck, crashes>>

Crash(w) ==
    /\ crashes < MaxCrashes
    /\ job[w] # Idle
    /\ job' = [job EXCEPT ![w] = Idle]
    /\ crashes' = crashes + 1
    /\ UNCHANGED <<now, sub, row, acked, refused, reported, lastAck, failures>>

Tick ==
    /\ now < MaxTime
    /\ now' = now + 1
    /\ UNCHANGED <<sub, row, job, history>>

-----------------------------------------------------------------------------

\* DeliverPending, called on every tick of DeliveryWorker.Run.
DeliverPending(w) ==
    \/ FinalizeOrphans(w)
    \/ ClaimLock(w)
    \/ ClaimCommit(w)
    \/ Deliver(w)
    \/ Mark(w)
    \/ MarkConflict(w)
    \/ Stamp(w)
    \/ Check(w)
    \/ AutoDisable(w)

Next ==
    \/ \E s \in Subs : \/ CreateSubscription(s)
                       \/ DeleteSubscription(s)
                       \/ \E b \in BOOLEAN : SetSubscriptionActive(s, b)
                       \/ EnqueuePing(s)
    \/ \E e \in Events : EmitForEvent(e)
    \/ \E i \in Ids : Redeliver(i) \/ AdminRedeliver(i)
    \/ \E w \in Workers : DeliverPending(w) \/ StatementFails(w) \/ Crash(w)
    \/ Tick

Spec == Init /\ [][Next]_vars

\* The worker's loop runs as long as its process does and the clock goes on.
FairSpec == /\ Spec
            /\ \A w \in Workers : WF_vars(DeliverPending(w))
            /\ WF_vars(Tick)

-----------------------------------------------------------------------------
(* Properties *)

\* The type invariant: the tables, the workers' jobs and the histories.
TypeOK ==
    /\ now \in Times
    /\ sub \in [Subs -> SubRows]
    /\ row \in [Ids -> Deliveries]
    /\ job \in [Workers -> Jobs]
    /\ acked \subseteq Ids /\ refused \subseteq Ids /\ reported \subseteq Ids
    /\ lastAck \in [Subs -> Times \cup {Never}]
    /\ crashes \in 0..MaxCrashes /\ failures \in 0..MaxFailures

\* A delivery is given up only for a cause that lasts: the receiver or the
\* egress guard refused it for good, its subscription is gone, or the ladder
\* is used up, however many workers claimed and marked the row meanwhile
\* (retryPlan, deliverOne, ClaimPending).
DeadForCause ==
    \A i \in Ids : row[i].status = "dead" =>
       \/ row[i].sub = NoSub
       \/ i \in refused
       \/ row[i].attempts > Len(RetryBackoff)

\* Unless a process crashed, every dead letter that still has a subscription
\* has been passed to OnDeliveryFailed or is about to be, also when the
\* statement that marks it fails (markRetry).
DeadIsReported ==
    crashes = 0 =>
       \A i \in Ids : row[i].status = "dead" /\ row[i].sub # NoSub =>
          \/ i \in reported
          \/ \E w \in Workers : /\ job[w].pc \in {"stamp", "check"}
                                /\ job[w].item.id = i
                                /\ job[w].result = "dead"

\* A receiver has acknowledged every delivery whose row says delivered, with
\* several workers marking the same row in any order (deliverOne,
\* MarkDelivered).
DeliveredWasAcked ==
    \A i \in Ids : row[i].status = "delivered" => i \in acked

Clearing(s) == \E w \in Workers : /\ job[w].pc = "stamp"
                                  /\ job[w].result = "delivered"
                                  /\ row[job[w].item.id].sub = s

\* While no statement is lost, the failure window of a live subscription
\* never spans a success: first_failure_at is not older than the last
\* delivery marked delivered, unless a worker is about to clear it.  The
\* two statements of MarkDelivered and MarkRetry interleave freely.
WindowSpansNoSuccess ==
    crashes = 0 /\ failures = 0 =>
       \A s \in Subs :
          \/ Absent(s)
          \/ sub[s].firstFailure = Never
          \/ sub[s].firstFailure >= lastAck[s]
          \/ Clearing(s)

Waiting(i) == /\ row[i].status = "pending"
              /\ row[i].sub # NoSub => sub[row[i].sub].active

\* Every pending delivery is eventually delivered or dead, unless its
\* subscription is paused first: retries, double claims, failed statements
\* and worker crashes never leave it pending for ever (DeliverPending).
EventuallySettled == \A i \in Ids : Waiting(i) ~> ~Waiting(i)
=============================================================================
