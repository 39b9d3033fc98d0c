--------------------------- MODULE WebhooksProofs ---------------------------
(***************************************************************************)
(* Proofs about Webhooks: the four safety invariants of the delivery queue *)
(* hold for any number of workers, subscriptions and rows, any retry       *)
(* ladder and any window, and the service implements DeliveryQueue.        *)
(***************************************************************************)
EXTENDS WebhooksQueue, TLAPS

-----------------------------------------------------------------------------
(* The inductive invariant *)

\* A worker between the answer to an attempt and the end of recording it.
Recording == {"mark", "stamp", "check", "disable"}

\* The subscription of a row is live, an active one is live, and one that
\* was never created has never failed.  Nothing was acknowledged later than
\* now.
Attached ==
    /\ \A s \in Subs : /\ sub[s].active => ~Absent(s)
                       /\ sub[s].state = "none" => sub[s].firstFailure = Never
                       /\ lastAck[s] <= now
    /\ \A i \in Ids : row[i].sub # NoSub => ~Absent(row[i].sub)

\* The row of a claimed delivery is never removed, and has counted at least
\* the attempts the claim returned, which are the present one and those before.
Counted(item) == /\ Exists(item.id)
                 /\ item.attempts \in 1..row[item.id].attempts

\* Locked rows stay pending and keep their subscription; claimed ones have
\* been counted.
Backed(j) ==
    /\ j.pc = "commit" =>
          \A i \in j.locked : row[i].status = "pending" /\ row[i].sub # NoSub
    /\ j.pc \in Recording \cup {"deliver"} => \A item \in j.todo : Counted(item)
    /\ j.pc \in Recording => Counted(j.item)

\* A worker records only what it has seen: an acknowledgement, a refusal or
\* a ladder used up; and it runs the hook only for a dead delivery.
Judged(j) ==
    j.pc \in Recording =>
       /\ j.result = "delivered" => j.item.id \in acked
       /\ j.result = "dead" => \/ j.item.id \in refused
                               \/ j.item.attempts > Len(RetryBackoff)
       /\ j.pc \in {"check", "disable"} => j.result = "dead"

IInv ==
    /\ TypeOK
    /\ Attached
    /\ \A w \in Workers : Backed(job[w]) /\ Judged(job[w])
    /\ DeadForCause
    /\ DeadIsReported
    /\ DeliveredWasAcked
    /\ WindowSpansNoSuccess

-----------------------------------------------------------------------------
(* Facts about the tables and the jobs *)

\* What a job carries in each of its states.
LEMMA JobFields ==
    ASSUME TypeOK, NEW w \in Workers
    PROVE  /\ job[w].pc \in {"idle", "lock", "commit", "deliver"} \cup Recording
           /\ job[w].pc = "commit" => job[w].locked \subseteq Ids
           /\ job[w].pc = "deliver" => job[w].todo \subseteq Items
           /\ job[w].pc \in Recording =>
                 /\ job[w].todo \subseteq Items
                 /\ job[w].item \in Items
                 /\ job[w].result \in Results
                 /\ job[w] \in [pc: Recording, todo: SUBSET Items, item: Items,
                                result: Results, nextAt: Times]
<1>1. job[w] \in Jobs
  BY DEF TypeOK
<1> QED
  BY <1>1 DEF Jobs, Recording

\* The numbers of a row.
LEMMA RowFields ==
    ASSUME TypeOK, NEW i \in Ids
    PROVE  /\ row[i] \in Deliveries
           /\ row[i].attempts \in Nat
           /\ row[i].attempts <= MaxAttempts
           /\ MaxAttempts \in Nat /\ MaxAttempts = Len(RetryBackoff) + 1
           /\ Len(RetryBackoff) \in Nat
           /\ row[i].sub \in Subs \cup {NoSub}
           /\ row[i].event \in Events \cup Ids
<1>1. Len(RetryBackoff) \in Nat
  BY WebhookAssumption
<1> QED
  BY <1>1 DEF TypeOK, Deliveries, MaxAttempts

LEMMA TimesType == Times \subseteq Int /\ 0 \in Times /\ MaxTime \in Nat
BY WebhookAssumption DEF Times

\* The loop over the claimed deliveries goes on or is done.
LEMMA NextItemType ==
    ASSUME NEW todo \in SUBSET Items
    PROVE  /\ NextItem(todo) \in Jobs
           /\ NextItem(todo).pc \in {"idle", "deliver"}
           /\ NextItem(todo).pc = "deliver" => NextItem(todo).todo = todo
BY DEF NextItem, Idle, Jobs

\* Return goes to the hook for a dead delivery and to the next one for any
\* other.
LEMMA ReturnType ==
    ASSUME TypeOK, NEW w \in Workers, job[w].pc \in Recording
    PROVE  /\ Return(job[w]) \in Jobs
           /\ job[w].result = "dead" =>
                 /\ Return(job[w]).pc = "check"
                 /\ Return(job[w]).todo = job[w].todo
                 /\ Return(job[w]).item = job[w].item
                 /\ Return(job[w]).result = job[w].result
           /\ job[w].result # "dead" =>
                 /\ Return(job[w]) = NextItem(job[w].todo)
                 /\ Return(job[w]).pc \in {"idle", "deliver"}
                 /\ Return(job[w]).pc = "deliver" =>
                       Return(job[w]).todo = job[w].todo
<1>1. job[w] \in [pc: Recording, todo: SUBSET Items, item: Items,
                  result: Results, nextAt: Times]
  BY JobFields
<1>2. CASE job[w].result = "dead"
  <2>1. Return(job[w]) = [job[w] EXCEPT !.pc = "check"]
    BY <1>2 DEF Return
  <2>2. Return(job[w]) \in [pc: {"mark", "stamp", "check", "disable"},
                            todo: SUBSET Items, item: Items,
                            result: Results, nextAt: Times]
    BY <1>1, <2>1 DEF Recording
  <2> QED
    BY <1>1, <1>2, <2>1, <2>2 DEF Jobs
<1>3. CASE job[w].result # "dead"
  BY <1>1, <1>3, NextItemType DEF Return
<1> QED
  BY <1>2, <1>3

\* An attempt is recorded with one of three results.
LEMMA VerdictTypes ==
    ASSUME TypeOK, NEW item \in Items, NEW outcome, NEW v \in Verdicts(outcome, item)
    PROVE  /\ v.result \in Results
           /\ v.nextAt \in Times
           /\ v.result = "delivered" => outcome = "ok"
           /\ v.result = "dead" => \/ outcome \in {"abort", "rejected"}
                                   \/ item.attempts > Len(RetryBackoff)
<1>1. now \in Times
  BY DEF TypeOK
<1>2. CASE outcome = "ok"
  BY <1>1, <1>2 DEF Verdicts, Results
<1>3. CASE outcome \in {"abort", "rejected"}
  BY <1>1, <1>3 DEF Verdicts, Results
<1>4. CASE outcome \notin {"ok", "abort", "rejected"}
  <2>1. v \in retryPlan(item)
    BY <1>4 DEF Verdicts
  <2>2. PICK t \in Jittered(now, RetryBackoff[Rung(item.attempts)]) :
          v = [result |-> IF Exhausted(item.attempts) THEN "dead" ELSE "retry",
               nextAt |-> t]
    BY <2>1 DEF retryPlan
  <2>3. t \in Times
    BY DEF Jittered
  <2> QED
    BY <2>2, <2>3 DEF Results, Exhausted
<1> QED
  BY <1>2, <1>3, <1>4

-----------------------------------------------------------------------------
(* New rows: EmitForEvent, EnqueuePing, Redeliver, AdminRedeliver *)

\* What the four calls have in common: free ids become pending rows of live
\* subscriptions, or copies of orphans.
Inserted ==
    /\ row' \in [Ids -> Deliveries]
    /\ \A i \in Ids :
          \/ row'[i] = row[i]
          \/ /\ ~Exists(i)
             /\ row'[i].status = "pending"
             /\ row'[i].sub # NoSub => /\ row'[i].sub \in Subs
                                       /\ ~Absent(row'[i].sub)
    /\ UNCHANGED <<now, sub, job, history>>

LEMMA NewRowType ==
    ASSUME TypeOK, NEW s \in Subs \cup {NoSub}, NEW e \in Events \cup Ids
    PROVE  /\ NewRow(s, e) \in Deliveries
           /\ NewRow(s, e).status = "pending"
           /\ NewRow(s, e).sub = s
<1>1. now \in Times /\ 0 \in 0..MaxAttempts
  BY RowFields, WebhookAssumption DEF TypeOK, MaxAttempts
<1> QED
  BY <1>1 DEF NewRow, Deliveries

LEMMA InsertOne ==
    ASSUME TypeOK, Attached, NEW i \in Free, NEW s \in Subs \cup {NoSub},
           NEW e \in Events \cup Ids, s # NoSub => ~Absent(s),
           row' = [row EXCEPT ![i] = NewRow(s, e)],
           UNCHANGED <<now, sub, job, history>>
    PROVE  Inserted
<1>1. i \in Ids /\ ~Exists(i)
  BY DEF Free
<1>2. row' \in [Ids -> Deliveries]
  BY <1>1, NewRowType DEF TypeOK
<1>3. /\ row'[i] = NewRow(s, e)
      /\ \A k \in Ids \ {i} : row'[k] = row[k]
  BY <1>1 DEF TypeOK
<1> QED
  BY <1>1, <1>2, <1>3, NewRowType DEF Inserted

LEMMA PingInserts ==
    ASSUME TypeOK, Attached, NEW s \in Subs, EnqueuePing(s)
    PROVE  Inserted
<1>1. PICK i \in Free : row' = [row EXCEPT ![i] = NewRow(s, i)]
  BY DEF EnqueuePing
<1>2. i \in Events \cup Ids /\ ~Absent(s)
  BY DEF Free, EnqueuePing, Attached
<1> QED
  BY <1>1, <1>2, InsertOne DEF EnqueuePing

LEMMA CopyInserts ==
    ASSUME TypeOK, Attached, NEW i \in Ids, CopyRow(i)
    PROVE  Inserted
<1>1. PICK j \in Free : row' = [row EXCEPT ![j] = NewRow(row[i].sub, row[i].event)]
  BY DEF CopyRow
<1>2. /\ row[i].sub \in Subs \cup {NoSub}
      /\ row[i].event \in Events \cup Ids
      /\ row[i].sub # NoSub => ~Absent(row[i].sub)
  BY RowFields DEF Attached
<1> QED
  BY <1>1, <1>2, InsertOne DEF CopyRow

LEMMA EmitInserts ==
    ASSUME TypeOK, Attached, NEW e \in Events, EmitForEvent(e)
    PROVE  Inserted
<1>1. PICK ids \in [Targets(e) -> Free] :
        row' = [i \in Ids |->
                  IF \E s \in Targets(e) : ids[s] = i
                  THEN NewRow(CHOOSE s \in Targets(e) : ids[s] = i, e)
                  ELSE row[i]]
  BY DEF EmitForEvent
<1>2. \A s \in Targets(e) : s \in Subs /\ ~Absent(s)
  BY DEF Targets, Attached
<1>3. ASSUME NEW i \in Ids
      PROVE  /\ row'[i] \in Deliveries
             /\ \/ row'[i] = row[i]
                \/ /\ ~Exists(i)
                   /\ row'[i].status = "pending"
                   /\ row'[i].sub # NoSub => /\ row'[i].sub \in Subs
                                             /\ ~Absent(row'[i].sub)
  <2>1. CASE ~\E s \in Targets(e) : ids[s] = i
    BY <1>1, <2>1, RowFields
  <2>2. CASE \E s \in Targets(e) : ids[s] = i
    <3> DEFINE t == CHOOSE s \in Targets(e) : ids[s] = i
    <3>1. t \in Targets(e) /\ ids[t] = i
      BY <2>2
    <3>2. i \in Free /\ t \in Subs /\ ~Absent(t)
      BY <1>2, <3>1
    <3>3. row'[i] = NewRow(t, e)
      BY <1>1, <2>2
    <3> HIDE DEF t
    <3> QED
      BY <3>2, <3>3, NewRowType DEF Free
  <2> QED
    BY <2>1, <2>2
<1>4. row' \in [Ids -> Deliveries]
  BY <1>1, <1>3
<1> QED
  BY <1>3, <1>4 DEF Inserted, EmitForEvent

\* Every step, with the four calls taken together.
LEMMA Steps ==
    ASSUME TypeOK, Attached, Next
    PROVE  \/ \E s \in Subs : \/ CreateSubscription(s)
                              \/ DeleteSubscription(s)
                              \/ \E b \in BOOLEAN : SetSubscriptionActive(s, b)
           \/ Inserted
           \/ \E w \in Workers :
                 DeliverPending(w) \/ StatementFails(w) \/ Crash(w)
           \/ Tick
BY PingInserts, CopyInserts, EmitInserts DEF Next, Redeliver, AdminRedeliver

-----------------------------------------------------------------------------
(* Types *)

LEMMA InitCorrect == Init => IInv
<1> SUFFICES ASSUME Init PROVE IInv
  OBVIOUS
<1>1. 0 \in 0..MaxAttempts /\ 0 \in Times
  BY WebhookAssumption, TimesType DEF MaxAttempts
<1>2. TypeOK
  BY <1>1, WebhookAssumption DEF Init, TypeOK, SubRows, Deliveries, Jobs, Idle
<1>3. Attached
  BY <1>1 DEF Init, Attached, Never, Absent
<1>4. \A w \in Workers : Backed(job[w]) /\ Judged(job[w])
  BY DEF Init, Backed, Judged, Idle, Recording
<1>5. DeadForCause /\ DeadIsReported /\ DeliveredWasAcked
  BY DEF Init, DeadForCause, DeadIsReported, DeliveredWasAcked
<1>6. WindowSpansNoSuccess
  BY DEF Init, WindowSpansNoSuccess, Absent
<1> QED
  BY <1>2, <1>3, <1>4, <1>5, <1>6 DEF IInv

\* SetSubscriptionActive and the automatic disabling only set one flag.
LEMMA SetActiveKeeps ==
    ASSUME TypeOK, NEW s \in Subs, NEW active \in BOOLEAN, SetActive(s, active)
    PROVE  /\ sub' \in [Subs -> SubRows]
           /\ \A t \in Subs : /\ sub'[t].state = sub[t].state
                              /\ sub'[t].firstFailure = sub[t].firstFailure
                              /\ sub'[t].active =>
                                    sub[t].active \/ sub[t].state = "live"
<1>1. CASE Absent(s)
  BY <1>1 DEF SetActive, TypeOK
<1>2. CASE ~Absent(s)
  <2>1. sub' = [sub EXCEPT ![s].active = active]
    BY <1>2 DEF SetActive
  <2>2. sub'[s] = [sub[s] EXCEPT !.active = active]
    BY <2>1 DEF TypeOK
  <2>3. \A t \in Subs \ {s} : sub'[t] = sub[t]
    BY <2>1 DEF TypeOK
  <2>4. sub[s] \in SubRows /\ sub[s].state = "live"
    BY <1>2 DEF TypeOK, Absent
  <2>5. /\ sub'[s] \in SubRows
        /\ sub'[s].state = sub[s].state
        /\ sub'[s].firstFailure = sub[s].firstFailure
    BY <2>2, <2>4 DEF SubRows
  <2>6. sub' \in [Subs -> SubRows]
    BY <2>1, <2>5, <2>3 DEF TypeOK
  <2> QED
    BY <2>3, <2>4, <2>5, <2>6
<1> QED
  BY <1>1, <1>2

\* The second statement of MarkDelivered and MarkRetry stamps or clears one
\* subscription.
LEMMA StampKeeps ==
    ASSUME TypeOK, NEW w \in Workers, Stamp(w)
    PROVE  /\ sub' \in [Subs -> SubRows]
           /\ \A t \in Subs :
                 /\ sub'[t].state = sub[t].state
                 /\ sub'[t].active = sub[t].active
                 /\ row[job[w].item.id].sub # t => sub'[t] = sub[t]
                 /\ row[job[w].item.id].sub = t =>
                       sub'[t].firstFailure =
                          IF job[w].result = "delivered" THEN Never
                          ELSE IF sub[t].firstFailure = Never THEN now
                          ELSE sub[t].firstFailure
<1> DEFINE s == row[job[w].item.id].sub
<1>1. job[w].item.id \in Ids
  BY JobFields DEF Stamp, Recording, Items
<1>2. s \in Subs \cup {NoSub}
  BY <1>1, RowFields
<1>3. CASE s = NoSub
  BY <1>3, WebhookAssumption DEF Stamp, TypeOK
<1>4. CASE s # NoSub
  <2>1. s \in Subs
    BY <1>2, <1>4
  <2>2. sub' = [sub EXCEPT ![s] = StampedSub(@, job[w].result)]
    BY <1>4 DEF Stamp
  <2>3. sub'[s] = StampedSub(sub[s], job[w].result)
    BY <2>1, <2>2 DEF TypeOK
  <2>4. \A t \in Subs \ {s} : sub'[t] = sub[t]
    BY <2>1, <2>2 DEF TypeOK
  <2>5. sub[s] \in SubRows /\ now \in Times
    BY <2>1 DEF TypeOK
  <2>6. /\ sub'[s] \in SubRows
        /\ sub'[s].state = sub[s].state
        /\ sub'[s].active = sub[s].active
        /\ sub'[s].firstFailure =
              IF job[w].result = "delivered" THEN Never
              ELSE IF sub[s].firstFailure = Never THEN now
              ELSE sub[s].firstFailure
    BY <2>3, <2>5 DEF StampedSub, SubRows
  <2>7. sub' \in [Subs -> SubRows]
    BY <2>1, <2>2, <2>6, <2>4 DEF TypeOK
  <2> QED
    BY <2>4, <2>6, <2>7
<1> QED
  BY <1>3, <1>4

\* What the first statement of MarkDelivered or MarkRetry writes.
LEMMA MarkWrites ==
    ASSUME TypeOK, NEW w \in Workers, Mark(w)
    PROVE  LET i == job[w].item.id IN
           /\ i \in Ids /\ i \notin Locked
           /\ row' \in [Ids -> Deliveries]
           /\ \A k \in Ids \ {i} : row'[k] = row[k]
           /\ row'[i].sub = row[i].sub
           /\ row'[i].attempts = row[i].attempts
           /\ job[w].result = "delivered" => row'[i].status = "delivered"
           /\ job[w].result = "dead" => row'[i].status = "dead"
           /\ job[w].result = "retry" => row'[i].status = "pending"
           /\ job' = [job EXCEPT ![w] = [job[w] EXCEPT !.pc = "stamp"]]
           /\ [job[w] EXCEPT !.pc = "stamp"] \in
                 [pc: {"stamp"}, todo: SUBSET Items, item: Items,
                  result: Results, nextAt: Times]
<1> DEFINE i == job[w].item.id
<1> DEFINE j == job[w]
<1>1. /\ j \in [pc: Recording, todo: SUBSET Items, item: Items,
                result: Results, nextAt: Times]
      /\ j.pc = "mark"
  BY JobFields DEF Mark, Recording
<1>2. i \in Ids /\ i \notin Locked
  BY <1>1 DEF Mark, Items
<1>3. row' = [row EXCEPT ![i] = MarkedRow(row[i], j)]
  BY DEF Mark
<1>4. row'[i] = MarkedRow(row[i], j)
  BY <1>2, <1>3 DEF TypeOK
<1>5. \A k \in Ids \ {i} : row'[k] = row[k]
  BY <1>2, <1>3 DEF TypeOK
<1>6. row[i] \in Deliveries
  BY <1>2 DEF TypeOK
<1> HIDE DEF i
<1>7. /\ row'[i] \in Deliveries
      /\ row'[i].sub = row[i].sub
      /\ row'[i].attempts = row[i].attempts
      /\ j.result = "delivered" => row'[i].status = "delivered"
      /\ j.result = "dead" => row'[i].status = "dead"
      /\ j.result = "retry" => row'[i].status = "pending"
  BY <1>1, <1>4, <1>6 DEF MarkedRow, Deliveries
<1>8. row' \in [Ids -> Deliveries]
  BY <1>2, <1>3, <1>5, <1>7 DEF TypeOK
<1>9. job' = [job EXCEPT ![w] = [j EXCEPT !.pc = "stamp"]]
  BY DEF Mark
<1>10. [j EXCEPT !.pc = "stamp"] \in
          [pc: {"stamp"}, todo: SUBSET Items, item: Items,
           result: Results, nextAt: Times]
  BY <1>1
<1> QED
  BY <1>2, <1>5, <1>7, <1>8, <1>9, <1>10 DEF i

\* A claim counts one more attempt, up to the bound.
LEMMA CountedMore ==
    ASSUME TypeOK, NEW i \in Ids
    PROVE  /\ CountAttempt(row[i].attempts) \in 1..MaxAttempts
           /\ CountAttempt(row[i].attempts) >= row[i].attempts
BY RowFields DEF CountAttempt

\* The update that commits a claim.
LEMMA ClaimWrites ==
    ASSUME TypeOK, NEW w \in Workers, Backed(job[w]), ClaimCommit(w)
    PROVE  /\ row' \in [Ids -> Deliveries]
           /\ \A i \in Ids :
                 /\ i \notin job[w].locked => row'[i] = row[i]
                 /\ row'[i].status = row[i].status
                 /\ row'[i].sub = row[i].sub
                 /\ row'[i].attempts >= row[i].attempts
                 /\ i \in job[w].locked =>
                       row'[i].attempts = CountAttempt(row[i].attempts)
           /\ {Claimed(i) : i \in job[w].locked} \in SUBSET Items
<1>1. job[w].locked \subseteq Ids
  BY JobFields DEF ClaimCommit
<1>2. ASSUME NEW i \in Ids
      PROVE  /\ row'[i] \in Deliveries
             /\ i \notin job[w].locked => row'[i] = row[i]
             /\ row'[i].status = row[i].status
             /\ row'[i].sub = row[i].sub
             /\ row'[i].attempts >= row[i].attempts
             /\ i \in job[w].locked =>
                   row'[i].attempts = CountAttempt(row[i].attempts)
  <2>1. row[i] \in Deliveries /\ row[i].attempts \in Nat
    BY RowFields
  <2>2. CASE i \in job[w].locked
    <3>1. row'[i] = [row[i] EXCEPT !.attempts = CountAttempt(row[i].attempts)]
      BY <2>2 DEF ClaimCommit
    <3> QED
      BY <2>1, <2>2, <3>1, CountedMore DEF Deliveries
  <2>3. CASE i \notin job[w].locked
    <3>1. row'[i] = row[i]
      BY <2>3 DEF ClaimCommit
    <3> QED
      BY <2>1, <2>3, <3>1
  <2> QED
    BY <2>2, <2>3
<1>3. row' \in [Ids -> Deliveries]
  BY <1>2 DEF ClaimCommit
<1>4. ASSUME NEW i \in job[w].locked
      PROVE  Claimed(i) \in Items
  <2>1. i \in Ids /\ row[i].sub # NoSub
    BY <1>1 DEF Backed, ClaimCommit
  <2>2. row[i].sub \in Subs
    BY <2>1, RowFields
  <2> QED
    BY <2>1, <2>2, CountedMore DEF Claimed, Items
<1> QED
  BY <1>2, <1>3, <1>4

LEMMA TypeKept ==
    ASSUME IInv, Next
    PROVE  TypeOK'
<1> USE DEF history
<1>1. TypeOK /\ Attached /\ \A w \in Workers : Backed(job[w])
  BY DEF IInv
<1>2. CASE Inserted
  BY <1>1, <1>2 DEF TypeOK, Inserted
<1>3. ASSUME NEW s \in Subs, CreateSubscription(s)
      PROVE  TypeOK'
  <2>1. sub' = [sub EXCEPT ![s] = [[sub[s] EXCEPT !.state = "live"] EXCEPT !.active = TRUE]]
    BY <1>1, <1>3 DEF CreateSubscription, TypeOK
  <2>2. sub[s] \in SubRows
    BY <1>1 DEF TypeOK
  <2>3. [[sub[s] EXCEPT !.state = "live"] EXCEPT !.active = TRUE] \in SubRows
    BY <2>2 DEF SubRows
  <2> QED
    BY <1>1, <1>3, <2>1, <2>3 DEF CreateSubscription, TypeOK
<1>4. ASSUME NEW s \in Subs, DeleteSubscription(s)
      PROVE  TypeOK'
  <2>1. sub' = [sub EXCEPT ![s] = [[sub[s] EXCEPT !.state = "deleted"] EXCEPT !.active = FALSE]]
    BY <1>1, <1>4 DEF DeleteSubscription, TypeOK
  <2>2. sub[s] \in SubRows
    BY <1>1 DEF TypeOK
  <2>3. [[sub[s] EXCEPT !.state = "deleted"] EXCEPT !.active = FALSE] \in SubRows
    BY <2>2 DEF SubRows
  <2>4. ASSUME NEW i \in Ids PROVE row'[i] \in Deliveries
    <3>1. row[i] \in Deliveries
      BY <1>1, RowFields
    <3>2. [row[i] EXCEPT !.sub = NoSub] \in Deliveries
      BY <3>1 DEF Deliveries
    <3> QED
      BY <1>4, <3>1, <3>2 DEF DeleteSubscription
  <2>5. row' \in [Ids -> Deliveries]
    BY <1>4, <2>4 DEF DeleteSubscription
  <2> QED
    BY <1>1, <1>4, <2>1, <2>3, <2>5 DEF DeleteSubscription, TypeOK
<1>5. ASSUME NEW s \in Subs, NEW b \in BOOLEAN, SetSubscriptionActive(s, b)
      PROVE  TypeOK'
  BY <1>1, <1>5, SetActiveKeeps DEF SetSubscriptionActive, TypeOK
<1>6. ASSUME NEW w \in Workers, FinalizeOrphans(w)
      PROVE  TypeOK'
  <2>1. ASSUME NEW i \in Ids PROVE row'[i] \in Deliveries
    <3>1. row[i] \in Deliveries
      BY <1>1, RowFields
    <3>2. [row[i] EXCEPT !.status = "dead"] \in Deliveries
      BY <3>1 DEF Deliveries
    <3> QED
      BY <1>6, <3>1, <3>2 DEF FinalizeOrphans
  <2>2. row' \in [Ids -> Deliveries]
    BY <1>6, <2>1 DEF FinalizeOrphans
  <2>3. [pc |-> "lock"] \in Jobs
    BY DEF Jobs
  <2> QED
    BY <1>1, <1>6, <2>2, <2>3 DEF FinalizeOrphans, TypeOK
<1>7. ASSUME NEW w \in Workers, ClaimLock(w)
      PROVE  TypeOK'
  <2>1. PICK claimed \in SUBSET Ids :
          job' = [job EXCEPT ![w] = [pc |-> "commit", locked |-> claimed]]
    BY <1>7 DEF ClaimLock
  <2>2. [pc |-> "commit", locked |-> claimed] \in Jobs
    BY DEF Jobs
  <2> QED
    BY <1>1, <1>7, <2>1, <2>2 DEF ClaimLock, TypeOK
<1>8. ASSUME NEW w \in Workers, ClaimCommit(w)
      PROVE  TypeOK'
  <2>1. /\ row' \in [Ids -> Deliveries]
        /\ {Claimed(i) : i \in job[w].locked} \in SUBSET Items
    BY <1>1, <1>8, ClaimWrites
  <2>2. NextItem({Claimed(i) : i \in job[w].locked}) \in Jobs
    BY <2>1, NextItemType
  <2> QED
    BY <1>1, <1>8, <2>1, <2>2 DEF ClaimCommit, TypeOK
<1>9. ASSUME NEW w \in Workers, Deliver(w)
      PROVE  TypeOK'
  <2>1. PICK item \in job[w].todo, outcome \in Outcomes :
          /\ \E v \in Verdicts(outcome, item) :
                job' = [job EXCEPT ![w] =
                          [pc |-> "mark", todo |-> @.todo \ {item},
                           item |-> item, result |-> v.result,
                           nextAt |-> v.nextAt]]
          /\ acked' = IF outcome = "ok" THEN acked \cup {item.id} ELSE acked
          /\ refused' = IF outcome \in {"abort", "rejected"}
                        THEN refused \cup {item.id} ELSE refused
    BY <1>9 DEF Deliver
  <2>2. job[w].todo \subseteq Items
    BY <1>1, <1>9, JobFields DEF Deliver
  <2>3. item \in Items /\ item.id \in Ids
    BY <2>2 DEF Items
  <2>4. PICK v \in Verdicts(outcome, item) :
          job' = [job EXCEPT ![w] =
                    [pc |-> "mark", todo |-> job[w].todo \ {item},
                     item |-> item, result |-> v.result,
                     nextAt |-> v.nextAt]]
    BY <2>1
  <2>5. v.result \in Results /\ v.nextAt \in Times
    BY <1>1, <2>3, VerdictTypes
  <2>6. [pc |-> "mark", todo |-> job[w].todo \ {item}, item |-> item,
         result |-> v.result, nextAt |-> v.nextAt] \in Jobs
    BY <2>2, <2>3, <2>5 DEF Jobs
  <2>7. job' \in [Workers -> Jobs]
    BY <1>1, <2>4, <2>6 DEF TypeOK
  <2>8. acked' \subseteq Ids /\ refused' \subseteq Ids
    BY <1>1, <2>1, <2>3 DEF TypeOK
  <2> QED
    BY <1>1, <1>9, <2>7, <2>8 DEF Deliver, TypeOK
<1>10. ASSUME NEW w \in Workers, Mark(w)
       PROVE  TypeOK'
  <2>1. row' \in [Ids -> Deliveries] /\ job[w].item.id \in Ids
    BY <1>1, <1>10, MarkWrites
  <2>2. job' \in [Workers -> Jobs]
    <3>1. [job[w] EXCEPT !.pc = "stamp"] \in Jobs
      BY <1>1, <1>10, MarkWrites DEF Jobs
    <3> QED
      BY <1>1, <1>10, <3>1, MarkWrites DEF TypeOK
  <2>3. lastAck' \in [Subs -> Times \cup {Never}]
    <3>1. row[job[w].item.id].sub \in Subs \cup {NoSub}
      BY <1>1, <2>1, RowFields
    <3> QED
      BY <1>1, <1>10, <3>1 DEF Mark, TypeOK
  <2> QED
    BY <1>1, <1>10, <2>1, <2>2, <2>3 DEF Mark, TypeOK
<1>11. ASSUME NEW w \in Workers, MarkConflict(w)
       PROVE  TypeOK'
  <2>1. Return(job[w]) \in Jobs
    BY <1>1, <1>11, ReturnType DEF MarkConflict, Recording
  <2> QED
    BY <1>1, <1>11, <2>1 DEF MarkConflict, TypeOK
<1>12. ASSUME NEW w \in Workers, Stamp(w)
       PROVE  TypeOK'
  <2>1. Return(job[w]) \in Jobs
    BY <1>1, <1>12, ReturnType DEF Stamp, Recording
  <2>2. sub' \in [Subs -> SubRows]
    BY <1>1, <1>12, StampKeeps
  <2> QED
    BY <1>1, <1>12, <2>1, <2>2 DEF Stamp, TypeOK
<1>13. ASSUME NEW w \in Workers, Check(w)
       PROVE  TypeOK'
  <2>1. job[w] \in [pc: Recording, todo: SUBSET Items, item: Items,
                    result: Results, nextAt: Times]
    BY <1>1, <1>13, JobFields DEF Check, Recording
  <2>2. [job[w] EXCEPT !.pc = "disable"] \in
           [pc: {"disable"}, todo: SUBSET Items, item: Items,
            result: Results, nextAt: Times]
    BY <2>1
  <2>3. [job[w] EXCEPT !.pc = "disable"] \in Jobs /\ NextItem(job[w].todo) \in Jobs
    BY <2>1, <2>2, NextItemType DEF Jobs
  <2>4. job' \in [Workers -> Jobs]
    BY <1>1, <1>13, <2>3 DEF Check, TypeOK
  <2>5. job[w].item.id \in Ids
    BY <2>1 DEF Items
  <2> QED
    BY <1>1, <1>13, <2>4, <2>5 DEF Check, TypeOK
<1>14. ASSUME NEW w \in Workers, AutoDisable(w)
       PROVE  TypeOK'
  <2>1. job[w].todo \subseteq Items /\ job[w].item.sub \in Subs
    BY <1>1, <1>14, JobFields DEF AutoDisable, Recording, Items
  <2>2. NextItem(job[w].todo) \in Jobs
    BY <2>1, NextItemType
  <2>3. sub' \in [Subs -> SubRows]
    BY <1>1, <1>14, <2>1, SetActiveKeeps DEF AutoDisable
  <2> QED
    BY <1>1, <1>14, <2>2, <2>3 DEF AutoDisable, TypeOK
<1>15. ASSUME NEW w \in Workers, StatementFails(w)
       PROVE  TypeOK'
  <2>1. Return(job[w]) \in Jobs
    BY <1>1, <1>15, ReturnType DEF StatementFails, Recording
  <2>2. failures' \in 0..MaxFailures
    BY <1>1, <1>15, WebhookAssumption DEF StatementFails, TypeOK
  <2> QED
    BY <1>1, <1>15, <2>1, <2>2 DEF StatementFails, TypeOK
<1>16. ASSUME NEW w \in Workers, Crash(w)
       PROVE  TypeOK'
  <2>1. Idle \in Jobs
    BY DEF Idle, Jobs
  <2>2. crashes' \in 0..MaxCrashes
    BY <1>1, <1>16, WebhookAssumption DEF Crash, TypeOK
  <2> QED
    BY <1>1, <1>16, <2>1, <2>2 DEF Crash, TypeOK
<1>17. CASE Tick
  BY <1>1, <1>17, WebhookAssumption DEF Tick, TypeOK, Times
<1> QED
  BY <1>1, <1>2, <1>3, <1>4, <1>5, <1>6, <1>7, <1>8, <1>9, <1>10, <1>11,
     <1>12, <1>13, <1>14, <1>15, <1>16, <1>17, Steps DEF DeliverPending

-----------------------------------------------------------------------------
(* Rows and their subscriptions *)

\* Deleting a subscription orphans its rows and no others.
LEMMA DeleteWrites ==
    ASSUME TypeOK, NEW s \in Subs, DeleteSubscription(s)
    PROVE  /\ sub'[s].state = "deleted" /\ ~sub'[s].active
           /\ \A t \in Subs \ {s} : sub'[t] = sub[t]
           /\ \A i \in Ids : /\ row'[i].status = row[i].status
                             /\ row'[i].attempts = row[i].attempts
                             /\ row'[i].sub = IF row[i].sub = s THEN NoSub
                                              ELSE row[i].sub
                             /\ i \in Locked => row'[i].sub = row[i].sub
<1>1. sub' = [sub EXCEPT ![s] = [[sub[s] EXCEPT !.state = "deleted"] EXCEPT !.active = FALSE]]
  BY DEF DeleteSubscription, TypeOK
<1>2. sub'[s] = [[sub[s] EXCEPT !.state = "deleted"] EXCEPT !.active = FALSE]
  BY <1>1 DEF TypeOK
<1>3. \A t \in Subs \ {s} : sub'[t] = sub[t]
  BY <1>1 DEF TypeOK
<1>4. sub[s] \in SubRows
  BY DEF TypeOK
<1>5. sub'[s].state = "deleted" /\ ~sub'[s].active
  BY <1>2, <1>4 DEF SubRows
<1>6. ASSUME NEW i \in Ids
      PROVE  /\ row'[i].status = row[i].status
             /\ row'[i].attempts = row[i].attempts
             /\ row'[i].sub = IF row[i].sub = s THEN NoSub ELSE row[i].sub
             /\ i \in Locked => row'[i].sub = row[i].sub
  <2>1. row[i] \in Deliveries
    BY RowFields
  <2>2. CASE row[i].sub = s
    <3>1. row'[i] = [row[i] EXCEPT !.sub = NoSub]
      BY <2>2 DEF DeleteSubscription
    <3>2. i \notin Locked
      BY <2>2 DEF DeleteSubscription
    <3> QED
      BY <2>1, <2>2, <3>1, <3>2 DEF Deliveries
  <2>3. CASE row[i].sub # s
    <3>1. row'[i] = row[i]
      BY <2>3 DEF DeleteSubscription
    <3> QED
      BY <2>3, <3>1
  <2> QED
    BY <2>2, <2>3
<1> QED
  BY <1>3, <1>5, <1>6

LEMMA CreateWrites ==
    ASSUME TypeOK, NEW s \in Subs, CreateSubscription(s)
    PROVE  /\ sub'[s].state = "live" /\ sub'[s].active
           /\ sub'[s].firstFailure = sub[s].firstFailure
           /\ \A t \in Subs \ {s} : sub'[t] = sub[t]
<1>1. sub' = [sub EXCEPT ![s] = [[sub[s] EXCEPT !.state = "live"] EXCEPT !.active = TRUE]]
  BY DEF CreateSubscription, TypeOK
<1>2. sub'[s] = [[sub[s] EXCEPT !.state = "live"] EXCEPT !.active = TRUE]
  BY <1>1 DEF TypeOK
<1>3. \A t \in Subs \ {s} : sub'[t] = sub[t]
  BY <1>1 DEF TypeOK
<1>4. sub[s] \in SubRows
  BY DEF TypeOK
<1> QED
  BY <1>2, <1>3, <1>4 DEF SubRows

\* Finalizing orphans touches no row with a subscription.
LEMMA OrphanWrites ==
    ASSUME TypeOK, NEW w \in Workers, FinalizeOrphans(w), NEW i \in Ids
    PROVE  /\ row'[i].sub = row[i].sub
           /\ row'[i].attempts = row[i].attempts
           /\ row[i].sub # NoSub => row'[i] = row[i]
           /\ row'[i].status = row[i].status
              \/ (row[i].status = "pending" /\ row'[i].status = "dead")
<1>1. row[i] \in Deliveries
  BY RowFields
<1>2. CASE Orphaned(i)
  <2>1. row'[i] = [row[i] EXCEPT !.status = "dead"]
    BY <1>2 DEF FinalizeOrphans
  <2> QED
    BY <1>1, <1>2, <2>1 DEF Deliveries, Orphaned
<1>3. CASE ~Orphaned(i)
  <2>1. row'[i] = row[i]
    BY <1>3 DEF FinalizeOrphans
  <2> QED
    BY <2>1
<1> QED
  BY <1>2, <1>3

LEMMA AttachedKept ==
    ASSUME IInv, Next
    PROVE  Attached'
<1> USE DEF history
<1>1. /\ TypeOK /\ Attached /\ \A w \in Workers : Backed(job[w])
      /\ now \in Int
  BY TimesType DEF IInv, TypeOK
<1>2. CASE Inserted
  BY <1>1, <1>2 DEF Attached, Inserted, Absent
<1>3. ASSUME NEW s \in Subs, CreateSubscription(s)
      PROVE  Attached'
  <2>1. \A t \in Subs : /\ sub'[t].active => sub'[t].state = "live"
                        /\ sub'[t].state = "none" => sub'[t].firstFailure = Never
                        /\ sub[t].state = "live" => sub'[t].state = "live"
    BY <1>1, <1>3, CreateWrites DEF Attached, Absent
  <2>2. \A i \in Ids : row[i].sub \in Subs \cup {NoSub}
    BY <1>1, RowFields
  <2>3. UNCHANGED <<now, row, lastAck>>
    BY <1>3 DEF CreateSubscription
  <2> QED
    BY <1>1, <2>1, <2>2, <2>3 DEF Attached, Absent
<1>4. ASSUME NEW s \in Subs, DeleteSubscription(s)
      PROVE  Attached'
  <2>1. \A t \in Subs : sub'[t].active => ~Absent(t)'
    BY <1>1, <1>4, DeleteWrites DEF Attached, Absent
  <2>2. \A t \in Subs : sub'[t].state = "none" => sub'[t].firstFailure = Never
    BY <1>1, <1>4, DeleteWrites DEF Attached
  <2>3. \A i \in Ids : row'[i].sub # NoSub => ~Absent(row[i].sub)'
    BY <1>1, <1>4, DeleteWrites, RowFields DEF Attached, Absent
  <2>4. \A t \in Subs : lastAck'[t] <= now'
    BY <1>1, <1>4 DEF DeleteSubscription, Attached
  <2> QED
    BY <2>1, <2>2, <2>3, <2>4 DEF Attached
<1>5. ASSUME NEW s \in Subs, NEW b \in BOOLEAN, SetActive(s, b),
             UNCHANGED <<now, row, lastAck>>
      PROVE  Attached'
  BY <1>1, <1>5, SetActiveKeeps, RowFields DEF Attached, Absent
<1>6. ASSUME NEW w \in Workers, FinalizeOrphans(w)
      PROVE  Attached'
  BY <1>1, <1>6, OrphanWrites DEF FinalizeOrphans, Attached, Absent
<1>7. ASSUME NEW w \in Workers, ClaimCommit(w)
      PROVE  Attached'
  BY <1>1, <1>7, ClaimWrites DEF ClaimCommit, Attached, Absent
<1>8. ASSUME NEW w \in Workers, Mark(w)
      PROVE  Attached'
  <2>1. row[job[w].item.id].sub \in Subs \cup {NoSub}
    BY <1>1, <1>8, MarkWrites, RowFields
  <2>2. \A s \in Subs : lastAck'[s] \in {lastAck[s], now}
    BY <1>1, <1>8, <2>1 DEF Mark, TypeOK
  <2>3. \A s \in Subs : lastAck'[s] <= now
    BY <1>1, <2>2 DEF Attached
  <2>4. \A i \in Ids : row'[i].sub = row[i].sub
    BY <1>1, <1>8, MarkWrites
  <2> QED
    BY <1>1, <1>8, <2>3, <2>4 DEF Mark, Attached, Absent
<1>9. ASSUME NEW w \in Workers, Stamp(w)
      PROVE  Attached'
  <2>1. job[w].item.id \in Ids
    BY <1>1, <1>9, JobFields DEF Stamp, Recording, Items
  <2> DEFINE i == job[w].item.id
  <2>2. ASSUME NEW t \in Subs, sub[t].state = "none"
        PROVE  sub'[t] = sub[t]
    <3>1. row[i].sub # t
      BY <1>1, <2>1, <2>2, WebhookAssumption DEF Attached, Absent
    <3> QED
      BY <1>1, <1>9, <3>1, StampKeeps
  <2>3. \A t \in Subs : /\ sub'[t].state = sub[t].state
                        /\ sub'[t].active = sub[t].active
    BY <1>1, <1>9, StampKeeps
  <2>4. \A k \in Ids : row[k].sub \in Subs \cup {NoSub}
    BY <1>1, RowFields
  <2> QED
    BY <1>1, <1>9, <2>2, <2>3, <2>4, ZenonT(60) DEF Stamp, Attached, Absent
<1>10. ASSUME UNCHANGED <<now, sub, row, lastAck>>
       PROVE  Attached'
  BY <1>1, <1>10 DEF Attached, Absent
<1>11. CASE Tick
  <2>1. \A s \in Subs : lastAck[s] \in Times \cup {Never}
    BY <1>1 DEF TypeOK
  <2>2. \A s \in Subs : lastAck[s] \in Int
    BY <2>1 DEF Times, Never
  <2> QED
    BY <1>1, <1>11, <2>2 DEF Tick, Attached, Absent
<1>12. ASSUME NEW w \in Workers, AutoDisable(w)
       PROVE  Attached'
  <2>1. job[w].item.sub \in Subs
    BY <1>1, <1>12, JobFields DEF AutoDisable, Recording, Items
  <2> QED
    BY <1>5, <1>12, <2>1 DEF AutoDisable
<1>13. ASSUME NEW w \in Workers,
              \/ ClaimLock(w) \/ Deliver(w) \/ MarkConflict(w) \/ Check(w)
              \/ StatementFails(w) \/ Crash(w)
       PROVE  Attached'
  BY <1>10, <1>13 DEF ClaimLock, Deliver, MarkConflict, Check, StatementFails, Crash
<1>14. ASSUME NEW s \in Subs, NEW b \in BOOLEAN, SetSubscriptionActive(s, b)
       PROVE  Attached'
  BY <1>5, <1>14 DEF SetSubscriptionActive
<1> QED
  BY <1>1, <1>2, <1>3, <1>4, <1>6, <1>7, <1>8, <1>9, <1>11, <1>12,
     <1>13, <1>14, Steps DEF DeliverPending

-----------------------------------------------------------------------------
(* What a worker holds and what it has seen *)

\* No step removes a row, forgets an attempt, settles a locked row or takes its
\* subscription; an acknowledgement or a refusal is never undone.
Grows ==
    /\ \A i \in Ids : Exists(i) =>
          /\ row'[i].status # "none"
          /\ row'[i].attempts >= row[i].attempts
          /\ i \in Locked => /\ row'[i].sub = row[i].sub
                             /\ row'[i].status = row[i].status
    /\ acked \subseteq acked' /\ refused \subseteq refused'

LEMMA RowsGrow ==
    ASSUME IInv, Next
    PROVE  Grows
<1> USE DEF history
<1>1. TypeOK /\ Attached /\ \A w \in Workers : Backed(job[w])
  BY DEF IInv
<1>2. \A i \in Ids : row[i].attempts \in Nat
  BY <1>1, RowFields
<1>3. CASE Inserted
  BY <1>1, <1>2, <1>3 DEF Inserted, Grows, Exists
<1>4. ASSUME NEW s \in Subs, DeleteSubscription(s)
      PROVE  Grows
  BY <1>1, <1>2, <1>4, DeleteWrites DEF DeleteSubscription, Grows, Exists
<1>5. ASSUME NEW w \in Workers, FinalizeOrphans(w)
      PROVE  Grows
  <2>1. \A i \in Locked : row[i].sub # NoSub
    BY <1>1, JobFields DEF Locked, LockedBy, Backed
  <2>2. ASSUME NEW i \in Ids, Exists(i)
        PROVE  /\ row'[i].status # "none"
               /\ row'[i].attempts >= row[i].attempts
               /\ row[i].sub # NoSub => row'[i] = row[i]
    BY <1>1, <1>2, <1>5, <2>2, OrphanWrites DEF Exists
  <2>3. UNCHANGED <<acked, refused>>
    BY <1>5 DEF FinalizeOrphans
  <2> QED
    BY <2>1, <2>2, <2>3 DEF Grows
<1>6. ASSUME NEW w \in Workers, ClaimCommit(w)
      PROVE  Grows
  BY <1>1, <1>2, <1>6, ClaimWrites DEF ClaimCommit, Grows, Exists
<1>7. ASSUME NEW w \in Workers, Mark(w)
      PROVE  Grows
  <2>1. job[w].result \in Results
    BY <1>1, <1>7, JobFields DEF Mark, Recording
  <2> DEFINE i == job[w].item.id
  <2>2. /\ \A k \in Ids \ {i} : row'[k] = row[k]
        /\ row'[i].sub = row[i].sub /\ row'[i].attempts = row[i].attempts
        /\ row'[i].status # "none" /\ i \notin Locked
    BY <1>1, <1>7, <2>1, MarkWrites DEF Results
  <2>3. UNCHANGED <<acked, refused>>
    BY <1>7 DEF Mark
  <2> HIDE DEF i
  <2> QED
    BY <1>2, <2>2, <2>3 DEF Grows, Exists
<1>8. ASSUME UNCHANGED <<row, acked, refused>>
      PROVE  Grows
  BY <1>2, <1>8 DEF Grows, Exists
<1>9. ASSUME NEW w \in Workers, Deliver(w)
      PROVE  Grows
  <2>1. row' = row /\ acked \subseteq acked' /\ refused \subseteq refused'
    BY <1>9 DEF Deliver
  <2> QED
    BY <1>2, <2>1 DEF Grows, Exists
<1>10. ASSUME NEW w \in Workers,
              \/ ClaimLock(w) \/ MarkConflict(w) \/ Stamp(w) \/ Check(w)
              \/ AutoDisable(w) \/ StatementFails(w) \/ Crash(w)
       PROVE  Grows
  BY <1>8, <1>10 DEF ClaimLock, MarkConflict, Stamp, Check, AutoDisable,
     StatementFails, Crash
<1>11. ASSUME NEW s \in Subs, \/ CreateSubscription(s)
                              \/ \E b \in BOOLEAN : SetSubscriptionActive(s, b)
       PROVE  Grows
  BY <1>8, <1>11 DEF CreateSubscription, SetSubscriptionActive
<1>12. CASE Tick
  BY <1>8, <1>12 DEF Tick
<1> QED
  BY <1>1, <1>3, <1>4, <1>5, <1>6, <1>7, <1>9, <1>10, <1>11, <1>12, Steps
     DEF DeliverPending

LEMMA CountedStays ==
    ASSUME TypeOK, TypeOK', Grows, NEW item \in Items, Counted(item)
    PROVE  Counted(item)'
<1>1. item.id \in Ids /\ item.attempts \in Nat
  <2>1. MaxAttempts \in Nat
    BY WebhookAssumption DEF MaxAttempts
  <2> QED
    BY <2>1 DEF Items
<1>2. row[item.id].attempts \in Nat
  BY <1>1, RowFields
<1>3. row'[item.id].attempts \in Nat
  BY <1>1, WebhookAssumption DEF TypeOK, Deliveries, MaxAttempts
<1> QED
  BY <1>1, <1>2, <1>3 DEF Counted, Grows, Exists

\* A job that a step leaves alone stays as good as it was.
LEMMA JobStays ==
    ASSUME TypeOK, TypeOK', Grows, NEW w \in Workers,
           Backed(job[w]), Judged(job[w]), job'[w] = job[w]
    PROVE  Backed(job[w])' /\ Judged(job[w])'
<1>1. ASSUME job[w].pc = "commit", NEW i \in job[w].locked
      PROVE  row'[i].status = "pending" /\ row'[i].sub # NoSub
  <2>1. i \in Ids /\ Exists(i) /\ row[i].status = "pending" /\ row[i].sub # NoSub
    BY <1>1, JobFields DEF Backed, Exists
  <2>2. i \in Locked
    BY <1>1 DEF Locked, LockedBy
  <2> QED
    BY <2>1, <2>2 DEF Grows
<1>2. ASSUME job[w].pc \in Recording \cup {"deliver"}, NEW item \in job[w].todo
      PROVE  Counted(item)'
  BY <1>2, JobFields, CountedStays DEF Backed
<1>3. ASSUME job[w].pc \in Recording
      PROVE  Counted(job[w].item)'
  BY <1>3, JobFields, CountedStays DEF Backed, Counted, Exists
<1>4. Backed(job[w])'
  BY <1>1, <1>2, <1>3 DEF Backed, Counted, Exists
<1>5. Judged(job[w])'
  BY DEF Judged, Grows
<1> QED
  BY <1>4, <1>5

\* A worker that goes on with the deliveries it has claimed.
LEMMA GoesOn ==
    ASSUME TypeOK, TypeOK', Grows, NEW w \in Workers, Backed(job[w]),
           job[w].pc \in Recording, job'[w] = NextItem(job[w].todo)
    PROVE  Backed(job[w])' /\ Judged(job[w])'
<1>1. job[w].todo \subseteq Items
  BY JobFields
<1>2. \A item \in job[w].todo : Counted(item)'
  BY <1>1, CountedStays DEF Backed
<1>3. /\ job'[w].pc \in {"idle", "deliver"}
      /\ job'[w].pc = "deliver" => job'[w].todo = job[w].todo
  BY <1>1, NextItemType
<1> QED
  BY <1>2, <1>3 DEF Backed, Judged, Counted, Exists, Recording

\* A worker that goes on recording the same attempt.
LEMMA StillRecording ==
    ASSUME TypeOK, TypeOK', Grows, NEW w \in Workers, Backed(job[w]), Judged(job[w]),
           job[w].pc \in Recording, job'[w].pc \in Recording,
           job'[w].todo = job[w].todo, job'[w].item = job[w].item,
           job'[w].result = job[w].result,
           job'[w].pc \in {"check", "disable"} => job[w].result = "dead"
    PROVE  Backed(job[w])' /\ Judged(job[w])'
<1>1. job[w].todo \subseteq Items /\ job[w].item \in Items
  BY JobFields
<1>2. \A item \in job[w].todo : Counted(item)'
  BY <1>1, CountedStays DEF Backed
<1>3. Counted(job[w].item)'
  BY <1>1, CountedStays DEF Backed, Counted, Exists
<1>4. Backed(job[w])'
  BY <1>2, <1>3 DEF Backed, Counted, Exists, Recording
<1>5. Judged(job[w])'
  BY DEF Judged, Grows
<1> QED
  BY <1>4, <1>5

LEMMA ReturnKeeps ==
    ASSUME TypeOK, TypeOK', Grows, NEW w \in Workers, Backed(job[w]), Judged(job[w]),
           job[w].pc \in Recording, job'[w] = Return(job[w])
    PROVE  Backed(job[w])' /\ Judged(job[w])'
<1>1. CASE job[w].result = "dead"
  BY <1>1, ReturnType, StillRecording DEF Recording
<1>2. CASE job[w].result # "dead"
  BY <1>2, ReturnType, GoesOn
<1> QED
  BY <1>1, <1>2

-----------------------------------------------------------------------------
LEMMA JobsKept ==
    ASSUME IInv, Next, TypeOK'
    PROVE  \A w \in Workers : Backed(job[w])' /\ Judged(job[w])'
<1> USE DEF history
<1>1. /\ TypeOK /\ Attached /\ Grows
      /\ \A w \in Workers : Backed(job[w]) /\ Judged(job[w])
  BY RowsGrow DEF IInv
<1>2. ASSUME job' = job
      PROVE  \A w \in Workers : Backed(job[w])' /\ Judged(job[w])'
  BY <1>1, <1>2, JobStays
<1>3. ASSUME NEW w \in Workers, NEW j, job' = [job EXCEPT ![w] = j],
             Backed(job[w])' /\ Judged(job[w])'
      PROVE  \A v \in Workers : Backed(job[v])' /\ Judged(job[v])'
  <2>1. \A v \in Workers \ {w} : job'[v] = job[v]
    BY <1>1, <1>3 DEF TypeOK
  <2>2. \A v \in Workers \ {w} : Backed(job[v])' /\ Judged(job[v])'
    BY <1>1, <2>1, JobStays
  <2> QED
    BY <1>3, <2>2
<1>4. ASSUME NEW w \in Workers, FinalizeOrphans(w)
      PROVE  \A v \in Workers : Backed(job[v])' /\ Judged(job[v])'
  <2>1. job' = [job EXCEPT ![w] = [pc |-> "lock"]]
    BY <1>4 DEF FinalizeOrphans
  <2>2. job'[w].pc = "lock"
    BY <1>1, <2>1 DEF TypeOK
  <2>3. Backed(job[w])' /\ Judged(job[w])'
    BY <2>2 DEF Backed, Judged, Recording
  <2> QED
    BY <1>3, <2>1, <2>3
<1>5. ASSUME NEW w \in Workers, ClaimLock(w)
      PROVE  \A v \in Workers : Backed(job[v])' /\ Judged(job[v])'
  <2>1. PICK claimed \in SUBSET Ids :
          /\ IsOldest(claimed, {i \in Ids \ Locked : Due(i)})
          /\ job' = [job EXCEPT ![w] = [pc |-> "commit", locked |-> claimed]]
    BY <1>5 DEF ClaimLock
  <2>2. job'[w] = [pc |-> "commit", locked |-> claimed] /\ row' = row
    BY <1>1, <1>5, <2>1 DEF TypeOK, ClaimLock
  <2>3. \A i \in claimed : row[i].status = "pending" /\ row[i].sub # NoSub
    BY <2>1 DEF IsOldest, Due
  <2>4. Backed(job[w])' /\ Judged(job[w])'
    BY <2>2, <2>3 DEF Backed, Judged, Recording, Exists
  <2> QED
    BY <1>3, <2>1, <2>4
<1>6. ASSUME NEW w \in Workers, ClaimCommit(w)
      PROVE  \A v \in Workers : Backed(job[v])' /\ Judged(job[v])'
  <2> DEFINE todo == {Claimed(i) : i \in job[w].locked}
  <2>1. job[w].locked \subseteq Ids /\ \A i \in job[w].locked : Exists(i)
    BY <1>1, <1>6, JobFields DEF ClaimCommit, Backed, Exists
  <2>2. ASSUME NEW item \in todo
        PROVE  Counted(item)'
    <3>1. PICK i \in job[w].locked : item = Claimed(i)
      OBVIOUS
    <3>2. /\ row'[i].attempts = CountAttempt(row[i].attempts)
          /\ row'[i].status # "none"
      BY <1>1, <1>6, <2>1, ClaimWrites DEF Exists
    <3>3. /\ item.id = i
          /\ item.attempts = CountAttempt(row[i].attempts)
      BY <3>1 DEF Claimed
    <3>4. CountAttempt(row[i].attempts) \in 1..MaxAttempts /\ MaxAttempts \in Nat
      BY <1>1, <2>1, CountedMore, RowFields
    <3> QED
      BY <3>2, <3>3, <3>4 DEF Counted, Exists
  <2>3. todo \in SUBSET Items
    BY <1>1, <1>6, ClaimWrites
  <2>4. job' = [job EXCEPT ![w] = NextItem(todo)]
    BY <1>6 DEF ClaimCommit
  <2> HIDE DEF todo
  <2>5. job'[w] = NextItem(todo)
    BY <1>1, <2>4 DEF TypeOK
  <2>6. /\ job'[w].pc \in {"idle", "deliver"}
        /\ job'[w].pc = "deliver" => job'[w].todo = todo
    BY <2>3, <2>5, NextItemType
  <2>7. Backed(job[w])' /\ Judged(job[w])'
    BY <2>2, <2>6 DEF Backed, Judged, Counted, Exists, Recording
  <2> QED
    BY <1>3, <2>4, <2>7
<1>7. ASSUME NEW w \in Workers, Deliver(w)
      PROVE  \A v \in Workers : Backed(job[v])' /\ Judged(job[v])'
  <2>1. PICK item \in job[w].todo, outcome \in Outcomes :
          /\ \E v \in Verdicts(outcome, item) :
                job' = [job EXCEPT ![w] =
                          [pc |-> "mark", todo |-> @.todo \ {item},
                           item |-> item, result |-> v.result,
                           nextAt |-> v.nextAt]]
          /\ acked' = IF outcome = "ok" THEN acked \cup {item.id} ELSE acked
          /\ refused' = IF outcome \in {"abort", "rejected"}
                        THEN refused \cup {item.id} ELSE refused
    BY <1>7 DEF Deliver
  <2>2. PICK v \in Verdicts(outcome, item) :
          job' = [job EXCEPT ![w] =
                    [pc |-> "mark", todo |-> job[w].todo \ {item},
                     item |-> item, result |-> v.result,
                     nextAt |-> v.nextAt]]
    BY <2>1
  <2>3. job[w].todo \subseteq Items /\ item \in Items
    BY <1>1, <1>7, JobFields DEF Deliver
  <2>4. job'[w] = [pc |-> "mark", todo |-> job[w].todo \ {item},
                   item |-> item, result |-> v.result, nextAt |-> v.nextAt]
    BY <1>1, <2>2 DEF TypeOK
  <2>5. \A k \in job[w].todo : Counted(k)'
    BY <1>1, <1>7, <2>3, CountedStays DEF Deliver, Backed
  <2>6. Backed(job[w])'
    BY <2>4, <2>5 DEF Backed, Counted, Exists, Recording
  <2>7. /\ v.result = "delivered" => item.id \in acked'
        /\ v.result = "dead" => \/ item.id \in refused'
                                \/ item.attempts > Len(RetryBackoff)
    BY <1>1, <2>1, <2>3, VerdictTypes
  <2>8. Judged(job[w])'
    BY <2>4, <2>7 DEF Judged
  <2> QED
    BY <1>3, <2>2, <2>6, <2>8
<1>8. ASSUME NEW w \in Workers, Mark(w)
      PROVE  \A v \in Workers : Backed(job[v])' /\ Judged(job[v])'
  <2>1. job' = [job EXCEPT ![w] = [job[w] EXCEPT !.pc = "stamp"]]
    BY <1>1, <1>8, MarkWrites
  <2>2. job'[w] = [job[w] EXCEPT !.pc = "stamp"]
    BY <1>1, <2>1 DEF TypeOK
  <2>3. /\ job[w].pc \in Recording
        /\ job[w] \in [pc: Recording, todo: SUBSET Items, item: Items,
                       result: Results, nextAt: Times]
    BY <1>1, <1>8, JobFields DEF Mark, Recording
  <2>4. /\ job'[w].pc = "stamp" /\ job'[w].todo = job[w].todo
        /\ job'[w].item = job[w].item /\ job'[w].result = job[w].result
    BY <2>2, <2>3
  <2>5. Backed(job[w])' /\ Judged(job[w])'
    BY <1>1, <2>3, <2>4, StillRecording DEF Recording
  <2> QED
    BY <1>3, <2>1, <2>5
<1>9. ASSUME NEW w \in Workers, MarkConflict(w) \/ Stamp(w) \/ StatementFails(w)
      PROVE  \A v \in Workers : Backed(job[v])' /\ Judged(job[v])'
  <2>1. /\ job' = [job EXCEPT ![w] = Return(job[w])]
        /\ job[w].pc \in Recording
    BY <1>9 DEF MarkConflict, Stamp, StatementFails, Recording
  <2>2. job'[w] = Return(job[w])
    BY <1>1, <2>1 DEF TypeOK
  <2>3. Backed(job[w])' /\ Judged(job[w])'
    BY <1>1, <2>1, <2>2, ReturnKeeps
  <2> QED
    BY <1>3, <2>1, <2>3
<1>10. ASSUME NEW w \in Workers, Check(w)
       PROVE  \A v \in Workers : Backed(job[v])' /\ Judged(job[v])'
  <2>1. /\ job[w].pc = "check" /\ job[w].pc \in Recording
        /\ job[w] \in [pc: Recording, todo: SUBSET Items, item: Items,
                       result: Results, nextAt: Times]
        /\ job[w].result = "dead"
    BY <1>1, <1>10, JobFields DEF Check, Recording, Judged
  <2>2. CASE job' = [job EXCEPT ![w] = [job[w] EXCEPT !.pc = "disable"]]
    <3>1. job'[w] = [job[w] EXCEPT !.pc = "disable"]
      BY <1>1, <2>2 DEF TypeOK
    <3>2. /\ job'[w].pc = "disable" /\ job'[w].todo = job[w].todo
          /\ job'[w].item = job[w].item /\ job'[w].result = job[w].result
      BY <2>1, <3>1
    <3>3. Backed(job[w])' /\ Judged(job[w])'
      BY <1>1, <2>1, <3>2, StillRecording DEF Recording
    <3> QED
      BY <1>3, <2>2, <3>3
  <2>3. CASE job' = [job EXCEPT ![w] = NextItem(job[w].todo)]
    <3>1. job'[w] = NextItem(job[w].todo)
      BY <1>1, <2>3 DEF TypeOK
    <3>2. Backed(job[w])' /\ Judged(job[w])'
      BY <1>1, <2>1, <3>1, GoesOn
    <3> QED
      BY <1>3, <2>3, <3>2
  <2> QED
    BY <1>10, <2>2, <2>3 DEF Check
<1>11. ASSUME NEW w \in Workers, AutoDisable(w)
       PROVE  \A v \in Workers : Backed(job[v])' /\ Judged(job[v])'
  <2>1. /\ job' = [job EXCEPT ![w] = NextItem(job[w].todo)]
        /\ job[w].pc \in Recording
    BY <1>11 DEF AutoDisable, Recording
  <2>2. job'[w] = NextItem(job[w].todo)
    BY <1>1, <2>1 DEF TypeOK
  <2>3. Backed(job[w])' /\ Judged(job[w])'
    BY <1>1, <2>1, <2>2, GoesOn
  <2> QED
    BY <1>3, <2>1, <2>3
<1>12. ASSUME NEW w \in Workers, Crash(w)
       PROVE  \A v \in Workers : Backed(job[v])' /\ Judged(job[v])'
  <2>1. job' = [job EXCEPT ![w] = Idle]
    BY <1>12 DEF Crash
  <2>2. job'[w].pc = "idle"
    BY <1>1, <2>1 DEF TypeOK, Idle
  <2>3. Backed(job[w])' /\ Judged(job[w])'
    BY <2>2 DEF Backed, Judged, Recording
  <2> QED
    BY <1>3, <2>1, <2>3
<1>13. ASSUME NEW s \in Subs, \/ CreateSubscription(s) \/ DeleteSubscription(s)
                              \/ \E b \in BOOLEAN : SetSubscriptionActive(s, b)
       PROVE  \A w \in Workers : Backed(job[w])' /\ Judged(job[w])'
  BY <1>2, <1>13 DEF CreateSubscription, DeleteSubscription, SetSubscriptionActive
<1>14. ASSUME Inserted \/ Tick
       PROVE  \A w \in Workers : Backed(job[w])' /\ Judged(job[w])'
  BY <1>2, <1>14 DEF Inserted, Tick
<1> QED
  BY <1>1, <1>4, <1>5, <1>6, <1>7, <1>8, <1>9, <1>10, <1>11, <1>12, <1>13,
     <1>14, Steps DEF DeliverPending

-----------------------------------------------------------------------------
(* Causes of death, acknowledgements and reports *)

\* How a row may change: it keeps its status and loses at most its
\* subscription, it becomes pending, it is finalized as an orphan, or a
\* worker marks it with the result it holds.
RowChange(i) ==
    \/ /\ row'[i].status = row[i].status
       /\ row'[i].sub \in {row[i].sub, NoSub}
    \/ row'[i].status = "pending"
    \/ row'[i].status = "dead" /\ row'[i].sub = NoSub
    \/ \E w \in Workers :
          /\ Mark(w)
          /\ job[w].item.id = i
          /\ job[w].result = row'[i].status
          /\ row'[i].attempts = row[i].attempts

LEMMA RowsChange ==
    ASSUME IInv, Next
    PROVE  \A i \in Ids : RowChange(i)
<1> USE DEF history
<1>1. TypeOK /\ Attached /\ \A w \in Workers : Backed(job[w])
  BY DEF IInv
<1>2. CASE Inserted
  BY <1>2 DEF Inserted, RowChange
<1>3. ASSUME NEW s \in Subs, DeleteSubscription(s)
      PROVE  \A i \in Ids : RowChange(i)
  BY <1>1, <1>3, DeleteWrites DEF RowChange
<1>4. ASSUME NEW w \in Workers, FinalizeOrphans(w), NEW i \in Ids
      PROVE  RowChange(i)
  <2>1. CASE row[i].sub = NoSub
    BY <1>1, <1>4, <2>1, OrphanWrites DEF RowChange
  <2>2. CASE row[i].sub # NoSub
    BY <1>1, <1>4, <2>2, OrphanWrites DEF RowChange
  <2> QED
    BY <2>1, <2>2
<1>5. ASSUME NEW w \in Workers, ClaimCommit(w)
      PROVE  \A i \in Ids : RowChange(i)
  BY <1>1, <1>5, ClaimWrites DEF RowChange
<1>6. ASSUME NEW w \in Workers, Mark(w), NEW i \in Ids
      PROVE  RowChange(i)
  <2>1. job[w].result \in Results
    BY <1>1, <1>6, JobFields DEF Mark, Recording
  <2>2. CASE i = job[w].item.id
    <3>1. /\ row'[i].attempts = row[i].attempts
          /\ row'[i].sub = row[i].sub
          /\ job[w].result = "delivered" => row'[i].status = "delivered"
          /\ job[w].result = "dead" => row'[i].status = "dead"
          /\ job[w].result = "retry" => row'[i].status = "pending"
      BY <1>1, <1>6, <2>2, MarkWrites
    <3> QED
      BY <1>6, <2>1, <2>2, <3>1 DEF RowChange, Results
  <2>3. CASE i # job[w].item.id
    <3>1. row'[i] = row[i]
      BY <1>1, <1>6, <2>3, MarkWrites
    <3> QED
      BY <3>1 DEF RowChange
  <2> QED
    BY <2>2, <2>3
<1>7. ASSUME row' = row
      PROVE  \A i \in Ids : RowChange(i)
  BY <1>7 DEF RowChange
<1>8. ASSUME NEW w \in Workers,
             \/ ClaimLock(w) \/ Deliver(w) \/ MarkConflict(w) \/ Stamp(w)
             \/ Check(w) \/ AutoDisable(w) \/ StatementFails(w) \/ Crash(w)
      PROVE  \A i \in Ids : RowChange(i)
  BY <1>7, <1>8 DEF ClaimLock, Deliver, MarkConflict, Stamp, Check,
     AutoDisable, StatementFails, Crash
<1>9. ASSUME NEW s \in Subs, \/ CreateSubscription(s)
                             \/ \E b \in BOOLEAN : SetSubscriptionActive(s, b)
      PROVE  \A i \in Ids : RowChange(i)
  BY <1>7, <1>9 DEF CreateSubscription, SetSubscriptionActive
<1>10. CASE Tick
  BY <1>7, <1>10 DEF Tick
<1> QED
  BY <1>1, <1>2, <1>3, <1>4, <1>5, <1>6, <1>8, <1>9, <1>10, Steps
     DEF DeliverPending

LEMMA CausesKept ==
    ASSUME IInv, Next, TypeOK'
    PROVE  DeadForCause' /\ DeliveredWasAcked'
<1>1. /\ TypeOK /\ Grows /\ DeadForCause /\ DeliveredWasAcked
      /\ \A w \in Workers : Backed(job[w]) /\ Judged(job[w])
  BY RowsGrow DEF IInv
<1>2. ASSUME NEW w \in Workers, Mark(w)
      PROVE  LET i == job[w].item.id IN
             /\ job[w].result = "delivered" => i \in acked
             /\ job[w].result = "dead" =>
                   i \in refused \/ row[i].attempts > Len(RetryBackoff)
  <2> DEFINE i == job[w].item.id
  <2>1. job[w].pc \in Recording
    BY <1>2 DEF Mark, Recording
  <2>2. job[w].item \in Items
    BY <1>1, <2>1, JobFields
  <2>3. /\ i \in Ids /\ job[w].item.attempts \in Nat
        /\ row[i].attempts \in Nat /\ Len(RetryBackoff) \in Nat
    BY <1>1, <2>2, RowFields DEF Items
  <2>4. job[w].item.attempts <= row[i].attempts
    BY <1>1, <2>1 DEF Backed, Counted
  <2> HIDE DEF i
  <2>5. /\ job[w].result = "delivered" => i \in acked
        /\ job[w].result = "dead" => \/ i \in refused
                                     \/ job[w].item.attempts > Len(RetryBackoff)
    BY <1>1, <2>1 DEF Judged, i
  <2>6. job[w].item.attempts > Len(RetryBackoff)
           => row[i].attempts > Len(RetryBackoff)
    BY <2>3, <2>4
  <2>7. /\ job[w].result = "delivered" => i \in acked
        /\ job[w].result = "dead" =>
              i \in refused \/ row[i].attempts > Len(RetryBackoff)
    BY <2>5, <2>6
  <2> QED
    BY <2>7 DEF i
<1>3. ASSUME NEW i \in Ids, row'[i].status = "dead"
      PROVE  \/ row'[i].sub = NoSub
             \/ i \in refused'
             \/ row'[i].attempts > Len(RetryBackoff)
  <2>1. CASE \E w \in Workers :
                /\ Mark(w) /\ job[w].item.id = i
                /\ job[w].result = row'[i].status
                /\ row'[i].attempts = row[i].attempts
    BY <1>1, <1>2, <1>3, <2>1 DEF Grows
  <2>2. CASE row[i].status = "dead" /\ row'[i].sub \in {row[i].sub, NoSub}
    <3>1. \/ row[i].sub = NoSub \/ i \in refused
          \/ row[i].attempts > Len(RetryBackoff)
      BY <1>1, <2>2 DEF DeadForCause
    <3>2. row'[i].attempts >= row[i].attempts
      BY <1>1, <2>2 DEF Grows, Exists
    <3>3. row'[i].attempts \in Nat /\ row[i].attempts \in Nat
          /\ Len(RetryBackoff) \in Nat
      BY <1>1, RowFields, WebhookAssumption DEF TypeOK, Deliveries, MaxAttempts
    <3> QED
      BY <1>1, <2>2, <3>1, <3>2, <3>3 DEF Grows
  <2> QED
    BY <1>3, <2>1, <2>2, RowsChange DEF RowChange
<1>4. ASSUME NEW i \in Ids, row'[i].status = "delivered"
      PROVE  i \in acked'
  BY <1>1, <1>2, <1>4, RowsChange DEF RowChange, Grows, DeliveredWasAcked
<1> QED
  BY <1>3, <1>4 DEF DeadForCause, DeliveredWasAcked

-----------------------------------------------------------------------------
\* Only a worker's own step changes its job.
LEMMA OwnJob ==
    ASSUME TypeOK, Attached, Next, NEW w \in Workers
    PROVE  \/ job'[w] = job[w]
           \/ DeliverPending(w) \/ StatementFails(w) \/ Crash(w)
<1> USE DEF history
<1>1. CASE job' = job
  BY <1>1
<1>2. ASSUME NEW v \in Workers,
             DeliverPending(v) \/ StatementFails(v) \/ Crash(v)
      PROVE  \/ job'[w] = job[w]
             \/ DeliverPending(w) \/ StatementFails(w) \/ Crash(w)
  <2>1. CASE v = w
    BY <1>2, <2>1
  <2>2. CASE v # w
    <3>1. \E j : job' = [job EXCEPT ![v] = j]
      <4>1. ASSUME MarkConflict(v) \/ Stamp(v) \/ StatementFails(v)
            PROVE  \E j : job' = [job EXCEPT ![v] = j]
        BY <4>1 DEF MarkConflict, Stamp, StatementFails
      <4>2. ASSUME FinalizeOrphans(v) \/ ClaimLock(v) \/ ClaimCommit(v) \/ Crash(v)
            PROVE  \E j : job' = [job EXCEPT ![v] = j]
        BY <4>2 DEF FinalizeOrphans, ClaimLock, ClaimCommit, Crash
      <4>3. ASSUME Check(v) \/ AutoDisable(v)
            PROVE  \E j : job' = [job EXCEPT ![v] = j]
        BY <4>3 DEF Check, AutoDisable
      <4>4. ASSUME Mark(v)
            PROVE  \E j : job' = [job EXCEPT ![v] = j]
        BY <4>4, MarkWrites
      <4>5. ASSUME Deliver(v)
            PROVE  \E j : job' = [job EXCEPT ![v] = j]
        BY <4>5 DEF Deliver
      <4> QED
        BY <1>2, <4>1, <4>2, <4>3, <4>4, <4>5 DEF DeliverPending
    <3> QED
      BY <2>2, <3>1 DEF TypeOK
  <2> QED
    BY <2>1, <2>2
<1>3. ASSUME NEW s \in Subs, \/ CreateSubscription(s) \/ DeleteSubscription(s)
                             \/ \E b \in BOOLEAN : SetSubscriptionActive(s, b)
      PROVE  job' = job
  BY <1>3 DEF CreateSubscription, DeleteSubscription, SetSubscriptionActive
<1>4. ASSUME Inserted \/ Tick
      PROVE  job' = job
  BY <1>4 DEF Inserted, Tick
<1> QED
  BY <1>1, <1>2, <1>3, <1>4, Steps

\* A worker about to report a dead delivery does so, unless it crashes.
LEMMA StillReporting ==
    ASSUME TypeOK, Attached, Next, NEW w \in Workers, ~Crash(w),
           job[w].pc \in {"stamp", "check"}, job[w].result = "dead"
    PROVE  \/ job[w].item.id \in reported'
           \/ /\ job'[w].pc \in {"stamp", "check"}
              /\ job'[w].item = job[w].item
              /\ job'[w].result = "dead"
<1>1. job[w].pc \in Recording
  BY DEF Recording
<1>2. CASE job'[w] = job[w]
  BY <1>2
<1>3. CASE Stamp(w) \/ StatementFails(w)
  <2>1. job'[w] = Return(job[w])
    BY <1>3 DEF Stamp, StatementFails, TypeOK
  <2> QED
    BY <1>1, <2>1, ReturnType
<1>4. CASE Check(w)
  BY <1>4 DEF Check
<1>5. ASSUME \/ FinalizeOrphans(w) \/ ClaimLock(w) \/ ClaimCommit(w)
             \/ Deliver(w) \/ Mark(w) \/ MarkConflict(w) \/ AutoDisable(w)
      PROVE  FALSE
  <2>1. FinalizeOrphans(w) => job[w].pc = "idle"
    BY DEF FinalizeOrphans, Idle
  <2>2. /\ ClaimLock(w) => job[w].pc = "lock"
        /\ ClaimCommit(w) => job[w].pc = "commit"
        /\ Deliver(w) => job[w].pc = "deliver"
    BY DEF ClaimLock, ClaimCommit, Deliver
  <2>3. /\ Mark(w) => job[w].pc = "mark"
        /\ MarkConflict(w) => job[w].pc = "mark"
        /\ AutoDisable(w) => job[w].pc = "disable"
    BY DEF Mark, MarkConflict, AutoDisable
  <2> QED
    BY <1>5, <2>1, <2>2, <2>3
<1> QED
  BY <1>2, <1>3, <1>4, <1>5, OwnJob DEF DeliverPending

\* A report is never taken back; a crash and a failed statement are counted
\* for good.
LEMMA HistoryStays ==
    ASSUME TypeOK, Attached, Next
    PROVE  /\ reported \subseteq reported'
           /\ crashes' = 0 => crashes = 0 /\ \A w \in Workers : ~Crash(w)
           /\ failures' = 0 => failures = 0 /\ \A w \in Workers : ~StatementFails(w)
<1> USE DEF history
<1> DEFINE Kept == reported \subseteq reported' /\ crashes' = crashes
                   /\ failures' = failures
<1>1. crashes \in Nat /\ failures \in Nat
  BY WebhookAssumption DEF TypeOK
<1>2. \A w \in Workers : /\ Crash(w) => crashes' # 0
                         /\ StatementFails(w) => failures' # 0
  BY <1>1 DEF Crash, StatementFails
<1>3. ASSUME NEW s \in Subs, \/ CreateSubscription(s) \/ DeleteSubscription(s)
                             \/ \E b \in BOOLEAN : SetSubscriptionActive(s, b)
      PROVE  Kept
  BY <1>3 DEF CreateSubscription, DeleteSubscription, SetSubscriptionActive
<1>4. ASSUME Inserted \/ Tick
      PROVE  Kept
  BY <1>4 DEF Inserted, Tick
<1>5. ASSUME NEW w \in Workers,
             \/ FinalizeOrphans(w) \/ ClaimLock(w) \/ ClaimCommit(w)
             \/ Deliver(w) \/ Mark(w) \/ MarkConflict(w)
      PROVE  Kept
  BY <1>5 DEF FinalizeOrphans, ClaimLock, ClaimCommit, Deliver, Mark, MarkConflict
<1>6. ASSUME NEW w \in Workers, Stamp(w) \/ Check(w) \/ AutoDisable(w)
      PROVE  Kept
  BY <1>6 DEF Stamp, Check, AutoDisable
<1>7. ASSUME NEW w \in Workers, Crash(w)
      PROVE  /\ reported \subseteq reported'
             /\ crashes' = crashes + 1 /\ failures' = failures
  BY <1>7 DEF Crash
<1>8. ASSUME NEW w \in Workers, StatementFails(w)
      PROVE  /\ reported \subseteq reported'
             /\ crashes' = crashes /\ failures' = failures + 1
  BY <1>8 DEF StatementFails
<1>9. /\ reported \subseteq reported'
      /\ crashes' = crashes \/ crashes' = crashes + 1
      /\ failures' = failures \/ failures' = failures + 1
  BY <1>3, <1>4, <1>5, <1>6, <1>7, <1>8, Steps DEF DeliverPending
<1> QED
  BY <1>1, <1>2, <1>9

LEMMA ReportsKept ==
    ASSUME IInv, Next
    PROVE  DeadIsReported'
<1>1. /\ TypeOK /\ Attached /\ DeadIsReported
      /\ \A w \in Workers : Backed(job[w]) /\ Judged(job[w])
  BY DEF IInv
<1> SUFFICES ASSUME crashes' = 0, NEW i \in Ids,
                    row'[i].status = "dead", row'[i].sub # NoSub
             PROVE  \/ i \in reported'
                    \/ \E w \in Workers : /\ job'[w].pc \in {"stamp", "check"}
                                          /\ job'[w].item.id = i
                                          /\ job'[w].result = "dead"
  BY DEF DeadIsReported
<1>2. /\ crashes = 0 /\ reported \subseteq reported'
      /\ \A w \in Workers : ~Crash(w)
  BY <1>1, HistoryStays
<1>3. ASSUME NEW w \in Workers, Mark(w), job[w].item.id = i,
             job[w].result = row'[i].status
      PROVE  /\ job'[w].pc \in {"stamp", "check"}
             /\ job'[w].item.id = i /\ job'[w].result = "dead"
  <2>1. job' = [job EXCEPT ![w] = [job[w] EXCEPT !.pc = "stamp"]]
    BY <1>1, <1>3, MarkWrites
  <2>2. job'[w] = [job[w] EXCEPT !.pc = "stamp"]
    BY <1>1, <2>1 DEF TypeOK
  <2>3. job[w] \in [pc: Recording, todo: SUBSET Items, item: Items,
                    result: Results, nextAt: Times]
    BY <1>1, <1>3, JobFields DEF Mark, Recording
  <2> QED
    BY <1>3, <2>2, <2>3
<1>4. ASSUME row[i].status = "dead", row'[i].sub \in {row[i].sub, NoSub}
      PROVE  \/ i \in reported'
             \/ \E w \in Workers : /\ job'[w].pc \in {"stamp", "check"}
                                   /\ job'[w].item.id = i
                                   /\ job'[w].result = "dead"
  <2>1. CASE i \in reported
    BY <1>2, <2>1
  <2>2. ASSUME NEW w \in Workers, job[w].pc \in {"stamp", "check"},
               job[w].item.id = i, job[w].result = "dead"
        PROVE  \/ i \in reported'
               \/ \E v \in Workers : /\ job'[v].pc \in {"stamp", "check"}
                                     /\ job'[v].item.id = i
                                     /\ job'[v].result = "dead"
    BY <1>1, <1>2, <2>2, StillReporting
  <2> QED
    BY <1>1, <1>2, <1>4, <2>1, <2>2 DEF DeadIsReported
<1> QED
  BY <1>3, <1>4, RowsChange DEF RowChange

-----------------------------------------------------------------------------
(* The failure window *)

\* A row keeps its subscription for as long as that is live.
LEMMA SubStays ==
    ASSUME IInv, Next, NEW i \in Ids, NEW s \in Subs,
           Exists(i), row[i].sub = s, ~Absent(s)'
    PROVE  row'[i].sub = s
<1> USE DEF history
<1>1. TypeOK /\ Attached /\ \A w \in Workers : Backed(job[w])
  BY DEF IInv
<1>2. CASE Inserted
  BY <1>2 DEF Inserted
<1>3. ASSUME NEW t \in Subs, DeleteSubscription(t)
      PROVE  row'[i].sub = s
  <2>1. t # s
    BY <1>1, <1>3, DeleteWrites DEF Absent
  <2> QED
    BY <1>1, <1>3, <2>1, DeleteWrites
<1>4. ASSUME NEW w \in Workers, FinalizeOrphans(w)
      PROVE  row'[i].sub = s
  BY <1>1, <1>4, OrphanWrites
<1>5. ASSUME NEW w \in Workers, ClaimCommit(w)
      PROVE  row'[i].sub = s
  BY <1>1, <1>5, ClaimWrites
<1>6. ASSUME NEW w \in Workers, Mark(w)
      PROVE  row'[i].sub = s
  BY <1>1, <1>6, MarkWrites
<1>7. CASE row' = row
  BY <1>7
<1>8. ASSUME NEW w \in Workers,
             \/ ClaimLock(w) \/ Deliver(w) \/ MarkConflict(w) \/ Stamp(w)
             \/ Check(w) \/ AutoDisable(w) \/ StatementFails(w) \/ Crash(w)
      PROVE  row' = row
  BY <1>8 DEF ClaimLock, Deliver, MarkConflict, Stamp, Check, AutoDisable,
     StatementFails, Crash
<1>9. ASSUME NEW t \in Subs, \/ CreateSubscription(t)
                             \/ \E b \in BOOLEAN : SetSubscriptionActive(t, b)
      PROVE  row' = row
  BY <1>9 DEF CreateSubscription, SetSubscriptionActive
<1>10. Tick => row' = row
  BY DEF Tick
<1> QED
  BY <1>1, <1>2, <1>3, <1>4, <1>5, <1>6, <1>7, <1>8, <1>9, <1>10, Steps
     DEF DeliverPending

\* A worker about to clear the window is still about to, or has cleared it.
LEMMA ClearingStays ==
    ASSUME IInv, Next, NEW s \in Subs, Clearing(s), ~Absent(s)',
           \A w \in Workers : ~Crash(w) /\ ~StatementFails(w)
    PROVE  Clearing(s)' \/ sub'[s].firstFailure = Never
<1>1. TypeOK /\ Attached /\ \A w \in Workers : Backed(job[w])
  BY DEF IInv
<1>2. PICK w \in Workers : /\ job[w].pc = "stamp"
                           /\ job[w].result = "delivered"
                           /\ row[job[w].item.id].sub = s
  BY DEF Clearing
<1>3. CASE job'[w] = job[w]
  <2> DEFINE i == job[w].item.id
  <2>1. i \in Ids /\ Exists(i)
    BY <1>1, <1>2, JobFields DEF Recording, Items, Backed, Counted
  <2>2. row'[i].sub = s
    BY <1>2, <2>1, SubStays
  <2> QED
    BY <1>2, <1>3, <2>2 DEF Clearing
<1>4. CASE Stamp(w)
  BY <1>1, <1>2, <1>4, StampKeeps
<1>5. ASSUME \/ FinalizeOrphans(w) \/ ClaimLock(w) \/ ClaimCommit(w)
             \/ Deliver(w) \/ Mark(w) \/ MarkConflict(w) \/ Check(w)
             \/ AutoDisable(w)
      PROVE  FALSE
  <2>1. FinalizeOrphans(w) => job[w].pc = "idle"
    BY DEF FinalizeOrphans, Idle
  <2>2. /\ ClaimLock(w) => job[w].pc = "lock"
        /\ ClaimCommit(w) => job[w].pc = "commit"
        /\ Deliver(w) => job[w].pc = "deliver"
    BY DEF ClaimLock, ClaimCommit, Deliver
  <2>3. /\ Mark(w) => job[w].pc = "mark"
        /\ MarkConflict(w) => job[w].pc = "mark"
        /\ Check(w) => job[w].pc = "check"
        /\ AutoDisable(w) => job[w].pc = "disable"
    BY DEF Mark, MarkConflict, Check, AutoDisable
  <2> QED
    BY <1>2, <1>5, <2>1, <2>2, <2>3
<1> QED
  BY <1>1, <1>3, <1>4, <1>5, OwnJob DEF DeliverPending

\* The window of s stays as it should be when a step touches neither it nor
\* the history it is compared with.
LEMMA Quiet ==
    ASSUME IInv, Next, NEW s \in Subs, crashes = 0, failures = 0,
           \A w \in Workers : ~Crash(w) /\ ~StatementFails(w),
           ~Absent(s), ~Absent(s)',
           sub'[s].firstFailure = sub[s].firstFailure, lastAck'[s] = lastAck[s]
    PROVE  \/ sub'[s].firstFailure = Never
           \/ sub'[s].firstFailure >= lastAck'[s]
           \/ Clearing(s)'
BY ClearingStays DEF IInv, WindowSpansNoSuccess

LEMMA WindowKept ==
    ASSUME IInv, Next
    PROVE  WindowSpansNoSuccess'
<1> USE DEF history
<1>1. TypeOK /\ Attached /\ \A w \in Workers : Backed(job[w])
  BY DEF IInv
<1> SUFFICES ASSUME crashes' = 0, failures' = 0, NEW s \in Subs, ~Absent(s)'
             PROVE  \/ sub'[s].firstFailure = Never
                    \/ sub'[s].firstFailure >= lastAck'[s]
                    \/ Clearing(s)'
  BY DEF WindowSpansNoSuccess
<1> DEFINE Goal == \/ sub'[s].firstFailure = Never
                   \/ sub'[s].firstFailure >= lastAck'[s]
                   \/ Clearing(s)'
<1>2. /\ crashes = 0 /\ failures = 0
      /\ \A w \in Workers : ~Crash(w) /\ ~StatementFails(w)
  BY <1>1, HistoryStays
<1>3. ASSUME /\ sub'[s].state = sub[s].state
             /\ sub'[s].firstFailure = sub[s].firstFailure
             /\ lastAck'[s] = lastAck[s]
      PROVE  Goal
  <2>1. ~Absent(s)
    BY <1>3 DEF Absent
  <2> QED
    BY <1>2, <1>3, <2>1, Quiet
<1>4. ASSUME NEW t \in Subs, CreateSubscription(t)
      PROVE  Goal
  <2>1. CASE t = s
    <3>1. sub'[s].firstFailure = Never
      BY <1>1, <1>4, <2>1, CreateWrites, ZenonT(60)
         DEF CreateSubscription, Attached
    <3> QED
      BY <3>1
  <2>2. CASE t # s
    BY <1>1, <1>3, <1>4, <2>2, CreateWrites DEF CreateSubscription
  <2> QED
    BY <2>1, <2>2
<1>5. ASSUME NEW t \in Subs, DeleteSubscription(t)
      PROVE  Goal
  <2>1. t # s
    BY <1>1, <1>5, DeleteWrites DEF Absent
  <2>2. sub'[s] = sub[s]
    BY <1>1, <1>5, <2>1, DeleteWrites
  <2> QED
    BY <1>3, <1>5, <2>2 DEF DeleteSubscription
<1>6. ASSUME NEW t \in Subs, NEW b \in BOOLEAN, SetSubscriptionActive(t, b)
      PROVE  Goal
  BY <1>1, <1>3, <1>6, SetActiveKeeps DEF SetSubscriptionActive
<1>7. ASSUME NEW w \in Workers, AutoDisable(w)
      PROVE  Goal
  <2>1. job[w].item.sub \in Subs
    BY <1>1, <1>7, JobFields DEF AutoDisable, Recording, Items
  <2> QED
    BY <1>1, <1>3, <1>7, <2>1, SetActiveKeeps DEF AutoDisable
<1>8. ASSUME NEW w \in Workers, Mark(w)
      PROVE  Goal
  <2> DEFINE i == job[w].item.id
  <2>1. row[i].sub \in Subs \cup {NoSub} /\ row'[i].sub = row[i].sub
    BY <1>1, <1>8, MarkWrites, RowFields
  <2>2. CASE job[w].result = "delivered" /\ row[i].sub = s
    <3>1. job' = [job EXCEPT ![w] = [job[w] EXCEPT !.pc = "stamp"]]
      BY <1>1, <1>8, MarkWrites
    <3>2. job'[w] = [job[w] EXCEPT !.pc = "stamp"]
      BY <1>1, <3>1 DEF TypeOK
    <3>3. job[w] \in [pc: Recording, todo: SUBSET Items, item: Items,
                      result: Results, nextAt: Times]
      BY <1>1, <1>8, JobFields DEF Mark, Recording
    <3>4. /\ job'[w].pc = "stamp" /\ job'[w].result = "delivered"
          /\ job'[w].item = job[w].item
      BY <2>2, <3>2, <3>3
    <3> QED
      BY <2>1, <2>2, <3>4 DEF Clearing
  <2>3. CASE ~(job[w].result = "delivered" /\ row[i].sub = s)
    <3>1. lastAck'[s] = lastAck[s]
      BY <1>1, <1>8, <2>1, <2>3 DEF Mark, TypeOK
    <3>2. sub' = sub
      BY <1>8 DEF Mark
    <3> QED
      BY <1>3, <3>1, <3>2
  <2> QED
    BY <2>2, <2>3
<1>9. ASSUME NEW w \in Workers, Stamp(w)
      PROVE  Goal
  <2> DEFINE i == job[w].item.id
  <2>1. /\ sub'[s].state = sub[s].state
        /\ row[i].sub # s => sub'[s] = sub[s]
        /\ row[i].sub = s =>
              sub'[s].firstFailure =
                 IF job[w].result = "delivered" THEN Never
                 ELSE IF sub[s].firstFailure = Never THEN now
                 ELSE sub[s].firstFailure
    BY <1>1, <1>9, StampKeeps
  <2>2. lastAck' = lastAck
    BY <1>9 DEF Stamp
  <2>3. CASE sub'[s].firstFailure = now
    <3>1. lastAck[s] \in Times \cup {Never} /\ now \in Times
      BY <1>1 DEF TypeOK
    <3>2. lastAck[s] \in Int /\ now \in Int
      BY <3>1 DEF Times, Never
    <3>3. lastAck[s] <= now
      BY <1>1 DEF Attached
    <3> QED
      BY <2>2, <2>3, <3>2, <3>3
  <2>4. CASE sub'[s].firstFailure = sub[s].firstFailure
    BY <1>3, <2>1, <2>2, <2>4
  <2>5. CASE sub'[s].firstFailure = Never
    BY <2>5
  <2> QED
    BY <2>1, <2>3, <2>4, <2>5
<1>10. ASSUME UNCHANGED <<sub, lastAck>>
       PROVE  Goal
  BY <1>3, <1>10
<1>11. ASSUME NEW w \in Workers,
              \/ FinalizeOrphans(w) \/ ClaimLock(w) \/ ClaimCommit(w)
              \/ Deliver(w) \/ MarkConflict(w) \/ Check(w)
       PROVE  Goal
  BY <1>10, <1>11 DEF FinalizeOrphans, ClaimLock, ClaimCommit, Deliver,
     MarkConflict, Check
<1>12. ASSUME Inserted \/ Tick
       PROVE  Goal
  BY <1>10, <1>12 DEF Inserted, Tick
<1> HIDE DEF Goal
<1>13. Goal
  BY <1>1, <1>2, <1>4, <1>5, <1>6, <1>7, <1>8, <1>9, <1>11, <1>12, Steps
     DEF DeliverPending
<1> QED
  BY <1>13 DEF Goal

-----------------------------------------------------------------------------
(* The theorems *)

\* The inductive invariant holds in every state of any number of delivery
\* workers sharing one queue (DeliverPending, the subscription API).
THEOREM InvariantHolds == Spec => []IInv
<1>1. Init => IInv
  BY InitCorrect
<1>2. IInv /\ [Next]_vars => IInv'
  <2> SUFFICES ASSUME IInv, [Next]_vars PROVE IInv'
    OBVIOUS
  <2>1. CASE Next
    <3>1. TypeOK'
      BY <2>1, TypeKept
    <3> QED
      BY <2>1, <3>1, AttachedKept, JobsKept, CausesKept, ReportsKept,
         WindowKept DEF IInv
  <2>2. CASE UNCHANGED vars
    BY <2>2 DEF vars, IInv, TypeOK, Attached, Absent, Backed, Judged, Counted,
       Exists, DeadForCause, DeadIsReported, DeliveredWasAcked,
       WindowSpansNoSuccess, Clearing
  <2> QED
    BY <2>1, <2>2
<1> QED
  BY <1>1, <1>2, PTL DEF Spec

\* The tables, the jobs and the histories keep their types.
THEOREM TypeCorrect == Spec => []TypeOK
BY InvariantHolds, PTL DEF IInv

\* A delivery is given up only when it was refused for good, its
\* subscription is gone or the ladder is used up, however many workers
\* claimed and marked its row (retryPlan, deliverOne, ClaimPending).
THEOREM GivenUpForCause == Spec => []DeadForCause
BY InvariantHolds, PTL DEF IInv

\* Without a crash every dead letter of a subscription has been handed to
\* OnDeliveryFailed or is about to be, also when the statement that marks it
\* fails (markRetry).
THEOREM DeadLettersReported == Spec => []DeadIsReported
BY InvariantHolds, PTL DEF IInv

\* A row says delivered only when its receiver answered 2xx (deliverOne,
\* MarkDelivered).
THEOREM NothingDeliveredUnseen == Spec => []DeliveredWasAcked
BY InvariantHolds, PTL DEF IInv

\* As long as no statement is lost, the window that auto-disables a
\* subscription never spans an acknowledged delivery, in whatever order the
\* two statements of MarkDelivered and MarkRetry of several workers run.
THEOREM WindowIsHonest == Spec => []WindowSpansNoSuccess
BY InvariantHolds, PTL DEF IInv

-----------------------------------------------------------------------------
(* The refinement of DeliveryQueue *)

\* The partial unique index of the table.
UniqueIn(r) ==
    \A i, j \in Ids :
       /\ r[i].status = "pending" /\ r[j].status = "pending"
       /\ r[i].sub = r[j].sub /\ r[i].sub # NoSub
       /\ r[i].event = r[j].event
       => i = j

\* A ping that some delivery is about has a delivery of its own, so that the
\* next one gets a new name.
Named == \A i \in Ids : Exists(i) /\ row[i].event \in Ids => Exists(row[i].event)

QueueInv == IInv /\ UniqueIn(row) /\ Named

\* The state of the queue that a table stands for.
Queue(r) == [i \in Ids |-> Entry(r[i])]

LEMMA QueueFields ==
    ASSUME NEW r, NEW i \in Ids
    PROVE  /\ Queue(r)[i] = Entry(r[i])
           /\ Queue(r)[i].stage = r[i].status
           /\ Queue(r)[i].owner = r[i].sub
           /\ Queue(r)[i].name = r[i].event
           /\ Queue(r)[i].tries = r[i].attempts
BY DEF Queue, Entry

LEMMA QueueType ==
    ASSUME NEW r \in [Ids -> Deliveries]
    PROVE  Queue(r) \in [Ids -> Promise!Entries]
BY DEF Queue, Entry, Deliveries, Promise!Entries, Promise!Stages

LEMMA QueueWaitsOnce ==
    ASSUME NEW r, UniqueIn(r)
    PROVE  Promise!WaitsOnce(Queue(r))
BY QueueFields DEF UniqueIn, Promise!WaitsOnce

\* A step of the queue that keeps its invariant.
Refines == UniqueIn(row)' /\ Named' /\ [Promise!Next]_(Promise!vars)

\* What a step must do to the queue, as seen from the table.
LEMMA QueueStutters ==
    ASSUME Queue(row') = Queue(row), acked' = acked, refused' = refused
    PROVE  UNCHANGED Promise!vars
BY DEF Queue, Promise!vars

-----------------------------------------------------------------------------
\* Rows that are inserted with one name, each for a subscription of its own
\* that does not wait for that name yet.
LEMMA Enqueues ==
    ASSUME IInv, UniqueIn(row), Named, Inserted,
           NEW N \in SUBSET Free, NEW e \in Events \cup Ids,
           \A i \in Ids \ N : row'[i] = row[i],
           \A i \in N : /\ row'[i].status = "pending" /\ row'[i].event = e
                        /\ row'[i].attempts = 0
                        /\ ~Conflicts(row'[i].sub, e, NoSub),
           \A i, j \in N : row'[i].sub = row'[j].sub => i = j,
           e \in Ids => Exists(e) \/ e \in N
    PROVE  Refines
<1>1. N \subseteq Ids /\ \A i \in N : row[i].status = "none"
  BY DEF Free, Exists
<1>2. ASSUME NEW i \in N, NEW j \in Ids \ N, row[j].status = "pending",
             row'[i].sub = row[j].sub, row'[i].sub # NoSub, row[j].event = e
      PROVE  FALSE
  BY <1>2, WebhookAssumption DEF Conflicts
<1>3. UniqueIn(row')
  BY <1>1, <1>2 DEF UniqueIn
<1>4. Named'
  BY <1>1 DEF Named, Exists
<1>5. row' \in [Ids -> Deliveries] /\ acked' = acked /\ refused' = refused
  BY DEF Inserted, history
<1>6. Promise!Enqueue
  <2>1. Queue(row') \in [Ids -> Promise!Entries]
    BY <1>5, QueueType
  <2>2. ASSUME NEW i \in Ids
        PROVE  \/ Queue(row')[i] = Queue(row)[i]
               \/ /\ Queue(row)[i].stage = "none" /\ Queue(row')[i].stage = "pending"
                  /\ Queue(row')[i].tries = 0
    BY <1>1, QueueFields
  <2>3. Promise!WaitsOnce(Queue(row'))
    BY <1>3, QueueWaitsOnce
  <2> QED
    BY <1>5, <2>1, <2>2, <2>3 DEF Promise!Enqueue, Queue
<1> QED
  BY <1>3, <1>4, <1>6 DEF Refines, Promise!Next

LEMMA NewRowFields ==
    ASSUME NEW s, NEW e
    PROVE  /\ NewRow(s, e).status = "pending" /\ NewRow(s, e).sub = s
           /\ NewRow(s, e).event = e /\ NewRow(s, e).attempts = 0
BY DEF NewRow

\* One row, of a ping or of a copy.
LEMMA EnqueuesOne ==
    ASSUME IInv, UniqueIn(row), Named, Inserted,
           NEW i \in Free, NEW s, NEW e \in Events \cup Ids,
           row' = [row EXCEPT ![i] = NewRow(s, e)],
           ~Conflicts(s, e, NoSub), e \in Ids => Exists(e) \/ e = i
    PROVE  Refines
<1>1. i \in Ids /\ row \in [Ids -> Deliveries]
  BY DEF Free, IInv, TypeOK
<1>2. row'[i] = NewRow(s, e) /\ \A k \in Ids \ {i} : row'[k] = row[k]
  BY <1>1
<1>3. {i} \in SUBSET Free
  OBVIOUS
<1> DEFINE N == {i}
<1>4. /\ \A k \in Ids \ N : row'[k] = row[k]
      /\ \A k \in N : /\ row'[k].status = "pending" /\ row'[k].event = e
                      /\ row'[k].attempts = 0
                      /\ ~Conflicts(row'[k].sub, e, NoSub)
      /\ \A k, l \in N : row'[k].sub = row'[l].sub => k = l
      /\ e \in Ids => Exists(e) \/ e \in N
  BY <1>2, NewRowFields
<1> HIDE DEF N
<1>5. N \in SUBSET Free
  BY <1>3 DEF N
<1> QED
  BY ONLY <1>4, <1>5, IInv, UniqueIn(row), Named, Inserted, e \in Events \cup Ids, Enqueues

LEMMA PingEnqueues ==
    ASSUME QueueInv, NEW s \in Subs, EnqueuePing(s)
    PROVE  Refines
<1>1. TypeOK /\ Attached /\ UniqueIn(row) /\ Named /\ IInv
  BY DEF QueueInv, IInv
<1>2. Inserted
  BY <1>1, PingInserts
<1>3. PICK i \in Free : row' = [row EXCEPT ![i] = NewRow(s, i)]
  BY DEF EnqueuePing
<1>4. i \in Ids /\ ~Exists(i)
  BY DEF Free
<1>5. ~Conflicts(s, i, NoSub)
  <2> SUFFICES ASSUME NEW j \in Ids, row[j].status = "pending", row[j].event = i
               PROVE  FALSE
    BY DEF Conflicts
  <2> QED
    BY <1>1, <1>4 DEF Named, Exists
<1> QED
  BY <1>1, <1>2, <1>3, <1>4, <1>5, EnqueuesOne

LEMMA CopyEnqueues ==
    ASSUME QueueInv, NEW i \in Ids, Exists(i), CopyRow(i)
    PROVE  Refines
<1>1. TypeOK /\ Attached /\ UniqueIn(row) /\ Named /\ IInv
  BY DEF QueueInv, IInv
<1>2. Inserted
  BY <1>1, CopyInserts
<1>3. PICK j \in Free : row' = [row EXCEPT ![j] = NewRow(row[i].sub, row[i].event)]
  BY DEF CopyRow
<1>4. row[i].event \in Events \cup Ids
  BY <1>1, RowFields
<1>5. ~Conflicts(row[i].sub, row[i].event, NoSub)
  BY DEF CopyRow
<1>6. row[i].event \in Ids => Exists(row[i].event)
  BY <1>1 DEF Named
<1> QED
  BY <1>1, <1>2, <1>3, <1>4, <1>5, <1>6, EnqueuesOne

LEMMA EmitEnqueues ==
    ASSUME QueueInv, NEW e \in Events, EmitForEvent(e)
    PROVE  Refines
<1>1. TypeOK /\ Attached /\ UniqueIn(row) /\ Named /\ IInv
  BY DEF QueueInv, IInv
<1>2. Inserted
  BY <1>1, EmitInserts
<1>3. PICK ids \in [Targets(e) -> Free] :
        /\ \A s, t \in Targets(e) : ids[s] = ids[t] => s = t
        /\ row' = [i \in Ids |->
                     IF \E s \in Targets(e) : ids[s] = i
                     THEN NewRow(CHOOSE s \in Targets(e) : ids[s] = i, e)
                     ELSE row[i]]
  BY DEF EmitForEvent
<1> DEFINE N == {ids[s] : s \in Targets(e)}
<1>4. N \in SUBSET Free /\ Free \subseteq Ids
  BY <1>3 DEF Free
<1>5. \A i \in Ids \ N : row'[i] = row[i]
  BY <1>3
<1>6. ASSUME NEW t \in Targets(e)
      PROVE  row'[ids[t]] = NewRow(t, e) /\ ~Conflicts(t, e, NoSub)
  <2>1. ids[t] \in Ids
    BY <1>3, <1>4
  <2>2. (CHOOSE s \in Targets(e) : ids[s] = ids[t]) = t
    BY <1>3
  <2>3. row'[ids[t]] = NewRow(t, e)
    BY <1>3, <2>1, <2>2
  <2> QED
    BY <2>3 DEF Targets
<1>7. /\ \A i \in N : /\ row'[i].status = "pending" /\ row'[i].event = e
                      /\ row'[i].attempts = 0
                      /\ ~Conflicts(row'[i].sub, e, NoSub)
      /\ \A i, j \in N : row'[i].sub = row'[j].sub => i = j
  BY <1>6, NewRowFields
<1>8. e \in Events \cup Ids /\ e \notin Ids
  BY WebhookAssumption
<1> HIDE DEF N
<1> QED
  BY <1>1, <1>2, <1>4, <1>5, <1>7, <1>8, Enqueues

\* Steps that change no row and no answer.
LEMMA Unseen ==
    ASSUME QueueInv, row' = row, acked' = acked, refused' = refused
    PROVE  Refines
<1>1. UNCHANGED Promise!vars
  BY QueueStutters
<1> QED
  BY <1>1 DEF Refines, QueueInv, UniqueIn, Named, Exists

\* Rows that keep their names, of which no more than before wait for anyone.
LEMMA NothingAdded ==
    ASSUME QueueInv,
           \A i \in Ids : /\ row'[i].event = row[i].event
                          /\ row'[i].sub \in {row[i].sub, NoSub}
                          /\ row'[i].status = "pending" => row[i].status = "pending"
                          /\ row'[i].status = "none" <=> row[i].status = "none"
    PROVE  UniqueIn(row)' /\ Named'
<1>1. UniqueIn(row')
  BY DEF QueueInv, UniqueIn
<1>2. Named'
  BY DEF QueueInv, Named, Exists
<1> QED
  BY <1>1, <1>2

LEMMA DeleteLeaves ==
    ASSUME QueueInv, NEW s \in Subs, DeleteSubscription(s)
    PROVE  Refines
<1>1. TypeOK
  BY DEF QueueInv, IInv
<1>2. ASSUME NEW i \in Ids
      PROVE  /\ row'[i].event = row[i].event
             /\ row'[i].sub \in {row[i].sub, NoSub}
             /\ row'[i].status = row[i].status
             /\ Entry(row'[i]) = IF Entry(row[i]).owner = s
                                 THEN [Entry(row[i]) EXCEPT !.owner = NoSub]
                                 ELSE Entry(row[i])
  <2>1. row[i] \in Deliveries
    BY <1>1, RowFields
  <2>2. row'[i] = IF row[i].sub = s THEN [row[i] EXCEPT !.sub = NoSub] ELSE row[i]
    BY DEF DeleteSubscription
  <2> QED
    BY <2>1, <2>2 DEF Entry, Deliveries
<1>3. UniqueIn(row)' /\ Named'
  BY <1>2, NothingAdded
<1>4. Promise!Leave(s)
  BY <1>2, QueueFields DEF Promise!Leave, DeleteSubscription, history
<1> QED
  BY <1>3, <1>4 DEF Refines, Promise!Next

LEMMA OrphansDiscarded ==
    ASSUME QueueInv, NEW w \in Workers, FinalizeOrphans(w)
    PROVE  Refines
<1>1. TypeOK
  BY DEF QueueInv, IInv
<1>2. ASSUME NEW i \in Ids
      PROVE  /\ row'[i].event = row[i].event
             /\ row'[i].sub = row[i].sub
             /\ row'[i].status = "pending" => row[i].status = "pending"
             /\ row'[i].status = "none" <=> row[i].status = "none"
             /\ Entry(row'[i]) =
                  IF Entry(row[i]).stage = "pending" /\ Entry(row[i]).owner = NoSub
                  THEN [Entry(row[i]) EXCEPT !.stage = "dead"]
                  ELSE Entry(row[i])
  <2>1. row[i] \in Deliveries
    BY <1>1, RowFields
  <2>2. row'[i] = IF row[i].status = "pending" /\ row[i].sub = NoSub
                  THEN [row[i] EXCEPT !.status = "dead"] ELSE row[i]
    BY DEF FinalizeOrphans, Orphaned
  <2> QED
    BY <2>1, <2>2 DEF Entry, Deliveries
<1>3. UniqueIn(row)' /\ Named'
  BY <1>2, NothingAdded
<1>4. Promise!Discard
  BY <1>2, QueueFields DEF Promise!Discard, FinalizeOrphans, history
<1> QED
  BY <1>3, <1>4 DEF Refines, Promise!Next

\* The locked rows are still pending when their attempts are counted.
LEMMA ClaimTries ==
    ASSUME QueueInv, NEW w \in Workers, ClaimCommit(w)
    PROVE  Refines
<1>1. TypeOK /\ Backed(job[w])
  BY DEF QueueInv, IInv
<1>2. /\ job[w].locked \subseteq Ids
      /\ \A i \in job[w].locked : row[i].status = "pending" /\ row[i].sub # NoSub
  BY <1>1, JobFields DEF ClaimCommit, Backed
<1> DEFINE S == job[w].locked
<1>3. ASSUME NEW i \in Ids
      PROVE  /\ row'[i].event = row[i].event
             /\ row'[i].sub = row[i].sub
             /\ row'[i].status = row[i].status
             /\ Entry(row'[i]) = IF i \in S /\ Entry(row[i]).tries < MaxAttempts
                                 THEN [Entry(row[i]) EXCEPT !.tries = Entry(row[i]).tries + 1]
                                 ELSE Entry(row[i])
  <2>1. row[i] \in Deliveries
    BY <1>1, RowFields
  <2>2. row'[i] = IF i \in S
                  THEN [row[i] EXCEPT !.attempts = CountAttempt(row[i].attempts)]
                  ELSE row[i]
    BY DEF ClaimCommit
  <2>3. row'[i] = IF i \in S /\ row[i].attempts < MaxAttempts
                  THEN [row[i] EXCEPT !.attempts = row[i].attempts + 1] ELSE row[i]
    BY <2>1, <2>2 DEF CountAttempt, Deliveries
  <2> HIDE DEF S
  <2> QED
    BY <2>1, <2>3 DEF Entry, Deliveries
<1>4. UniqueIn(row)' /\ Named'
  BY <1>3, NothingAdded
<1>5. Promise!Try(S)
  BY <1>2, <1>3, QueueFields DEF Promise!Try, ClaimCommit, history
<1> QED
  BY <1>2, <1>4, <1>5 DEF Refines, Promise!Next

\* An answer is to an attempt that has been counted.
LEMMA AnswerAccepted ==
    ASSUME QueueInv, NEW w \in Workers, Deliver(w)
    PROVE  Refines
<1>1. TypeOK /\ Backed(job[w])
  BY DEF QueueInv, IInv
<1>2. PICK item \in job[w].todo, outcome \in Outcomes :
        /\ acked' = IF outcome = "ok" THEN acked \cup {item.id} ELSE acked
        /\ refused' = IF outcome \in {"abort", "rejected"}
                      THEN refused \cup {item.id} ELSE refused
  BY DEF Deliver
<1>3. row' = row /\ job[w].pc = "deliver"
  BY DEF Deliver
<1> DEFINE i == item.id
<1>4. i \in Ids /\ row[i].attempts \in Nat /\ row[i].attempts > 0
  <2>1. item \in Items /\ Counted(item)
    BY <1>1, <1>2, <1>3, JobFields DEF Backed
  <2>2. i \in Ids
    BY <2>1 DEF Items
  <2>3. row[i].attempts \in Nat
    BY <1>1, <2>2, RowFields
  <2> QED
    BY <2>1, <2>2, <2>3 DEF Counted
<1> HIDE DEF i
<1>5. Queue(row)[i].tries > 0
  BY <1>4, QueueFields
<1>6. UniqueIn(row)' /\ Named'
  BY <1>3 DEF QueueInv, UniqueIn, Named, Exists
<1>7. CASE outcome = "ok"
  <2>1. acked' = acked \cup {i} /\ refused' = refused
    BY <1>2, <1>7 DEF i
  <2>2. Promise!Acknowledge(i)
    BY <1>3, <1>5, <2>1 DEF Promise!Acknowledge, Promise!Tried, Queue
  <2> QED
    BY <1>4, <1>6, <2>2 DEF Refines, Promise!Next
<1>8. CASE outcome \in {"abort", "rejected"}
  <2>1. acked' = acked /\ refused' = refused \cup {i}
    BY <1>2, <1>8 DEF i
  <2>2. Promise!Refuse(i)
    BY <1>3, <1>5, <2>1 DEF Promise!Refuse, Promise!Tried, Queue
  <2> QED
    BY <1>4, <1>6, <2>2 DEF Refines, Promise!Next
<1>9. CASE outcome \notin {"ok", "abort", "rejected"}
  BY <1>2, <1>3, <1>9, Unseen
<1> QED
  BY <1>7, <1>8, <1>9

\* What a worker marks is justified by what it has seen, by now or before.
LEMMA MarkRecords ==
    ASSUME QueueInv, NEW w \in Workers, Mark(w)
    PROVE  Refines
<1> DEFINE i == job[w].item.id
           result == job[w].result
           stage == IF result = "retry" THEN "pending" ELSE result
<1>1. /\ TypeOK /\ Backed(job[w]) /\ Judged(job[w])
      /\ UniqueIn(row) /\ Named
  BY DEF QueueInv, IInv
<1>2. /\ job[w].pc \in Recording /\ job[w].item \in Items /\ result \in Results
  BY <1>1, JobFields DEF Mark, Recording
<1>3. i \in Ids /\ job[w].item.attempts \in Nat
  BY <1>2, WebhookAssumption DEF Items, MaxAttempts
<1>4. /\ row[i] \in Deliveries /\ row[i].attempts \in 1..MaxAttempts
      /\ job[w].item.attempts <= row[i].attempts /\ row[i].status # "none"
      /\ MaxAttempts = Len(RetryBackoff) + 1 /\ Len(RetryBackoff) \in Nat
  BY <1>1, <1>2, <1>3, RowFields DEF Backed, Counted, Exists
<1>5. /\ row' = [row EXCEPT ![i] = MarkedRow(row[i], job[w])]
      /\ UNCHANGED <<acked, refused>>
      /\ result = "retry" => ~Conflicts(row[i].sub, row[i].event, i)
  BY DEF Mark
<1>6. /\ result = "delivered" => i \in acked
      /\ result = "dead" => i \in refused \/ job[w].item.attempts > Len(RetryBackoff)
  BY <1>1, <1>2 DEF Judged
<1>7. result = "dead" => i \in refused \/ row[i].attempts = MaxAttempts
  BY <1>3, <1>4, <1>6
<1>8. MarkedRow(row[i], job[w]).status = stage
      /\ MarkedRow(row[i], job[w]).sub = row[i].sub
      /\ MarkedRow(row[i], job[w]).event = row[i].event
      /\ MarkedRow(row[i], job[w]).attempts = row[i].attempts
  BY <1>2, <1>4 DEF MarkedRow, Deliveries, Results
<1> HIDE DEF i, result
<1>9. /\ row'[i].status = stage /\ row'[i].sub = row[i].sub
      /\ row'[i].event = row[i].event /\ row'[i].attempts = row[i].attempts
      /\ \A k \in Ids \ {i} : row'[k] = row[k]
  BY <1>1, <1>3, <1>5, <1>8 DEF TypeOK
<1>10. UniqueIn(row')
  <2>1. CASE stage = "pending"
    <3>1. result = "retry"
      BY <1>2, <2>1 DEF Results
    <3>2. \A k \in Ids \ {i} : row[k].status = "pending" /\ row[k].sub = row[i].sub
             /\ row[i].sub # NoSub => row[k].event # row[i].event
      BY <1>5, <3>1 DEF Conflicts
    <3> QED
      BY <1>1, <1>9, <3>2 DEF UniqueIn
  <2>2. CASE stage # "pending"
    BY <1>1, <1>9, <2>2 DEF UniqueIn
  <2> QED
    BY <2>1, <2>2
<1>11. Named'
  BY <1>1, <1>2, <1>4, <1>9 DEF Named, Exists, Results
<1>12. Promise!Record(i, stage)
  <2>1. Promise!Tried(i)
    BY <1>3, <1>4, QueueFields DEF Promise!Tried, Queue
  <2>2. Queue(row') = [Queue(row) EXCEPT ![i].stage = stage]
    BY <1>3, <1>9 DEF Queue, Entry
  <2> QED
    BY <1>5, <2>1, <2>2 DEF Promise!Record, Queue
<1>13. Promise!Next
  <2>1. CASE result = "delivered"
    BY <1>3, <1>6, <1>12, <2>1 DEF Promise!Deliver, Promise!Next
  <2>2. CASE result = "dead"
    <3>1. i \in refused \/ Queue(row)[i].tries = MaxAttempts
      BY <1>3, <1>7, <2>2, QueueFields
    <3> QED
      BY <1>3, <1>12, <2>2, <3>1 DEF Promise!GiveUp, Promise!Next, Queue
  <2>3. CASE result = "retry"
    <3>1. Promise!WaitsOnce(Queue(row'))
      BY <1>10, QueueWaitsOnce
    <3> QED
      BY <1>3, <1>12, <2>3, <3>1 DEF Promise!Retry, Promise!Next, Queue
  <2> QED
    BY <1>2, <2>1, <2>2, <2>3 DEF Results
<1> QED
  BY <1>10, <1>11, <1>13 DEF Refines

LEMMA QueueInit == Init => Promise!Init /\ UniqueIn(row) /\ Named
<1> SUFFICES ASSUME Init PROVE Promise!Init /\ UniqueIn(row) /\ Named
  OBVIOUS
<1>1. \A i \in Ids : Entry(row[i]) = [stage |-> "none", owner |-> NoSub,
                                      name |-> i, tries |-> 0]
  BY DEF Init, Entry
<1> DEFINE New == [stage: {"none"}, owner: {NoSub}, name: Events \cup Ids, tries: {0}]
<1>2. [i \in Ids |-> Entry(row[i])] \in [Ids -> New]
  <2>1. ASSUME NEW i \in Ids
        PROVE  Entry(row[i]) \in New
    <3>1. Entry(row[i]) = [stage |-> "none", owner |-> NoSub, name |-> i, tries |-> 0]
      BY <1>1
    <3>2. [stage |-> "none", owner |-> NoSub, name |-> i, tries |-> 0] \in New
      OBVIOUS
    <3> QED
      BY ONLY <3>1, <3>2
  <2> HIDE DEF New
  <2> QED
    BY <2>1
<1>3. Promise!Init
  BY <1>2 DEF Init, Promise!Init
<1> QED
  BY <1>3 DEF Init, UniqueIn, Named, Exists

LEMMA QueueStep ==
    ASSUME QueueInv, Next
    PROVE  Refines
<1> USE DEF history
<1>1. CASE \E s \in Subs : \/ CreateSubscription(s)
                           \/ \E b \in BOOLEAN : SetSubscriptionActive(s, b)
  BY <1>1, Unseen DEF CreateSubscription, SetSubscriptionActive
<1>2. ASSUME NEW s \in Subs, DeleteSubscription(s)
      PROVE  Refines
  BY <1>2, DeleteLeaves
<1>3. ASSUME NEW s \in Subs, EnqueuePing(s)
      PROVE  Refines
  BY <1>3, PingEnqueues
<1>4. ASSUME NEW e \in Events, EmitForEvent(e)
      PROVE  Refines
  BY <1>4, EmitEnqueues
<1>5. ASSUME NEW i \in Ids, Redeliver(i) \/ AdminRedeliver(i)
      PROVE  Refines
  BY <1>5, CopyEnqueues DEF Redeliver, AdminRedeliver
<1>6. ASSUME NEW w \in Workers, FinalizeOrphans(w)
      PROVE  Refines
  BY <1>6, OrphansDiscarded
<1>7. ASSUME NEW w \in Workers, ClaimCommit(w)
      PROVE  Refines
  BY <1>7, ClaimTries
<1>8. ASSUME NEW w \in Workers, Deliver(w)
      PROVE  Refines
  BY <1>8, AnswerAccepted
<1>9. ASSUME NEW w \in Workers, Mark(w)
      PROVE  Refines
  BY <1>9, MarkRecords
<1>10. ASSUME NEW w \in Workers,
              \/ ClaimLock(w) \/ MarkConflict(w) \/ Stamp(w) \/ Check(w)
              \/ AutoDisable(w) \/ StatementFails(w) \/ Crash(w)
       PROVE  Refines
  BY <1>10, Unseen DEF ClaimLock, MarkConflict, Stamp, Check, AutoDisable,
     StatementFails, Crash
<1>11. CASE Tick
  BY <1>11, Unseen DEF Tick
<1> QED
  BY <1>1, <1>2, <1>3, <1>4, <1>5, <1>6, <1>7, <1>8, <1>9, <1>10, <1>11
     DEF Next, DeliverPending

\* The workers implement the queue of module DeliveryQueue: of an event that is
\* queued for a subscription once, they record only what an answer or the
\* attempts counted justify at that instant, however many of them claimed the
\* row, were late or died (ClaimPending, deliverOne, MarkDelivered, MarkRetry,
\* and EmitForEvent, EnqueuePing and Redeliver with the unique index).
THEOREM Implements == Spec => ImplementsQueue
<1>1. Init => Promise!Init /\ UniqueIn(row) /\ Named
  BY QueueInit
<1>2. IInv /\ UniqueIn(row) /\ Named /\ [Next]_vars
        => UniqueIn(row)' /\ Named' /\ [Promise!Next]_(Promise!vars)
  <2> SUFFICES ASSUME QueueInv, [Next]_vars PROVE Refines
    BY DEF QueueInv, Refines
  <2>1. CASE Next
    BY <2>1, QueueStep
  <2>2. CASE UNCHANGED vars
    BY <2>2, Unseen DEF vars
  <2> QED
    BY <2>1, <2>2
<1> QED
  BY <1>1, <1>2, InvariantHolds, PTL DEF Spec, ImplementsQueue, Promise!Spec

=============================================================================
