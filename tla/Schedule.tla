------------------------------ MODULE Schedule ------------------------------
(***************************************************************************)
(* User-defined schedules (schedule/): plans with a cron expression and a  *)
(* stored next_fire_at, the scanners that claim due plans with a           *)
(* conditional update and enqueue one River job per fire, the fire worker, *)
(* and the edits of the plans' owners, each a read followed by a write of  *)
(* the whole row.                                                          *)
(*                                                                         *)
(* A step is one SQL statement, one reading of the clock, or what a process *)
(* does between two.  Time is counted in ticks from 1, a tick being a       *)
(* minute, the resolution of a cron; scans and edits may last for any       *)
(* number of them.  Zero is Go's zero time, before every tick.              *)
(***************************************************************************)
EXTENDS Integers, Sequences, FiniteSets

CONSTANTS
    Plans,          \* plan ids of one workspace
    Crons,          \* cron expressions with a time zone, see Fires
    Bad,            \* an expression or time zone that no longer parses
    Fires,          \* [every, at] of a cron; every = 0 is one that never fires
    Misfires,       \* policies in use, a subset of {"skip", "once"}
    Scanners,       \* ScannerWorkers, one per replica
    Editors,        \* concurrent callers of Update
    Batch,          \* ScannerWorker.Batch
    Grace,          \* the grace period, in ticks
    Penalty,        \* poisonRetry, in ticks
    MaxEdits,       \* bound on the updates
    MaxFaults,      \* bound on crashes and failed statements
    MaxTime         \* bound on the clock

ASSUME ScheduleAssumption ==
    /\ Bad \notin Crons
    /\ Fires \in [Crons -> [every: Nat, at: Nat]]
    /\ Misfires \subseteq {"skip", "once"}
    /\ Batch \in Nat \ {0} /\ Grace \in Nat /\ Penalty \in Nat \ {0}
    /\ MaxEdits \in Nat /\ MaxFaults \in Nat /\ MaxTime \in Nat \ {0}

VARIABLES
    now,            \* the clock of every process
    plan,           \* schedule_plan
    scan,           \* what each scanner is doing
    edit,           \* the update each editor is about to make
    jobs,           \* River jobs by plan and scheduled_for
    claims,         \* history: the next fire that the last claim of a fire
                    \* wrote, since the plan was edited
    accepted,       \* history: claimed fires the misfire policy lets through,
                    \* but for those given up by a crash or a failed insert
    late,           \* history: plans given a next fire that was over when written
    edits,          \* updates so far
    faults          \* crashes and failed statements so far

vars == <<now, plan, scan, edit, jobs, claims, accepted, late, edits, faults>>

-----------------------------------------------------------------------------
(* cronx *)

Zero == 0
Times == 1..MaxTime

\* The first fire after t.  The parser accepts expressions that match no
\* date; the library answers the zero time for them, without an error.
NextFire(c, t) ==
    LET f == Fires[c] IN
    IF f.every = 0 THEN Zero
    ELSE CHOOSE u \in (t + 1)..(t + f.every) : u % f.every = f.at % f.every

FireTimes == {Zero} \cup {NextFire(c, t) : c \in Crons, t \in Times}
NextTimes == FireTimes \cup {t + Penalty : t \in Times}

-----------------------------------------------------------------------------
(* Rows and jobs *)

Rows == [state: {"new", "live", "gone"}, cron: Crons \cup {Bad},
         misfire: {"skip", "once"}, enabled: BOOLEAN, next: NextTimes]

\* A candidate of ClaimDue's SELECT, and a plan it claimed.
Candidates == [id: Plans, cron: Crons \cup {Bad}, next: NextTimes]
Claims == [id: Plans, misfire: {"skip", "once"}, due: NextTimes]

Live(p) == plan[p].state = "live"

Idle == [pc |-> "idle"]

Scans ==
    {Idle} \cup [pc: {"select"}, at: Times] \cup
    [pc: {"claim"}, at: Times, candidates: Seq(Candidates) \ {<<>>},
     claimed: Seq(Claims)]
    \cup [pc: {"fire"}, at: Times, claimed: Seq(Claims) \ {<<>>}]

Edits == {Idle} \cup [pc: {"compute", "write"}, id: Plans, row: Rows]

Unclaimed == -1

Init ==
    /\ now = 1
    /\ plan \in [Plans -> {[state |-> "new", cron |-> Bad, misfire |-> "skip",
                            enabled |-> FALSE, next |-> Zero]}]
    /\ scan = [s \in Scanners |-> Idle]
    /\ edit = [e \in Editors |-> Idle]
    /\ jobs = [j \in Plans \X NextTimes |-> "none"]
    /\ claims = [j \in Plans \X NextTimes |-> Unclaimed]
    /\ accepted = {}
    /\ late = {}
    /\ edits = 0
    /\ faults = 0

-----------------------------------------------------------------------------
(* Service: the plans' owners *)

\* The clock is read before the row is inserted, maybe long before.
Create(p) ==
    /\ plan[p].state = "new"
    /\ \E c \in Crons, m \in Misfires, t \in 1..now :
          /\ plan' = [plan EXCEPT ![p] =
                        [state |-> "live", cron |-> c, misfire |-> m,
                         enabled |-> TRUE, next |-> NextFire(c, t)]]
          /\ late' = IF NextFire(c, t) > now THEN late ELSE late \cup {p}
    /\ UNCHANGED <<now, scan, edit, jobs, claims, accepted, edits, faults>>

Delete(p) ==
    /\ Live(p)
    /\ plan' = [plan EXCEPT ![p].state = "gone"]
    /\ UNCHANGED <<now, scan, edit, jobs, claims, accepted, late, edits, faults>>

Disabled(r) == {[r EXCEPT !.enabled = FALSE]}
Relabelled(r) == {[r EXCEPT !.misfire = m] : m \in Misfires}

\* Update reads the row.  A new cron and enabling have next_fire_at computed
\* anew; any other input keeps the one that was read.
UpdateRead(e, p) ==
    /\ edits < MaxEdits /\ edits' = edits + 1
    /\ edit[e] = Idle
    /\ Live(p)
    /\ \/ edit' = [edit EXCEPT ![e] =
                     [pc |-> "compute", id |-> p, row |-> plan[p]]]
       \/ \E r \in Disabled(plan[p]) \cup Relabelled(plan[p]) :
             edit' = [edit EXCEPT ![e] = [pc |-> "write", id |-> p, row |-> r]]
    /\ UNCHANGED <<now, plan, scan, jobs, claims, accepted, late, faults>>

RescheduledOnly(r) == {[r EXCEPT !.cron = c] : c \in Crons}

Rescheduled(r) == {[r EXCEPT !.cron = c, !.next = NextFire(c, now)] : c \in Crons}
Enabled(r) == IF r.cron = Bad THEN {}
              ELSE {[r EXCEPT !.enabled = TRUE, !.next = NextFire(r.cron, now)]}

\* validateCron reads the clock and computes the next fire.
UpdateCompute(e) ==
    /\ edit[e].pc = "compute"
    /\ \E r \in Rescheduled(edit[e].row) \cup Enabled(edit[e].row) :
          edit' = [edit EXCEPT ![e] = [pc |-> "write", id |-> @.id, row |-> r]]
    /\ UNCHANGED <<now, plan, scan, jobs, claims, accepted, late, edits, faults>>

\* A row that is put back with the cron and the next fire the table holds
\* does not make the plan late.
InTime(r, p) == \/ r.next > now
                \/ r.cron = plan[p].cron /\ r.next = plan[p].next

\* The whole row is written, whatever has become of it since the read.
UpdateWrite(e) ==
    /\ edit[e].pc = "write"
    /\ LET p == edit[e].id
           r == edit[e].row IN
       /\ plan' = IF Live(p) THEN [plan EXCEPT ![p] = r] ELSE plan
       /\ late' = IF Live(p) /\ ~InTime(r, p) THEN late \cup {p} ELSE late
       /\ claims' = [j \in DOMAIN claims |->
                       IF j[1] = p THEN Unclaimed ELSE claims[j]]
    /\ edit' = [edit EXCEPT ![e] = Idle]
    /\ UNCHANGED <<now, scan, jobs, accepted, edits, faults>>

\* The stored time zone is dropped from the zone database, or the row is
\* edited outside the service.
Spoil(p) ==
    /\ Live(p) /\ plan[p].cron # Bad
    /\ faults < MaxFaults /\ faults' = faults + 1
    /\ plan' = [plan EXCEPT ![p].cron = Bad]
    /\ UNCHANGED <<now, scan, edit, jobs, claims, accepted, late, edits>>

-----------------------------------------------------------------------------
(* ScannerWorker *)

DueAt(p, t) == /\ Live(p) /\ plan[p].enabled
               /\ plan[p].next <= t

\* ORDER BY next_fire_at LIMIT batch.
IsSelection(ps, t) ==
    /\ ps \in [1..Len(ps) -> {p \in Plans : DueAt(p, t)}]
    /\ \A i, j \in DOMAIN ps : i < j => /\ ps[i] # ps[j]
                                        /\ plan[ps[i]].next <= plan[ps[j]].next
    /\ \A p \in Plans : DueAt(p, t) =>
          \/ \E i \in DOMAIN ps : ps[i] = p
          \/ /\ Len(ps) = Batch
             /\ \A i \in DOMAIN ps : plan[ps[i]].next <= plan[p].next

\* When no candidate is left, go on to fireClaimed, if there is anything to fire.
FireOrRest(c) ==
    IF c.candidates # <<>> THEN c
    ELSE IF c.claimed = <<>> THEN Idle
    ELSE [pc |-> "fire", at |-> c.at, claimed |-> c.claimed]

Candidate(p) == [id |-> p, cron |-> plan[p].cron, next |-> plan[p].next]

\* The scan works with the time at which it began.
Begin(s) ==
    /\ scan[s] = Idle
    /\ scan' = [scan EXCEPT ![s] = [pc |-> "select", at |-> now]]
    /\ UNCHANGED <<now, plan, edit, jobs, claims, accepted, late, edits, faults>>

Select(s) ==
    /\ scan[s].pc = "select"
    /\ \E n \in 0..Batch : \E ps \in [1..n -> Plans] :
          /\ IsSelection(ps, scan[s].at)
          /\ scan' = [scan EXCEPT ![s] = FireOrRest(
                        [pc |-> "claim", at |-> scan[s].at, claimed |-> <<>>,
                         candidates |-> [i \in 1..n |-> Candidate(ps[i])]])]
    /\ UNCHANGED <<now, plan, edit, jobs, claims, accepted, late, edits, faults>>

Claiming(s) == scan[s].pc = "claim"

ClaimableAlways(p, t) == Live(p) /\ plan[p].enabled

Claimable(p, t) == DueAt(p, t)

\* PlanFires: the fires that a claim leads to, at most one.
PlanFires(misfire, due, t) ==
    IF t > due + Grace /\ misfire # "once" THEN {} ELSE {due}

\* The row is claimed if it is still due at the time of the scan, whatever
\* else has changed; the next fire and the due come from the candidate.
ClaimPlan(s) ==
    /\ Claiming(s)
    /\ LET c == Head(scan[s].candidates)
           p == c.id
           t == scan[s].at
           rest == [scan[s] EXCEPT !.candidates = Tail(@)] IN
       /\ c.cron # Bad
       /\ IF Claimable(p, t)
          THEN /\ plan' = [plan EXCEPT ![p].next = NextFire(c.cron, t)]
               /\ claims' = [claims EXCEPT ![<<p, c.next>>] = NextFire(c.cron, t)]
               /\ accepted' = accepted \cup
                     {<<p, u>> : u \in PlanFires(plan[p].misfire, c.next, t)}
               /\ scan' = [scan EXCEPT ![s] =
                             FireOrRest([rest EXCEPT !.claimed =
                               Append(@, [id |-> p, misfire |-> plan[p].misfire,
                                          due |-> c.next])])]
          ELSE /\ scan' = [scan EXCEPT ![s] = FireOrRest(rest)]
               /\ UNCHANGED <<plan, claims, accepted>>
    /\ UNCHANGED <<now, edit, jobs, late, edits, faults>>

NotPenalised(r, t) == r

Penalised(r, t) == [r EXCEPT !.next = t + Penalty]

\* A candidate whose cron does not parse is put off.
PenalisePlan(s) ==
    /\ Claiming(s)
    /\ LET c == Head(scan[s].candidates)
           t == scan[s].at
           rest == [scan[s] EXCEPT !.candidates = Tail(@)] IN
       /\ c.cron = Bad
       /\ plan' = IF DueAt(c.id, t)
                  THEN [plan EXCEPT ![c.id] = Penalised(@, t)] ELSE plan
       /\ scan' = [scan EXCEPT ![s] = FireOrRest(rest)]
    /\ UNCHANGED <<now, edit, jobs, claims, accepted, late, edits, faults>>

\* A failed claim ends ClaimDue; what is claimed so far is still fired.
ClaimsSoFar(c) == FireOrRest([c EXCEPT !.candidates = <<>>])

ClaimFails(s) ==
    /\ faults < MaxFaults /\ faults' = faults + 1
    /\ Claiming(s)
    /\ scan' = [scan EXCEPT ![s] = ClaimsSoFar(@)]
    /\ UNCHANGED <<now, plan, edit, jobs, claims, accepted, late, edits>>

Fired(s) == IF Len(scan[s].claimed) = 1 THEN Idle
            ELSE [scan[s] EXCEPT !.claimed = Tail(@)]

UniqueByPlan(j) == \A k \in DOMAIN jobs : k[1] = j[1] => jobs[k] = "none"

\* River keeps jobs unique by their arguments, also those that ran.
Unique(j) == jobs[j] = "none"

Fire(s) ==
    /\ scan[s].pc = "fire"
    /\ LET c == Head(scan[s].claimed) IN
       jobs' = [j \in DOMAIN jobs |->
                  IF /\ Unique(j)
                     /\ j \in {c.id} \X PlanFires(c.misfire, c.due, scan[s].at)
                  THEN "queued" ELSE jobs[j]]
    /\ scan' = [scan EXCEPT ![s] = Fired(s)]
    /\ UNCHANGED <<now, plan, edit, claims, accepted, late, edits, faults>>

\* The insert fails: logged, and the fire is given up.
FireFails(s) ==
    /\ faults < MaxFaults /\ faults' = faults + 1
    /\ scan[s].pc = "fire"
    /\ LET c == Head(scan[s].claimed) IN
       accepted' = accepted \ {<<c.id, c.due>>}
    /\ scan' = [scan EXCEPT ![s] = Fired(s)]
    /\ UNCHANGED <<now, plan, edit, jobs, claims, late, edits>>

\* What a scan has claimed and not yet fired.
Holds(r, f) == /\ r.pc \in {"claim", "fire"}
               /\ \E i \in DOMAIN r.claimed : /\ r.claimed[i].id = f[1]
                                              /\ r.claimed[i].due = f[2]

Crash(s) ==
    /\ faults < MaxFaults /\ faults' = faults + 1
    /\ scan[s] # Idle
    /\ accepted' = {f \in accepted : ~Holds(scan[s], f)}
    /\ scan' = [scan EXCEPT ![s] = Idle]
    /\ UNCHANGED <<now, plan, edit, jobs, claims, late, edits>>

-----------------------------------------------------------------------------
(* FireWorker *)

\* A plan that is gone makes the job a no-op.
Work(j) ==
    /\ jobs[j] = "queued"
    /\ jobs' = [jobs EXCEPT ![j] = IF Live(j[1]) THEN "ran" ELSE "dropped"]
    /\ UNCHANGED <<now, plan, scan, edit, claims, accepted, late, edits, faults>>

\* A minute ends, whatever scans and edits are under way.
Tick ==
    /\ now < MaxTime
    /\ now' = now + 1
    /\ UNCHANGED <<plan, scan, edit, jobs, claims, accepted, late, edits, faults>>

-----------------------------------------------------------------------------

\* ScanOnce, called on every tick of ScannerWorker.Run.
ScanOnce(s) == Begin(s) \/ Select(s) \/ ClaimPlan(s) \/ PenalisePlan(s) \/ Fire(s)

Next ==
    \/ \E p \in Plans : Create(p) \/ Delete(p) \/ Spoil(p)
    \/ \E e \in Editors : \/ UpdateCompute(e) \/ UpdateWrite(e)
                          \/ \E p \in Plans : UpdateRead(e, p)
    \/ \E s \in Scanners : \/ ScanOnce(s)
                           \/ ClaimFails(s) \/ FireFails(s) \/ Crash(s)
    \/ \E j \in DOMAIN jobs : Work(j)
    \/ Tick

Spec == Init /\ [][Next]_vars

\* The scanners' loops go on, and so does the clock.
FairSpec == /\ Spec
            /\ \A s \in Scanners : WF_vars(ScanOnce(s))
            /\ WF_vars(Tick)

-----------------------------------------------------------------------------
(* Properties *)

\* The type invariant: plans, scans, edits and jobs.
TypeOK ==
    /\ now \in Times
    /\ plan \in [Plans -> Rows]
    /\ scan \in [Scanners -> Scans]
    /\ edit \in [Editors -> Edits]
    /\ jobs \in [Plans \X NextTimes -> {"none", "queued", "ran", "dropped"}]
    /\ claims \in [Plans \X NextTimes -> NextTimes \cup {Unclaimed}]
    /\ accepted \subseteq Plans \X NextTimes
    /\ late \subseteq Plans
    /\ edits \in 0..MaxEdits
    /\ faults \in 0..MaxFaults

\* The fire that scanner s is about to claim.
FireAhead(s) == LET c == Head(scan[s].candidates) IN <<c.id, c.next>>

\* Of the scans that begin before the next fire of a plan, one claims the
\* fire that is due, however long they last and however they overlap: a claim
\* takes the plan out of their reach, and another claim of the same fire
\* comes from a scan that began at or after the next fire, which the last
\* claim wrote (the conditional update of ClaimDue).  Such a claim takes the
\* new fire under the old one's due: the comparison with the time of the scan
\* lets it through, and a comparison with the row it read, which
\* docs/adr/0001 promises, would not; River drops its job and the new fire is
\* lost.  Left out are plans of which an update or the insert wrote a next
\* fire that was over by then, and claims before the last update.
OneClaimPerFire ==
    [][\A s \in Scanners : ClaimPlan(s) =>
          LET f == FireAhead(s)
              t == scan[s].at IN
          Claimable(f[1], t) /\ f[1] \notin late =>
             /\ claims[f] = Unclaimed \/ claims[f] <= t
             /\ claims'[f] > t]_vars

\* A claimed fire that the misfire policy lets through has its job, or a
\* scanner is on its way to insert it, also when a claim fails in the middle
\* of a batch; only a failed insert and the end of the process give it up
\* (ScanOnce, fireClaimed).
NoFireLost ==
    \A f \in accepted : \/ jobs[f] # "none"
                        \/ \E s \in Scanners : Holds(scan[s], f)

\* A claim does not swallow a concurrent reschedule, nor a reschedule a
\* claim: next_fire_at is a fire of the cron the row holds now, or the end of
\* a penalty for one that did not parse (ClaimDue computes it from its
\* candidate, Update from what it read), scans and updates lasting as long
\* as they may.  The exception are plans of which an update or the insert
\* wrote a next fire that was over by then: a scan that read the old cron
\* finds such a row due and puts the old cron's next fire over the new one,
\* which docs/adr/0001 says cannot happen.
NextMatchesCron ==
    \A p \in Plans \ late : Live(p) /\ plan[p].cron # Bad =>
       \E t \in Times : \/ plan[p].next = NextFire(plan[p].cron, t)
                       \/ plan[p].next = t + Penalty

\* Every due plan is eventually claimed, put off or disabled: a plan that
\* does not parse, other plans and replicas, edits and crashes never make it
\* stay due for ever (ClaimDue, poisonRetry).  Only a cron that matches no
\* date, whose next fire is the zero time, does.
EventuallyServed ==
    \A p \in Plans : DueAt(p, now) ~> ~DueAt(p, now) \/ plan[p].next = Zero
=============================================================================
