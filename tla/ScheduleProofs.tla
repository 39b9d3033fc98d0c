---------------------------- MODULE ScheduleProofs ----------------------------
(***************************************************************************)
(* Proofs about Schedule: the safety properties of user-defined schedules  *)
(* hold for any number of plans, scanners and concurrent updates, any crons *)
(* and any batch, grace period and penalty, whatever time scans and updates *)
(* take.                                                                    *)
(***************************************************************************)
EXTENDS Schedule, TLAPS

-----------------------------------------------------------------------------
(* The inductive invariant *)

\* Scan r has still to claim candidate c.
Waiting(r, c) == /\ r.pc = "claim"
                 /\ \E i \in DOMAIN r.candidates : r.candidates[i] = c

\* Scan r has claimed fire f and has still to insert its job.
Owing(r, f) ==
    /\ r.pc \in {"claim", "fire"}
    /\ \E i \in DOMAIN r.claimed :
          LET k == r.claimed[i] IN
          /\ k.id = f[1] /\ k.due = f[2]
          /\ k.due \in PlanFires(k.misfire, k.due, r.at)

AcceptedAreOwed ==
    \A f \in accepted : \/ jobs[f] # "none"
                        \/ \E s \in Scanners : Owing(scan[s], f)

\* A scan works with a time that is over.
ScansArePast ==
    \A s \in Scanners : scan[s].pc \in {"select", "claim"} => scan[s].at <= now

\* The next fire of a row is one of its cron, or the end of a penalty.
Matches(r) ==
    r.cron # Bad =>
       \E t \in Times : r.next = NextFire(r.cron, t) \/ r.next = t + Penalty

\* A cron that matches some date, or does not parse.
Recurs(k) == k # Bad => Fires[k].every > 0

RowsAreSound ==
    \A p \in Plans \ late : Live(p) => Matches(plan[p]) /\ Recurs(plan[p].cron)

\* What an update is about to write of a plan is as sound, or it will make
\* the plan late.
EditsAreSound ==
    \A e \in Editors : edit[e].pc # "idle" =>
       LET r == edit[e].row IN
       /\ r.state = "live"
       /\ edit[e].id \notin late =>
             Matches(r) /\ (Recurs(r.cron) \/ r.next = Zero)

\* A scan that holds an old cron of a plan began before the plan's next fire
\* and will not claim it.
CandidatesAgree ==
    \A s \in Scanners, c \in Candidates : Waiting(scan[s], c) =>
       /\ plan[c.id].state # "new"
       /\ Live(c.id) /\ c.id \notin late =>
             /\ Recurs(c.cron)
             /\ \/ c.cron \in {Bad, plan[c.id].cron}
                \/ plan[c.id].cron = Bad
                \/ plan[c.id].next > scan[s].at

\* The next fire of a plan is not before the one that a claim wrote.
ClaimedIsPast ==
    \A p \in Plans, u \in NextTimes : claims[<<p, u>>] # Unclaimed =>
       /\ plan[p].state # "new"
       /\ Live(p) /\ p \notin late => plan[p].next >= claims[<<p, u>>]

IInv ==
    /\ TypeOK
    /\ AcceptedAreOwed
    /\ ScansArePast
    /\ RowsAreSound
    /\ EditsAreSound
    /\ CandidatesAgree
    /\ ClaimedIsPast

-----------------------------------------------------------------------------
(* Crons *)

\* What the remainder says of a number that is written as a multiple plus r.
LEMMA Remainder ==
    ASSUME NEW m \in Nat \ {0}, NEW b \in Int, NEW q \in Int,
           NEW r \in 0..(m - 1), b = m * q + r
    PROVE  b % m = r
BY SMTT(60)

LEMMA Division ==
    ASSUME NEW m \in Nat \ {0}, NEW b \in Int
    PROVE  b \div m \in Int /\ b % m \in 0..(m - 1) /\ b = m * (b \div m) + (b % m)
BY SMT

\* A cron that repeats every m ticks has a fire in the m ticks after t.
LEMMA FireExists ==
    ASSUME NEW m \in Nat \ {0}, NEW a \in Nat, NEW t \in Nat
    PROVE  \E u \in (t + 1)..(t + m) : u % m = a % m
<1> DEFINE b == a - (t + 1)
           u == (t + 1) + (b % m)
<1>1. a \in Int /\ b \in Int
  OBVIOUS
<1>2. /\ a \div m \in Int /\ a % m \in 0..(m - 1) /\ a = m * (a \div m) + (a % m)
      /\ b \div m \in Int /\ b % m \in 0..(m - 1) /\ b = m * (b \div m) + (b % m)
  BY <1>1, Division
<1>3. u = m * ((a \div m) - (b \div m)) + (a % m)
  BY <1>1, <1>2
<1>4. u \in (t + 1)..(t + m) /\ (a \div m) - (b \div m) \in Int /\ u \in Int
  BY <1>2
<1> HIDE DEF u, b
<1>5. u % m = a % m
  BY <1>2, <1>3, <1>4, Remainder
<1> QED
  BY <1>4, <1>5

LEMMA NextFireIsLater ==
    ASSUME NEW c \in Crons, Recurs(c), NEW t \in Nat
    PROVE  NextFire(c, t) \in Nat /\ NextFire(c, t) > t
<1> DEFINE f == Fires[c]
<1>1. f.every \in Nat \ {0} /\ f.at \in Nat
  BY ScheduleAssumption DEF Recurs
<1>2. \E u \in (t + 1)..(t + f.every) : u % f.every = f.at % f.every
  BY <1>1, FireExists
<1>3. NextFire(c, t) \in (t + 1)..(t + f.every)
  BY <1>1, <1>2 DEF NextFire
<1> QED
  BY <1>1, <1>3

LEMMA TimesTypes ==
    /\ Zero \in NextTimes
    /\ \A t \in Times : t \in Nat /\ t + Penalty \in NextTimes /\ t + Penalty > t
    /\ \A c \in Crons, t \in Times : NextFire(c, t) \in NextTimes
BY ScheduleAssumption DEF Times, NextTimes, FireTimes

\* A cron that matches no date has the zero time for its next fire.
LEMMA NextFireIsNat ==
    ASSUME NEW c \in Crons, NEW t \in Times
    PROVE  NextFire(c, t) \in Nat /\ (Recurs(c) \/ NextFire(c, t) = Zero)
<1>1. CASE Recurs(c)
  BY <1>1, NextFireIsLater, TimesTypes
<1>2. CASE ~Recurs(c)
  <2>1. Fires[c].every = 0
    BY <1>2, ScheduleAssumption DEF Recurs
  <2> QED
    BY <2>1 DEF NextFire, Zero
<1> QED
  BY <1>1, <1>2

LEMMA NextTimesAreNat == NextTimes \subseteq Nat
<1> SUFFICES ASSUME NEW u \in NextTimes PROVE u \in Nat
  OBVIOUS
<1>1. CASE u = Zero
  BY <1>1 DEF Zero
<1>2. ASSUME NEW t \in Times, u = t + Penalty PROVE u \in Nat
  BY <1>2, ScheduleAssumption DEF Times
<1>3. ASSUME NEW c \in Crons, NEW t \in Times, u = NextFire(c, t) PROVE u \in Nat
  BY <1>3, NextFireIsNat
<1> QED
  BY <1>1, <1>2, <1>3 DEF NextTimes, FireTimes

-----------------------------------------------------------------------------
(* Facts about rows, updates and scans *)

LEMMA RowFields ==
    ASSUME NEW r \in Rows
    PROVE  /\ r.state \in {"new", "live", "gone"} /\ r.cron \in Crons \cup {Bad}
           /\ r.misfire \in {"skip", "once"} /\ r.enabled \in BOOLEAN
           /\ r.next \in NextTimes
           /\ \A u \in NextTimes : [r EXCEPT !.next = u] \in Rows
           /\ \A k \in Crons \cup {Bad} : [r EXCEPT !.cron = k] \in Rows
           /\ \A u : /\ [r EXCEPT !.next = u].next = u
                     /\ [r EXCEPT !.next = u].cron = r.cron
                     /\ [r EXCEPT !.next = u].state = r.state
           /\ \A k : /\ [r EXCEPT !.cron = k].next = r.next
                     /\ [r EXCEPT !.cron = k].cron = k
                     /\ [r EXCEPT !.cron = k].state = r.state
BY DEF Rows

\* The rows that Update may write keep the cron and the next fire, or have
\* the next fire computed from a cron that parses.
LEMMA KeptFields ==
    ASSUME NEW r \in Rows, NEW n \in Disabled(r) \cup Relabelled(r)
    PROVE  n \in Rows /\ n.cron = r.cron /\ n.next = r.next /\ n.state = r.state
<1>1. CASE n \in Disabled(r)
  BY <1>1 DEF Disabled, Rows
<1>2. CASE n \in Relabelled(r)
  <2>1. PICK m \in {"skip", "once"} : n = [r EXCEPT !.misfire = m]
    BY <1>2, ScheduleAssumption DEF Relabelled
  <2> QED
    BY <2>1 DEF Rows
<1> QED
  BY <1>1, <1>2

LEMMA ComputedFields ==
    ASSUME TypeOK, NEW r \in Rows, NEW n \in Rescheduled(r) \cup Enabled(r)
    PROVE  /\ n \in Rows /\ n.state = r.state
           /\ n.cron \in Crons /\ n.next = NextFire(n.cron, now)
<1>1. now \in Times
  BY DEF TypeOK
<1>2. \A c \in Crons : NextFire(c, now) \in NextTimes
  BY <1>1, TimesTypes
<1>3. CASE n \in Rescheduled(r)
  BY <1>2, <1>3 DEF Rescheduled, Rows
<1>4. CASE n \in Enabled(r)
  <2>1. r.cron \in Crons /\ n = [r EXCEPT !.enabled = TRUE,
                                          !.next = NextFire(r.cron, now)]
    BY <1>4 DEF Enabled, Rows
  <2> QED
    BY <1>2, <2>1 DEF Rows
<1> QED
  BY <1>3, <1>4

Claimings == [pc: {"claim"}, at: Times, candidates: Seq(Candidates),
              claimed: Seq(Claims)]

LEMMA ScanFields ==
    ASSUME TypeOK, NEW s \in Scanners
    PROVE  /\ scan[s].pc \in {"idle", "select", "claim", "fire"}
           /\ scan[s].pc = "select" => scan[s].at \in Times
           /\ scan[s].pc = "claim" => /\ scan[s] \in Claimings
                                      /\ scan[s].at \in Times
                                      /\ scan[s].candidates \in Seq(Candidates)
                                      /\ scan[s].candidates # <<>>
                                      /\ scan[s].claimed \in Seq(Claims)
           /\ scan[s].pc = "fire" => /\ scan[s].at \in Times
                                     /\ scan[s].claimed \in Seq(Claims)
                                     /\ scan[s].claimed # <<>>
                                     /\ scan[s] = [pc |-> "fire", at |-> scan[s].at,
                                                   claimed |-> scan[s].claimed]
<1>1. scan[s] \in Scans
  BY DEF TypeOK
<1> QED
  BY <1>1 DEF Scans, Idle, Claimings

LEMMA EditFields ==
    ASSUME TypeOK, NEW e \in Editors
    PROVE  /\ edit[e].pc \in {"idle", "compute", "write"}
           /\ edit[e].pc # "idle" =>
                 /\ edit[e].id \in Plans /\ edit[e].row \in Rows
           /\ Idle.pc = "idle"
<1>1. edit[e] \in Edits
  BY DEF TypeOK
<1>2. CASE edit[e] = Idle
  BY <1>2 DEF Idle
<1>3. CASE edit[e] \in [pc: {"compute", "write"}, id: Plans, row: Rows]
  <2>1. edit[e].id \in Plans /\ edit[e].row \in Rows /\ edit[e].pc \in {"compute", "write"}
    BY <1>3
  <2> QED
    BY <2>1 DEF Idle
<1> QED
  BY <1>1, <1>2, <1>3 DEF Edits

\* What FireOrRest makes of a scan.
LEMMA FireOrRestFields ==
    ASSUME NEW c \in Claimings
    PROVE  /\ FireOrRest(c) \in Scans
           /\ FireOrRest(c).pc \in {"claim", "fire", "idle"}
           /\ FireOrRest(c).pc = "claim" => FireOrRest(c) = c
           /\ FireOrRest(c).pc # "idle" => /\ FireOrRest(c).at = c.at
                                           /\ FireOrRest(c).claimed = c.claimed
           /\ c.claimed # <<>> => FireOrRest(c).pc \in {"claim", "fire"}
<1>1. CASE c.candidates # <<>>
  BY <1>1 DEF FireOrRest, Scans, Claimings
<1>2. CASE c.candidates = <<>> /\ c.claimed = <<>>
  BY <1>2 DEF FireOrRest, Scans, Claimings, Idle
<1>3. CASE c.candidates = <<>> /\ c.claimed # <<>>
  BY <1>3 DEF FireOrRest, Scans, Claimings
<1> QED
  BY <1>1, <1>2, <1>3

-----------------------------------------------------------------------------
(* The steps of a scan *)

\* A scan without its first candidate.
LEMMA RestFields ==
    ASSUME NEW x \in Claimings, x.candidates # <<>>
    PROVE  /\ Head(x.candidates) \in Candidates
           /\ Waiting(x, Head(x.candidates))
           /\ Tail(x.candidates) \in Seq(Candidates)
           /\ \A i \in DOMAIN Tail(x.candidates) :
                 /\ i + 1 \in DOMAIN x.candidates
                 /\ Tail(x.candidates)[i] = x.candidates[i + 1]
<1>1. x.candidates \in Seq(Candidates) /\ x.candidates # <<>> /\ x.pc = "claim"
  BY DEF Claimings
<1>2. 1 \in DOMAIN x.candidates /\ x.candidates[1] = Head(x.candidates)
  BY <1>1
<1>3. Head(x.candidates) \in Candidates /\ Tail(x.candidates) \in Seq(Candidates)
  BY <1>1
<1>4. \A i \in DOMAIN Tail(x.candidates) :
         /\ i + 1 \in DOMAIN x.candidates
         /\ Tail(x.candidates)[i] = x.candidates[i + 1]
  BY <1>1
<1> QED
  BY <1>1, <1>2, <1>3, <1>4 DEF Waiting

\* FireOrRest leaves fewer candidates and everything claimed.
LEMMA FireOrRestKeeps ==
    ASSUME NEW x \in Claimings, x.candidates # <<>>, NEW y \in Claimings,
           y.candidates = Tail(x.candidates) \/ y.candidates = <<>>,
           y.at = x.at
    PROVE  /\ FireOrRest(y).pc \in {"claim", "fire", "idle"}
           /\ FireOrRest(y).pc = "claim" => FireOrRest(y).at = x.at
           /\ \A c : Waiting(FireOrRest(y), c) => Waiting(x, c)
           /\ \A f : Owing(y, f) => Owing(FireOrRest(y), f)
<1>1. ASSUME NEW c, Waiting(y, c) PROVE Waiting(x, c)
  <2>1. PICK i \in DOMAIN y.candidates : y.candidates[i] = c
    BY <1>1 DEF Waiting
  <2>2. y.candidates = Tail(x.candidates)
    BY <2>1
  <2>3. i + 1 \in DOMAIN x.candidates /\ x.candidates[i + 1] = c
    BY <2>1, <2>2, RestFields
  <2> QED
    BY <2>3 DEF Waiting, Claimings
<1>2. FireOrRest(y).pc = "claim" => FireOrRest(y) = y
  BY FireOrRestFields
<1>3. ASSUME NEW f, Owing(y, f) PROVE Owing(FireOrRest(y), f)
  <2>1. y.claimed # <<>>
    BY <1>3 DEF Owing
  <2>2. /\ FireOrRest(y).pc \in {"claim", "fire"}
        /\ FireOrRest(y).at = y.at /\ FireOrRest(y).claimed = y.claimed
    BY <2>1, FireOrRestFields
  <2> QED
    BY <1>3, <2>2 DEF Owing
<1>4. \A c : Waiting(FireOrRest(y), c) => Waiting(y, c)
  BY <1>2 DEF Waiting
<1>5. /\ FireOrRest(y).pc \in {"claim", "fire", "idle"}
      /\ FireOrRest(y).pc = "claim" => FireOrRest(y).at = x.at
  BY <1>2, FireOrRestFields
<1> QED
  BY <1>1, <1>3, <1>4, <1>5

\* Select: the candidates of a scan are rows that are due.
LEMMA SelectStep ==
    ASSUME TypeOK, NEW s \in Scanners, Select(s)
    PROVE  \E r \in Scans :
              /\ scan[s].pc = "select" /\ scan' = [scan EXCEPT ![s] = r]
              /\ r.pc \in {"claim", "fire", "idle"}
              /\ r.pc = "claim" => r.at = scan[s].at
              /\ \A c \in Candidates : Waiting(r, c) =>
                    \E p \in Plans : c = Candidate(p) /\ DueAt(p, scan[s].at)
<1>1. PICK n \in 0..Batch : \E ps \in [1..n -> Plans] :
        /\ IsSelection(ps, scan[s].at)
        /\ scan' = [scan EXCEPT ![s] = FireOrRest(
                      [pc |-> "claim", at |-> scan[s].at, claimed |-> <<>>,
                       candidates |-> [i \in 1..n |-> Candidate(ps[i])]])]
  BY DEF Select
<1>2. PICK ps \in [1..n -> Plans] :
        /\ IsSelection(ps, scan[s].at)
        /\ scan' = [scan EXCEPT ![s] = FireOrRest(
                      [pc |-> "claim", at |-> scan[s].at, claimed |-> <<>>,
                       candidates |-> [i \in 1..n |-> Candidate(ps[i])]])]
  BY <1>1
<1>3. n \in Nat /\ scan[s].at \in Times /\ scan[s].pc = "select"
  <2>1. scan[s].pc = "select"
    BY DEF Select
  <2>2. scan[s].at \in Times
    BY <2>1, ScanFields
  <2>3. n \in Nat
    BY ScheduleAssumption
  <2> QED
    BY <2>1, <2>2, <2>3
<1> DEFINE cs == [i \in 1..n |-> Candidate(ps[i])]
           x == [pc |-> "claim", at |-> scan[s].at, claimed |-> <<>>, candidates |-> cs]
<1>4. \A p \in Plans : Candidate(p) \in Candidates
  <2>1. ASSUME NEW p \in Plans PROVE Candidate(p) \in Candidates
    <3>1. plan[p] \in Rows
      BY DEF TypeOK
    <3> QED
      BY <3>1 DEF Rows, Candidate, Candidates
  <2> QED
    BY <2>1
<1>5. cs \in Seq(Candidates) /\ DOMAIN cs = 1..n
  BY <1>3, <1>4
<1>6. \A i \in 1..n : ps[i] \in Plans /\ DueAt(ps[i], scan[s].at) /\ cs[i] = Candidate(ps[i])
  <2>1. Len(ps) = n
    BY <1>3
  <2>2. ps \in [1..n -> {p \in Plans : DueAt(p, scan[s].at)}]
    BY <1>2, <2>1 DEF IsSelection
  <2> QED
    BY <2>2
<1> HIDE DEF cs
<1>7. x \in Claimings /\ x.pc = "claim" /\ x.at = scan[s].at /\ x.candidates = cs
  BY <1>3, <1>5 DEF Claimings
<1>8. scan' = [scan EXCEPT ![s] = FireOrRest(x)]
  BY <1>2 DEF cs
<1> HIDE DEF x
<1>9. /\ FireOrRest(x) \in Scans /\ FireOrRest(x).pc \in {"claim", "fire", "idle"}
      /\ FireOrRest(x).pc = "claim" => FireOrRest(x) = x
  BY <1>7, FireOrRestFields
<1>10. \A c \in Candidates : Waiting(FireOrRest(x), c) =>
          \E p \in Plans : c = Candidate(p) /\ DueAt(p, scan[s].at)
  BY <1>5, <1>6, <1>7, <1>9 DEF Waiting
<1> QED
  BY <1>3, <1>7, <1>8, <1>9, <1>10

\* ClaimPlan: what becomes of the first candidate c.
LEMMA ClaimStep ==
    ASSUME TypeOK, NEW s \in Scanners, ClaimPlan(s)
    PROVE  \E c \in Candidates, r \in Scans :
              LET p == c.id
                  t == scan[s].at IN
              /\ Waiting(scan[s], c) /\ c.cron \in Crons
              /\ c = Head(scan[s].candidates)
              /\ scan' = [scan EXCEPT ![s] = r]
              /\ r.pc \in {"claim", "fire", "idle"}
              /\ r.pc = "claim" => r.at = t
              /\ \A d : Waiting(r, d) => Waiting(scan[s], d)
              /\ \A f : Owing(scan[s], f) => Owing(r, f)
              /\ \/ /\ DueAt(p, t)
                    /\ plan' = [plan EXCEPT ![p] =
                                  [plan[p] EXCEPT !.next = NextFire(c.cron, t)]]
                    /\ claims' = [claims EXCEPT ![<<p, c.next>>] =
                                    NextFire(c.cron, t)]
                    /\ accepted' = accepted \cup
                          {<<p, u>> : u \in PlanFires(plan[p].misfire, c.next, t)}
                    /\ \A u \in PlanFires(plan[p].misfire, c.next, t) :
                          Owing(r, <<p, u>>)
                 \/ UNCHANGED <<plan, claims, accepted>>
<1> DEFINE x == scan[s]
           c == Head(x.candidates)
           y == [x EXCEPT !.candidates = Tail(x.candidates)]
           k == [id |-> c.id, misfire |-> plan[c.id].misfire, due |-> c.next]
           z == [y EXCEPT !.claimed = Append(y.claimed, k)]
<1>1. /\ x \in Claimings /\ x.pc = "claim" /\ x.candidates # <<>>
      /\ x.claimed \in Seq(Claims) /\ x.at \in Times
  BY ScanFields DEF ClaimPlan, Claiming
<1>2. c \in Candidates /\ Waiting(x, c) /\ Tail(x.candidates) \in Seq(Candidates)
  BY <1>1, RestFields
<1>3. /\ c.cron \in Crons /\ c.id \in Plans /\ c.next \in NextTimes
      /\ c = Head(scan[s].candidates)
  BY <1>2 DEF ClaimPlan, Candidates
<1>4. plan[c.id] \in Rows
  BY <1>3 DEF TypeOK
<1>5. k \in Claims /\ k.id = c.id /\ k.due = c.next /\ k.misfire = plan[c.id].misfire
  BY <1>3, <1>4, RowFields DEF Claims
<1> HIDE DEF c, k
<1>6. /\ y \in Claimings /\ y.candidates = Tail(x.candidates) /\ y.at = x.at
      /\ y.claimed = x.claimed /\ y.pc = "claim"
  BY <1>1, <1>2 DEF Claimings
<1>7. Append(y.claimed, k) \in Seq(Claims)
  BY <1>1, <1>5, <1>6
<1>8. /\ z \in Claimings /\ z.candidates = Tail(x.candidates) /\ z.at = x.at
      /\ z.claimed = Append(x.claimed, k) /\ z.pc = "claim"
  BY <1>6, <1>7 DEF Claimings
<1>9. \A f : Owing(x, f) => Owing(y, f)
  BY <1>6 DEF Owing
<1>10. /\ \A f : Owing(x, f) => Owing(z, f)
       /\ \A u \in PlanFires(plan[c.id].misfire, c.next, x.at) : Owing(z, <<c.id, u>>)
  <2>1. /\ DOMAIN x.claimed \subseteq DOMAIN z.claimed
        /\ \A i \in DOMAIN x.claimed : z.claimed[i] = x.claimed[i]
        /\ \E i \in DOMAIN z.claimed : z.claimed[i] = k
    <3>1. Len(x.claimed) \in Nat /\ DOMAIN x.claimed = 1..Len(x.claimed)
          /\ DOMAIN z.claimed = 1..(Len(x.claimed) + 1)
      BY <1>1, <1>5, <1>8
    <3>2. z.claimed[Len(x.claimed) + 1] = k
      BY <1>1, <1>5, <1>8
    <3>3. \A i \in 1..Len(x.claimed) : z.claimed[i] = x.claimed[i]
      BY <1>1, <1>5, <1>8
    <3> QED
      BY <3>1, <3>2, <3>3
  <2>2. \A f : Owing(x, f) => Owing(z, f)
    BY <1>8, <2>1 DEF Owing
  <2>3. ASSUME NEW u \in PlanFires(plan[c.id].misfire, c.next, x.at)
        PROVE  Owing(z, <<c.id, u>>)
    <3>1. u = c.next
      BY <2>3 DEF PlanFires
    <3> QED
      BY <1>5, <1>8, <2>1, <2>3, <3>1 DEF Owing
  <2> QED
    BY <2>2, <2>3
<1>11. \/ /\ DueAt(c.id, x.at)
          /\ plan' = [plan EXCEPT ![c.id].next = NextFire(c.cron, x.at)]
          /\ claims' = [claims EXCEPT ![<<c.id, c.next>>] = NextFire(c.cron, x.at)]
          /\ accepted' = accepted \cup
                {<<c.id, u>> : u \in PlanFires(plan[c.id].misfire, c.next, x.at)}
          /\ scan' = [scan EXCEPT ![s] = FireOrRest(z)]
       \/ /\ scan' = [scan EXCEPT ![s] = FireOrRest(y)]
          /\ UNCHANGED <<plan, claims, accepted>>
  BY DEF ClaimPlan, Claimable, c, k
<1> HIDE DEF x, y, z
<1>12. /\ FireOrRest(y) \in Scans /\ FireOrRest(z) \in Scans
  BY <1>6, <1>8, FireOrRestFields
<1>13. /\ FireOrRest(y).pc \in {"claim", "fire", "idle"}
       /\ FireOrRest(y).pc = "claim" => FireOrRest(y).at = x.at
       /\ \A d : Waiting(FireOrRest(y), d) => Waiting(x, d)
       /\ \A f : Owing(y, f) => Owing(FireOrRest(y), f)
  BY <1>1, <1>6, FireOrRestKeeps
<1>14. /\ FireOrRest(z).pc \in {"claim", "fire", "idle"}
       /\ FireOrRest(z).pc = "claim" => FireOrRest(z).at = x.at
       /\ \A d : Waiting(FireOrRest(z), d) => Waiting(x, d)
       /\ \A f : Owing(z, f) => Owing(FireOrRest(z), f)
  BY <1>1, <1>8, FireOrRestKeeps
<1>15. CASE scan' = [scan EXCEPT ![s] = FireOrRest(z)] /\ DueAt(c.id, x.at)
            /\ plan' = [plan EXCEPT ![c.id].next = NextFire(c.cron, x.at)]
            /\ claims' = [claims EXCEPT ![<<c.id, c.next>>] = NextFire(c.cron, x.at)]
            /\ accepted' = accepted \cup
                {<<c.id, u>> : u \in PlanFires(plan[c.id].misfire, c.next, x.at)}
  <2>1. \A u \in PlanFires(plan[c.id].misfire, c.next, x.at) :
           Owing(FireOrRest(z), <<c.id, u>>)
    BY <1>10, <1>14
  <2>2. \A f : Owing(x, f) => Owing(FireOrRest(z), f)
    BY <1>10, <1>14
  <2>3. x = scan[s]
    BY DEF x
  <2> QED
    BY <1>2, <1>3, <1>12, <1>14, <1>15, <2>1, <2>2, <2>3
<1>16. CASE scan' = [scan EXCEPT ![s] = FireOrRest(y)]
            /\ UNCHANGED <<plan, claims, accepted>>
  <2>1. \A f : Owing(x, f) => Owing(FireOrRest(y), f)
    BY <1>9, <1>13
  <2>2. x = scan[s]
    BY DEF x
  <2> QED
    BY <1>2, <1>3, <1>12, <1>13, <1>16, <2>1, <2>2
<1> QED
  BY <1>11, <1>15, <1>16

-----------------------------------------------------------------------------
\* PenalisePlan: what becomes of the first candidate c.
LEMMA PenaliseStep ==
    ASSUME TypeOK, NEW s \in Scanners, PenalisePlan(s)
    PROVE  \E c \in Candidates, r \in Scans :
              LET t == scan[s].at IN
              /\ scan' = [scan EXCEPT ![s] = r]
              /\ scan[s].pc = "claim"
              /\ r.pc \in {"claim", "fire", "idle"}
              /\ r.pc = "claim" => r.at = t
              /\ \A d : Waiting(r, d) => Waiting(scan[s], d)
              /\ \A f : Owing(scan[s], f) => Owing(r, f)
              /\ \/ /\ DueAt(c.id, t)
                    /\ plan' = [plan EXCEPT ![c.id] =
                                  [plan[c.id] EXCEPT !.next = t + Penalty]]
                 \/ plan' = plan
<1> DEFINE x == scan[s]
           c == Head(x.candidates)
           y == [x EXCEPT !.candidates = Tail(x.candidates)]
<1>1. /\ x \in Claimings /\ x.pc = "claim" /\ x.candidates # <<>>
  BY ScanFields DEF PenalisePlan, Claiming
<1>2. c \in Candidates /\ Tail(x.candidates) \in Seq(Candidates)
  BY <1>1, RestFields
<1> HIDE DEF c
<1>3. /\ y \in Claimings /\ y.candidates = Tail(x.candidates) /\ y.at = x.at
      /\ y.claimed = x.claimed /\ y.pc = "claim"
  BY <1>1, <1>2 DEF Claimings
<1>4. \A f : Owing(x, f) => Owing(y, f)
  BY <1>3 DEF Owing
<1>5. /\ scan' = [scan EXCEPT ![s] = FireOrRest(y)]
      /\ \/ /\ DueAt(c.id, x.at)
            /\ plan' = [plan EXCEPT ![c.id] =
                          [plan[c.id] EXCEPT !.next = x.at + Penalty]]
         \/ plan' = plan
  BY DEF PenalisePlan, Penalised, c
<1> HIDE DEF x, y
<1>6. FireOrRest(y) \in Scans
  BY <1>3, FireOrRestFields
<1>7. /\ FireOrRest(y).pc \in {"claim", "fire", "idle"}
      /\ FireOrRest(y).pc = "claim" => FireOrRest(y).at = x.at
      /\ \A d : Waiting(FireOrRest(y), d) => Waiting(x, d)
      /\ \A f : Owing(y, f) => Owing(FireOrRest(y), f)
  BY <1>1, <1>3, FireOrRestKeeps
<1>8. \A f : Owing(x, f) => Owing(FireOrRest(y), f)
  BY <1>4, <1>7
<1>9. x = scan[s]
  BY DEF x
<1> QED
  BY <1>1, <1>2, <1>5, <1>6, <1>7, <1>8, <1>9

\* The steps that insert a job, fail or crash.
Ends(s) == ClaimFails(s) \/ Fire(s) \/ FireFails(s) \/ Crash(s)

LEMMA EndStep ==
    ASSUME TypeOK, NEW s \in Scanners, Ends(s)
    PROVE  \E r \in Scans :
              /\ scan' = [scan EXCEPT ![s] = r]
              /\ r.pc \in {"claim", "fire", "idle"}
              /\ r.pc = "claim" => scan[s].pc = "claim" /\ r.at = scan[s].at
              /\ \A d : Waiting(r, d) => Waiting(scan[s], d)
<1> DEFINE x == scan[s]
<1>1. CASE ClaimFails(s)
  <2> DEFINE y == [x EXCEPT !.candidates = <<>>]
  <2>1. /\ x \in Claimings /\ x.pc = "claim" /\ x.candidates # <<>>
    BY <1>1, ScanFields DEF ClaimFails, Claiming
  <2>2. y \in Claimings /\ y.candidates = <<>> /\ y.at = x.at
    <3>1. <<>> \in Seq(Candidates)
      OBVIOUS
    <3> HIDE DEF x
    <3> QED
      BY <2>1, <3>1 DEF Claimings
  <2>3. scan' = [scan EXCEPT ![s] = FireOrRest(y)]
    BY <1>1 DEF ClaimFails, ClaimsSoFar
  <2> HIDE DEF x, y
  <2>4. FireOrRest(y) \in Scans
    BY <2>2, FireOrRestFields
  <2>5. /\ FireOrRest(y).pc \in {"claim", "fire", "idle"}
        /\ FireOrRest(y).pc = "claim" => FireOrRest(y).at = x.at
        /\ \A d : Waiting(FireOrRest(y), d) => Waiting(x, d)
    BY <2>1, <2>2, FireOrRestKeeps
  <2> QED
    BY <2>1, <2>3, <2>4, <2>5 DEF x
<1>2. Idle \in Scans /\ Idle.pc = "idle" /\ \A d : ~Waiting(Idle, d)
  BY DEF Idle, Scans, Waiting
<1>3. CASE Fire(s) \/ FireFails(s)
  <2>1. /\ x.pc = "fire" /\ x.at \in Times /\ x.claimed \in Seq(Claims)
        /\ x.claimed # <<>>
        /\ x = [pc |-> "fire", at |-> x.at, claimed |-> x.claimed]
    BY <1>3, ScanFields DEF Fire, FireFails
  <2>2. scan' = [scan EXCEPT ![s] = Fired(s)]
    BY <1>3 DEF Fire, FireFails
  <2> HIDE DEF x
  <2>3. CASE Len(x.claimed) = 1
    <3>1. Fired(s) = Idle
      BY <2>3 DEF Fired, x
    <3> QED
      BY <1>2, <2>2, <3>1
  <2>4. CASE Len(x.claimed) # 1
    <3> DEFINE r == [pc |-> "fire", at |-> x.at, claimed |-> Tail(x.claimed)]
    <3>1. Fired(s) = [x EXCEPT !.claimed = Tail(x.claimed)]
      BY <2>4 DEF Fired, x
    <3>2. Fired(s) = r
      BY <2>1, <3>1
    <3>3. Len(x.claimed) \in Nat /\ Len(Tail(x.claimed)) = Len(x.claimed) - 1
          /\ Tail(x.claimed) \in Seq(Claims)
      BY <2>1
    <3>4. Tail(x.claimed) # <<>>
      <4>1. Len(x.claimed) # 0
        BY <2>1
      <4>2. Len(Tail(x.claimed)) # 0
        BY <2>4, <3>3, <4>1
      <4>3. Len(<<>>) = 0
        OBVIOUS
      <4> QED
        BY <4>2, <4>3
    <3>5. r \in Scans
      BY <2>1, <3>3, <3>4 DEF Scans
    <3>6. r.pc = "fire" /\ \A d : ~Waiting(r, d)
      BY DEF Waiting
    <3> HIDE DEF r
    <3> QED
      BY <2>2, <3>2, <3>5, <3>6
  <2> QED
    BY <2>3, <2>4
<1>4. CASE Crash(s)
  BY <1>2, <1>4 DEF Crash
<1> QED
  BY <1>1, <1>3, <1>4 DEF Ends

\* Every step of a scan after its Select.
LEMMA LaterStep ==
    ASSUME TypeOK, NEW s \in Scanners, ClaimPlan(s) \/ PenalisePlan(s) \/ Ends(s)
    PROVE  /\ scan' \in [Scanners -> Scans]
           /\ \A q \in Scanners :
                 /\ scan'[q].pc \in {"select", "claim"} =>
                       scan[q].pc = scan'[q].pc /\ scan'[q].at = scan[q].at
                 /\ \A d : Waiting(scan'[q], d) =>
                       Waiting(scan[q], d) /\ scan'[q].at = scan[q].at
<1>1. \E r \in Scans :
         /\ scan' = [scan EXCEPT ![s] = r]
         /\ r.pc \in {"claim", "fire", "idle"}
         /\ r.pc = "claim" => scan[s].pc = "claim" /\ r.at = scan[s].at
         /\ \A d : Waiting(r, d) => Waiting(scan[s], d)
  <2>1. CASE ClaimPlan(s)
    <3>1. scan[s].pc = "claim"
      BY <2>1 DEF ClaimPlan, Claiming
    <3> QED
      BY <2>1, <3>1, ClaimStep
  <2>2. CASE PenalisePlan(s)
    BY <2>2, PenaliseStep
  <2> QED
    BY <2>1, <2>2, EndStep
<1>2. PICK r \in Scans :
         /\ scan' = [scan EXCEPT ![s] = r]
         /\ r.pc \in {"claim", "fire", "idle"}
         /\ r.pc = "claim" => scan[s].pc = "claim" /\ r.at = scan[s].at
         /\ \A d : Waiting(r, d) => Waiting(scan[s], d)
  BY <1>1
<1>3. scan'[s] = r /\ \A q \in Scanners \ {s} : scan'[q] = scan[q]
  BY <1>2 DEF TypeOK
<1>4. scan' \in [Scanners -> Scans]
  BY <1>2 DEF TypeOK
<1>5. \A d : Waiting(r, d) => r.pc = "claim"
  BY DEF Waiting
<1> QED
  BY <1>2, <1>3, <1>4, <1>5

\* What Update writes, and what becomes of the plan.
LEMMA WriteStep ==
    ASSUME TypeOK, NEW e \in Editors, UpdateWrite(e)
    PROVE  LET p == edit[e].id
               r == edit[e].row IN
           /\ edit[e].pc = "write" /\ p \in Plans /\ r \in Rows
           /\ edit' = [edit EXCEPT ![e] = Idle]
           /\ \A q \in Plans \ {p} : plan'[q] = plan[q]
           /\ \A q \in Plans, u \in NextTimes :
                 claims'[<<q, u>>] = IF q = p THEN Unclaimed ELSE claims[<<q, u>>]
           /\ \/ ~Live(p) /\ plan'[p] = plan[p] /\ late' = late
              \/ /\ Live(p) /\ plan'[p] = r
                 /\ \/ late' = late \cup {p}
                    \/ late' = late /\ InTime(r, p)
<1>1. edit[e].pc = "write" /\ edit[e].id \in Plans /\ edit[e].row \in Rows
  BY EditFields DEF UpdateWrite
<1> DEFINE p == edit[e].id
           r == edit[e].row
<1>2. /\ plan' = IF Live(p) THEN [plan EXCEPT ![p] = r] ELSE plan
      /\ late' = IF Live(p) /\ ~InTime(r, p) THEN late \cup {p} ELSE late
      /\ claims' = [j \in DOMAIN claims |->
                      IF j[1] = p THEN Unclaimed ELSE claims[j]]
      /\ edit' = [edit EXCEPT ![e] = Idle]
  BY DEF UpdateWrite
<1>3. \A q \in Plans, u \in NextTimes :
         claims'[<<q, u>>] = IF q = p THEN Unclaimed ELSE claims[<<q, u>>]
  BY <1>2 DEF TypeOK
<1>4. plan \in [Plans -> Rows]
  BY DEF TypeOK
<1> HIDE DEF p, r
<1>5. CASE ~Live(p)
  BY <1>1, <1>2, <1>3, <1>4, <1>5 DEF p, r
<1>6. CASE Live(p)
  <2>1. plan'[p] = r /\ \A q \in Plans \ {p} : plan'[q] = plan[q]
    BY <1>1, <1>2, <1>4, <1>6 DEF p
  <2> QED
    BY <1>1, <1>2, <1>3, <1>6, <2>1 DEF p, r
<1> QED
  BY <1>5, <1>6

\* Create: a plan is late when its next fire is over.
LEMMA CreateStep ==
    ASSUME TypeOK, NEW p \in Plans, Create(p)
    PROVE  \E r \in Rows, t \in Times :
              /\ plan[p].state = "new" /\ plan' = [plan EXCEPT ![p] = r]
              /\ r.state = "live" /\ r.cron \in Crons /\ r.next = NextFire(r.cron, t)
              /\ late' = IF r.next > now THEN late ELSE late \cup {p}
<1>1. PICK c \in Crons, m \in Misfires, t \in 1..now :
        /\ plan' = [plan EXCEPT ![p] =
                      [state |-> "live", cron |-> c, misfire |-> m,
                       enabled |-> TRUE, next |-> NextFire(c, t)]]
        /\ late' = IF NextFire(c, t) > now THEN late ELSE late \cup {p}
  BY DEF Create
<1> DEFINE r == [state |-> "live", cron |-> c, misfire |-> m,
                 enabled |-> TRUE, next |-> NextFire(c, t)]
<1>2. t \in Times
  BY ScheduleAssumption DEF TypeOK, Times
<1>3. NextFire(c, t) \in NextTimes /\ m \in {"skip", "once"}
  BY <1>2, TimesTypes, ScheduleAssumption
<1>4. r \in Rows /\ r.state = "live" /\ r.cron = c /\ r.next = NextFire(c, t)
  BY <1>3 DEF Rows
<1>5. plan[p].state = "new" /\ plan' = [plan EXCEPT ![p] = r]
      /\ late' = IF r.next > now THEN late ELSE late \cup {p}
  BY <1>1, <1>4 DEF Create
<1> HIDE DEF r
<1> QED
  BY <1>2, <1>4, <1>5

(* Types *)

LEMMA InitCorrect == Init => IInv
<1> SUFFICES ASSUME Init PROVE IInv
  OBVIOUS
<1>1. Zero \in NextTimes /\ 1 \in Times
  BY TimesTypes, ScheduleAssumption DEF Times
<1> DEFINE new == [state |-> "new", cron |-> Bad, misfire |-> "skip",
                   enabled |-> FALSE, next |-> Zero]
<1>2. plan \in [Plans -> {new}] /\ new \in Rows /\ new.cron = Bad /\ new.state = "new"
  BY <1>1 DEF Init, Rows
<1> HIDE DEF new
<1>3. Idle \in Scans /\ Idle \in Edits /\ Idle.pc = "idle"
  BY DEF Scans, Edits, Idle
<1>4. TypeOK
  BY <1>1, <1>2, <1>3, ScheduleAssumption DEF Init, TypeOK
<1>5. AcceptedAreOwed
  BY DEF Init, AcceptedAreOwed
<1>6. /\ \A s \in Scanners : scan[s].pc = "idle" /\ \A c : ~Waiting(scan[s], c)
      /\ \A e \in Editors : edit[e].pc = "idle"
      /\ \A p \in Plans : plan[p].cron = Bad /\ plan[p].state = "new"
      /\ \A p \in Plans, u \in NextTimes : claims[<<p, u>>] = Unclaimed
  BY <1>2, <1>3 DEF Init, Waiting
<1>7. ScansArePast /\ CandidatesAgree /\ ClaimedIsPast
  BY <1>6 DEF ScansArePast, CandidatesAgree, ClaimedIsPast
<1>8. RowsAreSound /\ EditsAreSound
  BY <1>6 DEF RowsAreSound, EditsAreSound, Live
<1> QED
  BY <1>4, <1>5, <1>7, <1>8 DEF IInv

LEMMA RowChangeTypes ==
    ASSUME TypeOK, NEW p \in Plans, NEW r \in Rows, plan' = [plan EXCEPT ![p] = r]
    PROVE  plan' \in [Plans -> Rows]
BY DEF TypeOK

LEMMA TypeKept ==
    ASSUME TypeOK, Next
    PROVE  TypeOK'
<1>1. now \in Times /\ now \in Nat /\ \A p \in Plans : plan[p] \in Rows
  BY TimesTypes DEF TypeOK
<1>2. ASSUME NEW p \in Plans, Create(p)
      PROVE  TypeOK'
  <2>1. plan' \in [Plans -> Rows] /\ late' \subseteq Plans
    BY <1>2, CreateStep DEF TypeOK
  <2> QED
    BY <1>2, <2>1 DEF Create, TypeOK
<1>3. ASSUME NEW p \in Plans, Delete(p)
      PROVE  TypeOK'
  <2>1. [plan[p] EXCEPT !.state = "gone"] \in Rows
    BY <1>1 DEF Rows
  <2>2. plan' \in [Plans -> Rows]
    BY <1>3, <2>1, RowChangeTypes DEF Delete
  <2> QED
    BY <1>3, <2>2 DEF Delete, TypeOK
<1>4. ASSUME NEW p \in Plans, Spoil(p)
      PROVE  TypeOK'
  <2>1. [plan[p] EXCEPT !.cron = Bad] \in Rows
    BY <1>1, RowFields
  <2>2. plan' \in [Plans -> Rows]
    BY <1>4, <2>1, RowChangeTypes DEF Spoil
  <2>3. faults' \in 0..MaxFaults
    BY <1>4, ScheduleAssumption DEF Spoil, TypeOK
  <2> QED
    BY <1>4, <2>2, <2>3 DEF Spoil, TypeOK
<1>5. ASSUME NEW e \in Editors, NEW p \in Plans, UpdateRead(e, p)
      PROVE  TypeOK'
  <2>1. \E r \in Rows, k \in {"compute", "write"} :
           edit' = [edit EXCEPT ![e] = [pc |-> k, id |-> p, row |-> r]]
    BY <1>1, <1>5, KeptFields DEF UpdateRead
  <2>2. edit' \in [Editors -> Edits]
    BY <2>1 DEF TypeOK, Edits
  <2>3. edits' \in 0..MaxEdits
    BY <1>5, ScheduleAssumption DEF UpdateRead, TypeOK
  <2> QED
    BY <1>5, <2>2, <2>3 DEF UpdateRead, TypeOK
<1>6. ASSUME NEW e \in Editors, UpdateCompute(e)
      PROVE  TypeOK'
  <2>1. edit[e].pc = "compute" /\ edit[e].id \in Plans /\ edit[e].row \in Rows
    BY <1>6, EditFields DEF UpdateCompute
  <2>2. PICK r \in Rescheduled(edit[e].row) \cup Enabled(edit[e].row) :
          edit' = [edit EXCEPT ![e] = [pc |-> "write", id |-> edit[e].id, row |-> r]]
    BY <1>6 DEF UpdateCompute
  <2>3. r \in Rows
    BY <2>1, ComputedFields
  <2>5. edit' \in [Editors -> Edits]
    BY <2>1, <2>2, <2>3 DEF TypeOK, Edits
  <2> QED
    BY <1>6, <2>5 DEF UpdateCompute, TypeOK
<1>7. ASSUME NEW e \in Editors, UpdateWrite(e)
      PROVE  TypeOK'
  <2>1. edit[e].id \in Plans /\ edit[e].row \in Rows
    BY <1>7, WriteStep
  <2>2. plan' \in [Plans -> Rows] /\ late' \subseteq Plans
    BY <1>7, <2>1 DEF UpdateWrite, TypeOK
  <2>3. claims' \in [Plans \X NextTimes -> NextTimes \cup {Unclaimed}]
    BY <1>7 DEF UpdateWrite, TypeOK
  <2>4. edit' \in [Editors -> Edits]
    BY <1>7 DEF UpdateWrite, TypeOK, Edits
  <2> QED
    BY <1>7, <2>2, <2>3, <2>4 DEF UpdateWrite, TypeOK
<1>8. ASSUME NEW s \in Scanners, Begin(s)
      PROVE  TypeOK'
  <2>1. scan' \in [Scanners -> Scans]
    BY <1>1, <1>8 DEF Begin, TypeOK, Scans
  <2> QED
    BY <1>8, <2>1 DEF Begin, TypeOK
<1>9. ASSUME NEW s \in Scanners, Select(s)
      PROVE  TypeOK'
  <2>1. scan' \in [Scanners -> Scans]
    BY <1>9, SelectStep DEF TypeOK
  <2> QED
    BY <1>9, <2>1 DEF Select, TypeOK
<1>10. ASSUME NEW s \in Scanners, ClaimPlan(s)
       PROVE  TypeOK'
  <2>1. scan' \in [Scanners -> Scans]
    BY <1>10, LaterStep
  <2>2. PICK c \in Candidates :
          /\ c.cron \in Crons
          /\ \/ /\ plan' = [plan EXCEPT ![c.id] =
                            [plan[c.id] EXCEPT !.next = NextFire(c.cron, scan[s].at)]]
                /\ claims' = [claims EXCEPT ![<<c.id, c.next>>] =
                                NextFire(c.cron, scan[s].at)]
                /\ accepted' = accepted \cup
                      {<<c.id, u>> : u \in PlanFires(plan[c.id].misfire, c.next,
                                                      scan[s].at)}
             \/ UNCHANGED <<plan, claims, accepted>>
    BY <1>10, ClaimStep
  <2>3. c.id \in Plans /\ c.next \in NextTimes /\ scan[s].at \in Times
    BY <1>10, ScanFields DEF Candidates, ClaimPlan, Claiming
  <2>4. CASE UNCHANGED <<plan, claims, accepted>>
    BY <1>10, <2>1, <2>4 DEF ClaimPlan, TypeOK
  <2>5. CASE /\ plan' = [plan EXCEPT ![c.id] =
                           [plan[c.id] EXCEPT !.next = NextFire(c.cron, scan[s].at)]]
             /\ claims' = [claims EXCEPT ![<<c.id, c.next>>] =
                             NextFire(c.cron, scan[s].at)]
             /\ accepted' = accepted \cup
                   {<<c.id, u>> : u \in PlanFires(plan[c.id].misfire, c.next, scan[s].at)}
    <3>1. /\ NextFire(c.cron, scan[s].at) \in NextTimes
          /\ [plan[c.id] EXCEPT !.next = NextFire(c.cron, scan[s].at)] \in Rows
      BY <1>1, <2>2, <2>3, RowFields, TimesTypes
    <3>2. plan' \in [Plans -> Rows]
      BY <2>3, <2>5, <3>1, RowChangeTypes
    <3>3. claims' \in [Plans \X NextTimes -> NextTimes \cup {Unclaimed}]
      BY <2>3, <2>5, <3>1 DEF TypeOK
    <3>4. accepted' \subseteq Plans \X NextTimes
      BY <2>3, <2>5 DEF TypeOK, PlanFires
    <3> QED
      BY <1>10, <2>1, <3>2, <3>3, <3>4 DEF ClaimPlan, TypeOK
  <2> QED
    BY <2>2, <2>4, <2>5
<1>11. ASSUME NEW s \in Scanners, PenalisePlan(s)
       PROVE  TypeOK'
  <2>1. scan' \in [Scanners -> Scans]
    BY <1>11, LaterStep
  <2>2. PICK c \in Candidates :
          \/ plan' = [plan EXCEPT ![c.id] =
                        [plan[c.id] EXCEPT !.next = scan[s].at + Penalty]]
          \/ plan' = plan
    BY <1>11, PenaliseStep
  <2>3. c.id \in Plans /\ scan[s].at \in Times
    BY <1>11, ScanFields DEF Candidates, PenalisePlan, Claiming
  <2>4. [plan[c.id] EXCEPT !.next = scan[s].at + Penalty] \in Rows
    BY <1>1, <2>3, RowFields, TimesTypes
  <2>5. plan' \in [Plans -> Rows]
    BY <2>2, <2>3, <2>4, RowChangeTypes DEF TypeOK
  <2> QED
    BY <1>11, <2>1, <2>5 DEF PenalisePlan, TypeOK
<1>12. ASSUME NEW s \in Scanners, Ends(s)
       PROVE  TypeOK'
  <2>1. scan' \in [Scanners -> Scans]
    BY <1>12, LaterStep
  <2>2. jobs' \in [Plans \X NextTimes -> {"none", "queued", "ran", "dropped"}]
    BY <1>12 DEF Ends, ClaimFails, Fire, FireFails, Crash, TypeOK
  <2>3. faults' \in 0..MaxFaults
    BY <1>12, ScheduleAssumption DEF Ends, ClaimFails, Fire, FireFails, Crash, TypeOK
  <2>4. accepted' \subseteq accepted
    BY <1>12 DEF Ends, ClaimFails, Fire, FireFails, Crash
  <2>5. UNCHANGED <<now, plan, edit, claims, late, edits>>
    BY <1>12 DEF Ends, ClaimFails, Fire, FireFails, Crash
  <2> QED
    BY <2>1, <2>2, <2>3, <2>4, <2>5 DEF TypeOK
<1>13. ASSUME NEW j \in DOMAIN jobs, Work(j)
       PROVE  TypeOK'
  BY <1>13 DEF Work, TypeOK
<1>14. ASSUME Tick
       PROVE  TypeOK'
  BY <1>1, <1>14, ScheduleAssumption DEF Tick, TypeOK, Times
<1> QED
  BY <1>2, <1>3, <1>4, <1>5, <1>6, <1>7, <1>8, <1>9, <1>10, <1>11, <1>12, <1>13,
     <1>14 DEF Next, ScanOnce, Ends

-----------------------------------------------------------------------------
(* No fire is lost *)

LEMMA OwedIsHeld ==
    ASSUME NEW r, NEW f, Owing(r, f)
    PROVE  Holds(r, f)
BY DEF Owing, Holds

\* A fire that is inserted or fails is the first; the others stay owed.
LEMMA FiredStep ==
    ASSUME TypeOK, NEW s \in Scanners, scan[s].pc = "fire",
           NEW f \in Plans \X NextTimes, Owing(scan[s], f)
    PROVE  LET k == Head(scan[s].claimed) IN
           \/ /\ f = <<k.id, k.due>>
              /\ k.due \in PlanFires(k.misfire, k.due, scan[s].at)
           \/ Owing(Fired(s), f)
<1> DEFINE x == scan[s]
           k == Head(x.claimed)
<1>1. /\ x.pc = "fire" /\ x.claimed \in Seq(Claims) /\ x.claimed # <<>>
      /\ x = [pc |-> "fire", at |-> x.at, claimed |-> x.claimed]
      /\ k \in Claims /\ k = x.claimed[1]
  BY ScanFields
<1>2. Owing(x, f)
  OBVIOUS
<1>3. Fired(s) = IF Len(x.claimed) = 1 THEN Idle
                 ELSE [x EXCEPT !.claimed = Tail(x.claimed)]
  BY DEF Fired
<1> SUFFICES \/ /\ f = <<k.id, k.due>>
                /\ k.due \in PlanFires(k.misfire, k.due, x.at)
             \/ Owing(Fired(s), f)
  OBVIOUS
<1> HIDE DEF x, k
<1>4. PICK i \in DOMAIN x.claimed :
        /\ x.claimed[i].id = f[1] /\ x.claimed[i].due = f[2]
        /\ x.claimed[i].due \in PlanFires(x.claimed[i].misfire,
                                          x.claimed[i].due, x.at)
  BY <1>2 DEF Owing
<1>5. CASE i = 1
  BY <1>1, <1>4, <1>5
<1>6. CASE i # 1
  <2>1. i \in 1..Len(x.claimed) /\ Len(x.claimed) # 1
    BY <1>1, <1>4, <1>6
  <2>2. /\ i - 1 \in DOMAIN Tail(x.claimed)
        /\ Tail(x.claimed)[i - 1] = x.claimed[i]
    BY <1>1, <1>6, <2>1
  <2>3. Fired(s) = [pc |-> "fire", at |-> x.at, claimed |-> Tail(x.claimed)]
    <3>1. Fired(s) = [x EXCEPT !.claimed = Tail(x.claimed)]
      BY <1>3, <2>1
    <3> QED
      BY <1>1, <3>1
  <2>4. Owing(Fired(s), f)
    BY <1>4, <2>2, <2>3 DEF Owing
  <2> QED
    BY <2>4
<1> QED
  BY <1>5, <1>6

\* A failed claim ends the scan with what it has claimed so far.
LEMMA FailStep ==
    ASSUME TypeOK, NEW s \in Scanners, ClaimFails(s), NEW f, Owing(scan[s], f)
    PROVE  Owing(ClaimsSoFar(scan[s]), f)
<1> DEFINE x == scan[s]
           y == [x EXCEPT !.candidates = <<>>]
<1>1. x \in Claimings /\ x.pc = "claim" /\ x.candidates # <<>>
  BY ScanFields DEF ClaimFails, Claiming
<1>2. Owing(x, f) /\ ClaimsSoFar(x) = FireOrRest(y)
  BY DEF ClaimsSoFar
<1> SUFFICES Owing(ClaimsSoFar(x), f)
  OBVIOUS
<1> HIDE DEF x
<1>3. <<>> \in Seq(Candidates)
  OBVIOUS
<1>4. /\ y \in Claimings /\ y.candidates = <<>> /\ y.at = x.at
      /\ y.claimed = x.claimed /\ y.pc = x.pc
  BY <1>1, <1>3 DEF Claimings
<1> HIDE DEF y
<1>5. Owing(y, f)
  BY <1>2, <1>4 DEF Owing
<1> QED
  BY <1>1, <1>2, <1>4, <1>5, FireOrRestKeeps

LEMMA OwedKept ==
    ASSUME TypeOK, AcceptedAreOwed, Next
    PROVE  AcceptedAreOwed'
<1> SUFFICES ASSUME NEW f \in accepted'
             PROVE  \/ jobs'[f] # "none"
                    \/ \E s \in Scanners : Owing(scan'[s], f)
  BY DEF AcceptedAreOwed
<1> DEFINE Done == \/ jobs'[f] # "none"
                   \/ \E s \in Scanners : Owing(scan'[s], f)
<1>1. f \in accepted => \/ jobs[f] # "none"
                        \/ \E s \in Scanners : Owing(scan[s], f)
  BY DEF AcceptedAreOwed
<1>2. accepted \subseteq Plans \X NextTimes
  BY DEF TypeOK
<1>3. CASE UNCHANGED <<scan, accepted, jobs>>
  BY <1>1, <1>3
<1>4. ASSUME NEW s \in Scanners, NEW r, scan' = [scan EXCEPT ![s] = r],
             f \in accepted, jobs' = jobs, Owing(scan[s], f) => Owing(r, f)
      PROVE  Done
  <2>1. scan'[s] = r /\ \A q \in Scanners \ {s} : scan'[q] = scan[q]
    BY <1>4 DEF TypeOK
  <2> QED
    BY <1>1, <1>4, <2>1
<1>5. ASSUME NEW s \in Scanners, Begin(s)
      PROVE  Done
  <2>1. ~Owing(scan[s], f)
    BY <1>5 DEF Begin, Owing, Idle
  <2> QED
    BY <1>4, <1>5, <2>1 DEF Begin
<1>6. ASSUME NEW s \in Scanners, Select(s)
      PROVE  Done
  <2>1. f \in accepted /\ jobs' = jobs
    BY <1>6 DEF Select
  <2>2. ~Owing(scan[s], f)
    BY <1>6 DEF Select, Owing
  <2>3. \E r : scan' = [scan EXCEPT ![s] = r]
    BY <1>6, SelectStep
  <2> QED
    BY <1>4, <2>1, <2>2, <2>3
<1>7. ASSUME NEW s \in Scanners, ClaimPlan(s)
      PROVE  Done
  <2>1. PICK c \in Candidates, r \in Scans :
          /\ scan' = [scan EXCEPT ![s] = r]
          /\ \A g : Owing(scan[s], g) => Owing(r, g)
          /\ \/ /\ accepted' = accepted \cup
                      {<<c.id, u>> : u \in PlanFires(plan[c.id].misfire, c.next,
                                                      scan[s].at)}
                /\ \A u \in PlanFires(plan[c.id].misfire, c.next, scan[s].at) :
                      Owing(r, <<c.id, u>>)
             \/ accepted' = accepted
    BY <1>7, ClaimStep
  <2>2. f \in accepted \/ Owing(r, f)
    BY <2>1
  <2>3. scan'[s] = r
    BY <2>1 DEF TypeOK
  <2>4. jobs' = jobs
    BY <1>7 DEF ClaimPlan
  <2>5. CASE Owing(r, f)
    BY <2>3, <2>5
  <2> QED
    BY <1>4, <2>1, <2>2, <2>4, <2>5
<1>8. ASSUME NEW s \in Scanners, PenalisePlan(s)
      PROVE  Done
  <2>1. \E r : /\ scan' = [scan EXCEPT ![s] = r]
               /\ \A g : Owing(scan[s], g) => Owing(r, g)
    BY <1>8, PenaliseStep
  <2>2. jobs' = jobs /\ accepted' = accepted
    BY <1>8 DEF PenalisePlan
  <2> QED
    BY <1>4, <2>1, <2>2
<1>9. ASSUME NEW s \in Scanners, Fire(s)
      PROVE  Done
  <2> DEFINE k == Head(scan[s].claimed)
  <2>1. f \in accepted /\ f \in Plans \X NextTimes /\ f \in DOMAIN jobs
    BY <1>2, <1>9 DEF Fire, TypeOK
  <2>2. jobs' = [j \in DOMAIN jobs |->
                  IF /\ Unique(j)
                     /\ j \in {k.id} \X PlanFires(k.misfire, k.due, scan[s].at)
                  THEN "queued" ELSE jobs[j]]
    BY <1>9 DEF Fire
  <2>3. scan'[s] = Fired(s) /\ \A q \in Scanners \ {s} : scan'[q] = scan[q]
    BY <1>9 DEF Fire, TypeOK
  <2>4. scan[s].pc = "fire"
    BY <1>9 DEF Fire
  <2>5. Owing(scan[s], f) => \/ /\ f = <<k.id, k.due>>
                                /\ k.due \in PlanFires(k.misfire, k.due, scan[s].at)
                             \/ Owing(Fired(s), f)
    BY <2>1, <2>4, FiredStep
  <2> HIDE DEF k
  <2>6. jobs[f] # "none" => jobs'[f] # "none"
    BY <2>1, <2>2
  <2>7. f = <<k.id, k.due>> /\ k.due \in PlanFires(k.misfire, k.due, scan[s].at)
           => jobs'[f] # "none"
    BY <2>1, <2>2 DEF Unique
  <2> QED
    BY <1>1, <2>1, <2>3, <2>5, <2>6, <2>7
<1>10. ASSUME NEW s \in Scanners, ClaimFails(s)
       PROVE  Done
  <2>1. f \in accepted /\ jobs' = jobs /\ scan' = [scan EXCEPT ![s] = ClaimsSoFar(scan[s])]
    BY <1>10 DEF ClaimFails
  <2> QED
    BY <1>4, <1>10, <2>1, FailStep
<1>11. ASSUME NEW s \in Scanners, FireFails(s)
       PROVE  Done
  <2> DEFINE k == Head(scan[s].claimed)
  <2>1. /\ f \in accepted /\ f # <<k.id, k.due>> /\ jobs' = jobs
        /\ scan' = [scan EXCEPT ![s] = Fired(s)] /\ scan[s].pc = "fire"
    BY <1>11 DEF FireFails
  <2>2. Owing(scan[s], f) => f = <<k.id, k.due>> \/ Owing(Fired(s), f)
    BY <1>2, <2>1, FiredStep
  <2> HIDE DEF k
  <2> QED
    BY <1>4, <2>1, <2>2
<1>12. ASSUME NEW s \in Scanners, Crash(s)
       PROVE  Done
  <2>1. /\ f \in accepted /\ ~Holds(scan[s], f) /\ jobs' = jobs
        /\ scan' = [scan EXCEPT ![s] = Idle]
    BY <1>12 DEF Crash
  <2>2. ~Owing(scan[s], f)
    BY <2>1, OwedIsHeld
  <2> QED
    BY <1>4, <2>1, <2>2
<1>13. ASSUME NEW j \in DOMAIN jobs, Work(j)
       PROVE  Done
  <2>1. jobs[f] # "none" => jobs'[f] # "none"
    BY <1>13 DEF Work, TypeOK
  <2> QED
    BY <1>1, <1>13, <2>1 DEF Work
<1>14. ASSUME NEW p \in Plans, Create(p) \/ Delete(p) \/ Spoil(p)
       PROVE  Done
  BY <1>3, <1>14 DEF Create, Delete, Spoil
<1>15. ASSUME NEW e \in Editors,
              UpdateCompute(e) \/ UpdateWrite(e) \/ \E p \in Plans : UpdateRead(e, p)
       PROVE  Done
  BY <1>3, <1>15 DEF UpdateCompute, UpdateWrite, UpdateRead
<1>16. ASSUME Tick
       PROVE  Done
  BY <1>3, <1>16 DEF Tick
<1> QED
  BY <1>5, <1>6, <1>7, <1>8, <1>9, <1>10, <1>11, <1>12, <1>13, <1>14, <1>15, <1>16
     DEF Next, ScanOnce

-----------------------------------------------------------------------------
(* Scans *)

LEMMA ScansStayPast ==
    ASSUME TypeOK, ScansArePast, Next
    PROVE  ScansArePast'
<1>1. now \in Nat /\ \A s \in Scanners : scan[s].pc \in {"select", "claim"} =>
                                           scan[s].at \in Nat
  BY ScanFields, TimesTypes DEF TypeOK
<1>2. ASSUME UNCHANGED <<scan, now>> PROVE ScansArePast'
  BY <1>2 DEF ScansArePast
<1>3. ASSUME NEW s \in Scanners, Begin(s)
      PROVE  ScansArePast'
  <2>1. scan'[s].at = now /\ \A q \in Scanners \ {s} : scan'[q] = scan[q]
    BY <1>3 DEF Begin, TypeOK
  <2> QED
    BY <1>1, <1>3, <2>1 DEF Begin, ScansArePast
<1>4. ASSUME NEW s \in Scanners, Select(s)
      PROVE  ScansArePast'
  <2>1. PICK r \in Scans :
          /\ scan[s].pc = "select" /\ scan' = [scan EXCEPT ![s] = r]
          /\ r.pc \in {"claim", "fire", "idle"}
          /\ r.pc = "claim" => r.at = scan[s].at
    BY <1>4, SelectStep
  <2>2. scan'[s] = r /\ \A q \in Scanners \ {s} : scan'[q] = scan[q]
    BY <2>1 DEF TypeOK
  <2>3. now' = now
    BY <1>4 DEF Select
  <2> QED
    BY <2>1, <2>2, <2>3 DEF ScansArePast
<1>5. ASSUME NEW s \in Scanners, ClaimPlan(s) \/ PenalisePlan(s) \/ Ends(s)
      PROVE  ScansArePast'
  <2>1. now' = now
    BY <1>5 DEF ClaimPlan, PenalisePlan, Ends, ClaimFails, Fire, FireFails, Crash
  <2> QED
    BY <1>5, <2>1, LaterStep DEF ScansArePast
<1>6. ASSUME NEW p \in Plans, Create(p) \/ Delete(p) \/ Spoil(p)
      PROVE  ScansArePast'
  BY <1>2, <1>6 DEF Create, Delete, Spoil
<1>7. ASSUME NEW e \in Editors,
             UpdateCompute(e) \/ UpdateWrite(e) \/ \E p \in Plans : UpdateRead(e, p)
      PROVE  ScansArePast'
  BY <1>2, <1>7 DEF UpdateCompute, UpdateWrite, UpdateRead
<1>8. ASSUME NEW j \in DOMAIN jobs, Work(j)
      PROVE  ScansArePast'
  BY <1>2, <1>8 DEF Work
<1>9. CASE Tick
  BY <1>1, <1>9 DEF Tick, ScansArePast
<1> QED
  BY <1>3, <1>4, <1>5, <1>6, <1>7, <1>8, <1>9 DEF Next, ScanOnce, Ends

-----------------------------------------------------------------------------
(* Rows, updates, candidates and claims *)

\* What the steps of the plans' owners and of the scanners may disturb.
Coherent == RowsAreSound /\ EditsAreSound /\ CandidatesAgree /\ ClaimedIsPast

\* A step that leaves the plans, and of the scans at most drops candidates.
LEMMA Undisturbed ==
    ASSUME Coherent, UNCHANGED <<plan, edit, claims, late>>,
           \A s \in Scanners, c \in Candidates : Waiting(scan'[s], c) =>
              Waiting(scan[s], c) /\ scan'[s].at = scan[s].at
    PROVE  Coherent'
<1>1. RowsAreSound' /\ EditsAreSound' /\ ClaimedIsPast'
  BY DEF Coherent, RowsAreSound, EditsAreSound, ClaimedIsPast, Live
<1>2. CandidatesAgree'
  BY DEF Coherent, CandidatesAgree, Live
<1> QED
  BY <1>1, <1>2 DEF Coherent

\* A new plan: nobody has read it and nothing has been claimed of it.
LEMMA CreateCoheres ==
    ASSUME TypeOK, Coherent, NEW p \in Plans, Create(p)
    PROVE  Coherent'
<1>1. PICK r \in Rows, t \in Times :
        /\ plan[p].state = "new" /\ plan' = [plan EXCEPT ![p] = r]
        /\ r.state = "live" /\ r.cron \in Crons /\ r.next = NextFire(r.cron, t)
        /\ late' = IF r.next > now THEN late ELSE late \cup {p}
  BY CreateStep
<1>2. UNCHANGED <<scan, edit, claims, now>>
  BY DEF Create
<1>3. plan'[p] = r /\ \A q \in Plans \ {p} : plan'[q] = plan[q]
  BY <1>1 DEF TypeOK
<1>4. late \subseteq late'
  BY <1>1
<1>5. p \notin late' => Matches(r) /\ Recurs(r.cron)
  <2> SUFFICES ASSUME r.next > now PROVE Matches(r) /\ Recurs(r.cron)
    BY <1>1
  <2>1. Matches(r)
    BY <1>1 DEF Matches
  <2>2. now \in Nat
    BY TimesTypes DEF TypeOK
  <2>3. r.next # Zero
    BY <2>2 DEF Zero
  <2> QED
    BY <1>1, <2>1, <2>3, NextFireIsNat
<1>6. RowsAreSound'
  BY <1>3, <1>4, <1>5 DEF Coherent, RowsAreSound, Live
<1>7. EditsAreSound'
  BY <1>2, <1>4 DEF Coherent, EditsAreSound
<1>8. CandidatesAgree'
  <2>1. ASSUME NEW s \in Scanners, NEW c \in Candidates, Waiting(scan[s], c)
        PROVE  c.id \in Plans \ {p}
    BY <1>1, <2>1 DEF Coherent, CandidatesAgree, Candidates
  <2> QED
    BY <1>2, <1>3, <1>4, <2>1 DEF Coherent, CandidatesAgree, Live
<1>9. ClaimedIsPast'
  BY <1>1, <1>2, <1>3, <1>4 DEF Coherent, ClaimedIsPast, Live
<1> QED
  BY <1>6, <1>7, <1>8, <1>9 DEF Coherent

\* A plan that is deleted, or whose cron no longer parses.
LEMMA EndsCohere ==
    ASSUME TypeOK, Coherent, NEW p \in Plans, Delete(p) \/ Spoil(p)
    PROVE  Coherent'
<1>1. UNCHANGED <<scan, edit, claims, late>>
  BY DEF Delete, Spoil
<1>2. /\ \A q \in Plans \ {p} : plan'[q] = plan[q]
      /\ plan[p].state = "live" /\ plan'[p].next = plan[p].next
      /\ \/ plan'[p].state = "gone"
         \/ plan'[p].state = "live" /\ plan'[p].cron = Bad
  <2>1. plan[p] \in Rows
    BY DEF TypeOK
  <2>2. CASE Delete(p)
    BY <2>1, <2>2 DEF Delete, Live, TypeOK, Rows
  <2>3. CASE Spoil(p)
    BY <2>1, <2>3, RowFields DEF Spoil, Live, TypeOK
  <2> QED
    BY <2>2, <2>3
<1>3. RowsAreSound'
  BY <1>1, <1>2 DEF Coherent, RowsAreSound, Live, Matches, Recurs
<1>4. EditsAreSound'
  BY <1>1 DEF Coherent, EditsAreSound
<1>5. CandidatesAgree'
  <2>1. ASSUME NEW s \in Scanners, NEW c \in Candidates, Waiting(scan[s], c)
        PROVE  /\ plan'[c.id].state # "new"
               /\ plan'[c.id].state = "live" /\ c.id \notin late =>
                     /\ Recurs(c.cron)
                     /\ \/ c.cron \in {Bad, plan'[c.id].cron}
                        \/ plan'[c.id].cron = Bad
                        \/ plan'[c.id].next > scan[s].at
    <3>1. c.id \in Plans
      BY DEF Candidates
    <3>2. CASE c.id = p
      BY <1>2, <2>1, <3>2 DEF Coherent, CandidatesAgree, Live
    <3>3. CASE c.id # p
      BY <1>2, <2>1, <3>1, <3>3 DEF Coherent, CandidatesAgree, Live
    <3> QED
      BY <3>2, <3>3
  <2> QED
    BY <1>1, <2>1 DEF CandidatesAgree, Live
<1>6. ClaimedIsPast'
  BY <1>1, <1>2 DEF Coherent, ClaimedIsPast, Live
<1> QED
  BY <1>3, <1>4, <1>5, <1>6 DEF Coherent

\* An update reads the row, or computes the next fire.
LEMMA PlanningCoheres ==
    ASSUME TypeOK, Coherent, NEW e \in Editors,
           UpdateCompute(e) \/ \E p \in Plans : UpdateRead(e, p)
    PROVE  Coherent'
<1>1. UNCHANGED <<plan, scan, claims, late>>
  BY DEF UpdateCompute, UpdateRead
<1> DEFINE Planned == \E p \in Plans, r \in Rows, k \in {"compute", "write"} :
         /\ edit' = [edit EXCEPT ![e] = [pc |-> k, id |-> p, row |-> r]]
         /\ r.state = "live"
         /\ p \notin late => Matches(r) /\ (Recurs(r.cron) \/ r.next = Zero)
<1>2. Planned
  <2>1. ASSUME NEW p \in Plans, UpdateRead(e, p)
        PROVE  Planned
    <3>1. /\ plan[p] \in Rows /\ plan[p].state = "live"
          /\ p \notin late => Matches(plan[p]) /\ Recurs(plan[p].cron)
      BY <2>1 DEF UpdateRead, Live, Coherent, RowsAreSound, TypeOK
    <3>2. CASE edit' = [edit EXCEPT ![e] = [pc |-> "compute", id |-> p, row |-> plan[p]]]
      BY <3>1, <3>2
    <3>3. ASSUME NEW r \in Disabled(plan[p]) \cup Relabelled(plan[p]),
                 edit' = [edit EXCEPT ![e] = [pc |-> "write", id |-> p, row |-> r]]
          PROVE  Planned
      <4>1. /\ r \in Rows /\ r.cron = plan[p].cron /\ r.next = plan[p].next
            /\ r.state = plan[p].state
        BY <3>1, KeptFields
      <4>2. Matches(plan[p]) => Matches(r)
        BY <4>1 DEF Matches
      <4> QED
        BY <3>1, <3>3, <4>1, <4>2
    <3> QED
      BY <2>1, <3>2, <3>3 DEF UpdateRead
  <2>2. ASSUME UpdateCompute(e)
        PROVE  Planned
    <3>1. /\ edit[e].pc = "compute" /\ edit[e].id \in Plans /\ edit[e].row \in Rows
          /\ edit[e].row.state = "live"
      BY <2>2, EditFields DEF UpdateCompute, Coherent, EditsAreSound
    <3>2. PICK r \in Rescheduled(edit[e].row) \cup Enabled(edit[e].row) :
            edit' = [edit EXCEPT ![e] = [pc |-> "write", id |-> edit[e].id, row |-> r]]
      BY <2>2 DEF UpdateCompute
    <3>3. /\ r \in Rows /\ r.state = "live"
          /\ r.cron \in Crons /\ r.next = NextFire(r.cron, now)
      BY <3>1, ComputedFields
    <3>4. now \in Times
      BY DEF TypeOK
    <3>5. Matches(r) /\ (Recurs(r.cron) \/ r.next = Zero)
      BY <3>3, <3>4, NextFireIsNat DEF Matches
    <3> QED
      BY <3>1, <3>2, <3>3, <3>5
  <2> QED
    BY <2>1, <2>2
<1>3. EditsAreSound'
  <2>1. PICK p \in Plans, r \in Rows, k \in {"compute", "write"} :
          /\ edit' = [edit EXCEPT ![e] = [pc |-> k, id |-> p, row |-> r]]
          /\ r.state = "live"
          /\ p \notin late => Matches(r) /\ (Recurs(r.cron) \/ r.next = Zero)
    BY <1>2
  <2>2. /\ edit'[e] = [pc |-> k, id |-> p, row |-> r]
        /\ \A d \in Editors \ {e} : edit'[d] = edit[d]
    BY <2>1 DEF TypeOK
  <2> QED
    BY <1>1, <2>1, <2>2 DEF Coherent, EditsAreSound
<1>4. RowsAreSound' /\ CandidatesAgree' /\ ClaimedIsPast'
  BY <1>1 DEF Coherent, RowsAreSound, CandidatesAgree, ClaimedIsPast, Live
<1> QED
  BY <1>3, <1>4 DEF Coherent

\* An update that is written in time moves the plan past all scans, or leaves
\* its cron and its next fire.
LEMMA WriteCoheres ==
    ASSUME TypeOK, ScansArePast, Coherent, NEW e \in Editors, UpdateWrite(e)
    PROVE  Coherent'
<1> DEFINE p == edit[e].id
           r == edit[e].row
<1>1. /\ edit[e].pc = "write" /\ p \in Plans /\ r \in Rows
      /\ edit' = [edit EXCEPT ![e] = Idle]
      /\ \A q \in Plans \ {p} : plan'[q] = plan[q]
      /\ \A q \in Plans, u \in NextTimes :
            claims'[<<q, u>>] = IF q = p THEN Unclaimed ELSE claims[<<q, u>>]
      /\ \/ ~Live(p) /\ plan'[p] = plan[p] /\ late' = late
         \/ /\ Live(p) /\ plan'[p] = r
            /\ \/ late' = late \cup {p}
               \/ late' = late /\ InTime(r, p)
  BY WriteStep
<1>2. scan' = scan /\ late \subseteq late'
  BY <1>1 DEF UpdateWrite
<1>3. /\ r.state = "live"
      /\ p \notin late => Matches(r) /\ (Recurs(r.cron) \/ r.next = Zero)
  BY <1>1 DEF Coherent, EditsAreSound
<1>4. /\ now \in Nat /\ plan[p] \in Rows /\ r.next \in Nat
      /\ \A s \in Scanners : scan[s].pc = "claim" => scan[s].at \in Nat /\ scan[s].at <= now
  BY <1>1, ScanFields, TimesTypes, RowFields, NextTimesAreNat DEF TypeOK, ScansArePast
<1> HIDE DEF p, r
<1>5. Live(p) /\ p \notin late' => p \notin late /\ InTime(r, p) /\ plan'[p] = r
  BY <1>1
<1>6. Live(p) /\ p \notin late' => Recurs(r.cron)
  <2> SUFFICES ASSUME Live(p), p \notin late' PROVE Recurs(r.cron)
    OBVIOUS
  <2>1. CASE r.next > now
    <3>1. r.next # Zero
      BY <1>4, <2>1 DEF Zero
    <3> QED
      BY <1>3, <1>5, <3>1
  <2>2. CASE r.cron = plan[p].cron
    BY <1>1, <1>5, <2>2 DEF Coherent, RowsAreSound
  <2> QED
    BY <1>5, <2>1, <2>2 DEF InTime
<1>7. RowsAreSound'
  <2>1. ASSUME NEW q \in Plans \ late', plan'[q].state = "live"
        PROVE  Matches(plan'[q]) /\ Recurs(plan'[q].cron)
    <3>1. CASE q = p /\ Live(p)
      BY <1>3, <1>5, <1>6, <2>1, <3>1
    <3>2. CASE q # p \/ ~Live(p)
      <4>1. plan'[q] = plan[q] /\ q \notin late
        BY <1>1, <1>2, <2>1, <3>2
      <4> QED
        BY <2>1, <4>1 DEF Coherent, RowsAreSound, Live
    <3> QED
      BY <3>1, <3>2
  <2> QED
    BY <2>1 DEF RowsAreSound, Live
<1>8. EditsAreSound'
  <2>1. edit'[e].pc = "idle" /\ \A d \in Editors \ {e} : edit'[d] = edit[d]
    BY <1>1 DEF TypeOK, Idle
  <2> QED
    BY <1>2, <2>1 DEF Coherent, EditsAreSound
<1>9. CandidatesAgree'
  <2>1. ASSUME NEW s \in Scanners, NEW c \in Candidates, Waiting(scan[s], c)
        PROVE  /\ plan'[c.id].state # "new"
               /\ plan'[c.id].state = "live" /\ c.id \notin late' =>
                     /\ Recurs(c.cron)
                     /\ \/ c.cron \in {Bad, plan'[c.id].cron}
                        \/ plan'[c.id].cron = Bad
                        \/ plan'[c.id].next > scan[s].at
    <3>1. c.id \in Plans /\ scan[s].pc = "claim"
      BY <2>1 DEF Candidates, Waiting
    <3>2. /\ plan[c.id].state # "new"
          /\ Live(c.id) /\ c.id \notin late =>
                /\ Recurs(c.cron)
                /\ \/ c.cron \in {Bad, plan[c.id].cron}
                   \/ plan[c.id].cron = Bad
                   \/ plan[c.id].next > scan[s].at
      BY <2>1 DEF Coherent, CandidatesAgree
    <3>3. CASE c.id = p /\ Live(p)
      <4>1. plan'[p] = r
        BY <1>1, <3>3
      <4>2. ASSUME p \notin late'
            PROVE  \/ c.cron \in {Bad, r.cron}
                   \/ r.cron = Bad
                   \/ r.next > scan[s].at
        <5>1. CASE r.next > now
          BY <1>4, <3>1, <5>1
        <5>2. CASE r.cron = plan[p].cron /\ r.next = plan[p].next
          BY <1>5, <3>2, <3>3, <4>2, <5>2
        <5> QED
          BY <1>5, <3>3, <4>2, <5>1, <5>2 DEF InTime
      <4> QED
        BY <1>3, <1>5, <3>2, <3>3, <4>1, <4>2
    <3>4. CASE c.id # p \/ ~Live(p)
      <4>1. plan'[c.id] = plan[c.id]
        BY <1>1, <3>1, <3>4
      <4> QED
        BY <1>2, <3>2, <4>1 DEF Live
    <3> QED
      BY <3>3, <3>4
  <2> QED
    BY <1>2, <2>1 DEF CandidatesAgree, Live
<1>10. ClaimedIsPast'
  <2>1. ASSUME NEW q \in Plans, NEW u \in NextTimes, claims'[<<q, u>>] # Unclaimed
        PROVE  /\ plan'[q].state # "new"
               /\ plan'[q].state = "live" /\ q \notin late' =>
                     plan'[q].next >= claims'[<<q, u>>]
    <3>1. q # p /\ claims'[<<q, u>>] = claims[<<q, u>>]
      BY <1>1, <2>1
    <3>2. plan'[q] = plan[q]
      BY <1>1, <3>1
    <3> QED
      BY <1>2, <2>1, <3>1, <3>2 DEF Coherent, ClaimedIsPast, Live
  <2> QED
    BY <2>1 DEF ClaimedIsPast, Live
<1> QED
  BY <1>7, <1>8, <1>9, <1>10 DEF Coherent

\* The candidates of a scan are copies of rows.
LEMMA SelectCoheres ==
    ASSUME TypeOK, Coherent, NEW s \in Scanners, Select(s)
    PROVE  Coherent'
<1>1. PICK r \in Scans :
        /\ scan' = [scan EXCEPT ![s] = r]
        /\ \A c \in Candidates : Waiting(r, c) =>
              \E p \in Plans : c = Candidate(p) /\ DueAt(p, scan[s].at)
  BY SelectStep
<1>2. scan'[s] = r /\ \A q \in Scanners \ {s} : scan'[q] = scan[q]
  BY <1>1 DEF TypeOK
<1>3. UNCHANGED <<plan, edit, claims, late>>
  BY DEF Select
<1>4. ASSUME NEW c \in Candidates, Waiting(r, c)
      PROVE  /\ plan[c.id].state = "live" /\ c.cron = plan[c.id].cron
             /\ c.id \notin late => Recurs(c.cron)
  <2>1. PICK p \in Plans : c = Candidate(p) /\ DueAt(p, scan[s].at)
    BY <1>1, <1>4
  <2>2. c.id = p /\ c.cron = plan[p].cron /\ Live(p)
    BY <2>1 DEF Candidate, DueAt
  <2> QED
    BY <2>2 DEF Live, Coherent, RowsAreSound
<1>5. CandidatesAgree'
  <2>1. ASSUME NEW q \in Scanners, NEW c \in Candidates, Waiting(scan'[q], c)
        PROVE  /\ plan[c.id].state # "new"
               /\ Live(c.id) /\ c.id \notin late =>
                     /\ Recurs(c.cron)
                     /\ \/ c.cron \in {Bad, plan[c.id].cron}
                        \/ plan[c.id].cron = Bad
                        \/ plan[c.id].next > scan'[q].at
    <3>1. CASE q = s
      BY <1>2, <1>4, <2>1, <3>1
    <3>2. CASE q # s
      BY <1>2, <2>1, <3>2 DEF Coherent, CandidatesAgree
    <3> QED
      BY <3>1, <3>2
  <2> QED
    BY <1>3, <2>1 DEF CandidatesAgree, Live
<1> QED
  BY <1>3, <1>5 DEF Coherent, RowsAreSound, EditsAreSound, ClaimedIsPast, Live

\* The next fire of a plan that is due moves past the scan, to n.
LEMMA AdvanceCoheres ==
    ASSUME TypeOK, Coherent, NEW s \in Scanners, NEW p \in Plans, NEW n \in NextTimes,
           DueAt(p, scan[s].at), scan[s].at \in Nat,
           p \notin late => /\ n > scan[s].at
                            /\ Matches([plan[p] EXCEPT !.next = n]),
           plan' = [plan EXCEPT ![p] = [plan[p] EXCEPT !.next = n]],
           UNCHANGED <<edit, late>>,
           \A q \in Scanners, c \in Candidates : Waiting(scan'[q], c) =>
              Waiting(scan[q], c) /\ scan'[q].at = scan[q].at,
           \A q \in Plans, u \in NextTimes :
              \/ claims'[<<q, u>>] = claims[<<q, u>>]
              \/ q = p /\ claims'[<<q, u>>] = n
    PROVE  Coherent'
<1> DEFINE r == [plan[p] EXCEPT !.next = n]
<1>1. /\ plan[p] \in Rows /\ plan[p].next \in Nat /\ n \in Nat
      /\ claims \in [Plans \X NextTimes -> NextTimes \cup {Unclaimed}]
  BY RowFields, NextTimesAreNat DEF TypeOK
<1>2. /\ plan'[p] = r /\ r.next = n /\ r.state = plan[p].state /\ r.cron = plan[p].cron
      /\ \A q \in Plans \ {p} : plan'[q] = plan[q]
  BY <1>1, RowFields DEF TypeOK
<1>3. plan[p].state = "live" /\ plan[p].next <= scan[s].at
  BY DEF DueAt, Live
<1>4. p \notin late => n > scan[s].at /\ Matches(r) /\ n >= plan[p].next
  BY <1>1, <1>3
<1> HIDE DEF r
<1>5. RowsAreSound'
  BY <1>2, <1>3, <1>4 DEF Coherent, RowsAreSound, Live
<1>6. EditsAreSound'
  BY DEF Coherent, EditsAreSound
<1>7. CandidatesAgree'
  <2>1. ASSUME NEW q \in Scanners, NEW c \in Candidates, Waiting(scan'[q], c)
        PROVE  /\ plan'[c.id].state # "new"
               /\ plan'[c.id].state = "live" /\ c.id \notin late =>
                     /\ Recurs(c.cron)
                     /\ \/ c.cron \in {Bad, plan'[c.id].cron}
                        \/ plan'[c.id].cron = Bad
                        \/ plan'[c.id].next > scan'[q].at
    <3>1. /\ c.id \in Plans /\ Waiting(scan[q], c) /\ scan'[q].at = scan[q].at
          /\ scan[q].at \in Nat
      <4>1. c.id \in Plans /\ Waiting(scan[q], c) /\ scan'[q].at = scan[q].at
        BY <2>1 DEF Candidates
      <4>2. scan[q].pc = "claim"
        BY <4>1 DEF Waiting
      <4> QED
        BY <4>1, <4>2, ScanFields, TimesTypes
    <3>2. /\ plan[c.id].state # "new"
          /\ Live(c.id) /\ c.id \notin late =>
                /\ Recurs(c.cron)
                /\ \/ c.cron \in {Bad, plan[c.id].cron}
                   \/ plan[c.id].cron = Bad
                   \/ plan[c.id].next > scan[q].at
      BY <3>1 DEF Coherent, CandidatesAgree
    <3>3. CASE c.id = p
      BY <1>1, <1>2, <1>3, <1>4, <3>1, <3>2, <3>3 DEF Live
    <3>4. CASE c.id # p
      BY <1>2, <3>1, <3>2, <3>4 DEF Live
    <3> QED
      BY <3>3, <3>4
  <2> QED
    BY <2>1 DEF CandidatesAgree, Live
<1>8. ClaimedIsPast'
  <2>1. ASSUME NEW q \in Plans, NEW u \in NextTimes, claims'[<<q, u>>] # Unclaimed
        PROVE  /\ plan'[q].state # "new"
               /\ plan'[q].state = "live" /\ q \notin late =>
                     plan'[q].next >= claims'[<<q, u>>]
    <3>1. CASE q = p /\ claims'[<<q, u>>] = n
      BY <1>1, <1>2, <1>3, <3>1
    <3>2. CASE claims'[<<q, u>>] = claims[<<q, u>>]
      <4>1. /\ plan[q].state # "new"
            /\ Live(q) /\ q \notin late => plan[q].next >= claims[<<q, u>>]
        BY <2>1, <3>2 DEF Coherent, ClaimedIsPast
      <4>2. claims[<<q, u>>] \in Nat
        BY <1>1, <2>1, <3>2, NextTimesAreNat
      <4>3. CASE q = p
        BY <1>1, <1>2, <1>3, <1>4, <3>2, <4>1, <4>2, <4>3 DEF Live
      <4>4. CASE q # p
        BY <1>2, <3>2, <4>1, <4>4 DEF Live
      <4> QED
        BY <4>3, <4>4
    <3> QED
      BY <3>1, <3>2
  <2> QED
    BY <2>1 DEF ClaimedIsPast, Live
<1> QED
  BY <1>5, <1>6, <1>7, <1>8 DEF Coherent

LEMMA ClaimCoheres ==
    ASSUME TypeOK, Coherent, NEW s \in Scanners, ClaimPlan(s)
    PROVE  Coherent'
<1>1. PICK c \in Candidates :
        /\ Waiting(scan[s], c) /\ c.cron \in Crons
        /\ \/ /\ DueAt(c.id, scan[s].at)
              /\ plan' = [plan EXCEPT ![c.id] =
                            [plan[c.id] EXCEPT !.next = NextFire(c.cron, scan[s].at)]]
              /\ claims' = [claims EXCEPT ![<<c.id, c.next>>] =
                              NextFire(c.cron, scan[s].at)]
           \/ UNCHANGED <<plan, claims>>
  BY ClaimStep
<1>2. /\ c.id \in Plans /\ c.next \in NextTimes /\ scan[s].at \in Times
      /\ scan[s].at \in Nat
  BY ScanFields, TimesTypes DEF Candidates, ClaimPlan, Claiming
<1>3. /\ UNCHANGED <<edit, late>>
      /\ \A q \in Scanners, d \in Candidates : Waiting(scan'[q], d) =>
            Waiting(scan[q], d) /\ scan'[q].at = scan[q].at
  BY LaterStep DEF ClaimPlan
<1>4. CASE UNCHANGED <<plan, claims>>
  BY <1>3, <1>4, Undisturbed
<1>5. CASE /\ DueAt(c.id, scan[s].at)
           /\ plan' = [plan EXCEPT ![c.id] =
                         [plan[c.id] EXCEPT !.next = NextFire(c.cron, scan[s].at)]]
           /\ claims' = [claims EXCEPT ![<<c.id, c.next>>] =
                           NextFire(c.cron, scan[s].at)]
  <2> DEFINE p == c.id
             n == NextFire(c.cron, scan[s].at)
             r == [plan[p] EXCEPT !.next = n]
  <2>1. plan[p] \in Rows /\ plan[p].next \in Nat /\ n \in NextTimes
    BY <1>1, <1>2, RowFields, TimesTypes, NextTimesAreNat DEF TypeOK
  <2>2. r.next = n /\ r.cron = plan[p].cron
    BY <2>1, RowFields
  <2>3. ASSUME p \notin late
        PROVE  n > scan[s].at /\ Matches(r)
    <3>1. /\ Recurs(c.cron)
          /\ \/ c.cron \in {Bad, plan[p].cron}
             \/ plan[p].cron = Bad
             \/ plan[p].next > scan[s].at
      BY <1>1, <1>5, <2>3 DEF Coherent, CandidatesAgree, DueAt
    <3>2. n > scan[s].at
      BY <1>1, <1>2, <3>1, NextFireIsLater
    <3>3. plan[p].next <= scan[s].at
      BY <1>5 DEF DueAt
    <3>4. c.cron = plan[p].cron \/ plan[p].cron = Bad
      BY <1>1, <1>2, <2>1, <3>1, <3>3, ScheduleAssumption
    <3> HIDE DEF r
    <3>5. Matches(r)
      BY <1>2, <2>2, <3>4 DEF Matches
    <3> QED
      BY <3>2, <3>5
  <2>4. \A q \in Plans, u \in NextTimes :
           \/ claims'[<<q, u>>] = claims[<<q, u>>]
           \/ q = p /\ claims'[<<q, u>>] = n
    BY <1>2, <1>5 DEF TypeOK
  <2>5. plan' = [plan EXCEPT ![p] = r] /\ DueAt(p, scan[s].at)
    BY <1>5
  <2> HIDE DEF n
  <2> QED
    BY <1>2, <1>3, <2>1, <2>3, <2>4, <2>5, AdvanceCoheres
<1> QED
  BY <1>1, <1>4, <1>5

LEMMA PenaltyCoheres ==
    ASSUME TypeOK, Coherent, NEW s \in Scanners, PenalisePlan(s)
    PROVE  Coherent'
<1>1. PICK c \in Candidates :
        \/ /\ DueAt(c.id, scan[s].at)
           /\ plan' = [plan EXCEPT ![c.id] =
                         [plan[c.id] EXCEPT !.next = scan[s].at + Penalty]]
        \/ plan' = plan
  BY PenaliseStep
<1>2. /\ c.id \in Plans /\ scan[s].at \in Times /\ scan[s].at \in Nat
      /\ scan[s].at + Penalty \in NextTimes /\ scan[s].at + Penalty > scan[s].at
  BY ScanFields, TimesTypes DEF Candidates, PenalisePlan, Claiming
<1>3. /\ UNCHANGED <<edit, late, claims>>
      /\ \A q \in Scanners, d \in Candidates : Waiting(scan'[q], d) =>
            Waiting(scan[q], d) /\ scan'[q].at = scan[q].at
  BY LaterStep DEF PenalisePlan
<1>4. CASE plan' = plan
  BY <1>3, <1>4, Undisturbed
<1>5. CASE /\ DueAt(c.id, scan[s].at)
           /\ plan' = [plan EXCEPT ![c.id] =
                         [plan[c.id] EXCEPT !.next = scan[s].at + Penalty]]
  <2> DEFINE n == scan[s].at + Penalty
             r == [plan[c.id] EXCEPT !.next = n]
  <2>1. r.next = n
    BY <1>2, RowFields DEF TypeOK
  <2>2. Matches(r)
    <3> HIDE DEF r
    <3> QED
      BY <1>2, <2>1 DEF Matches
  <2>3. plan' = [plan EXCEPT ![c.id] = r] /\ n \in NextTimes /\ n > scan[s].at
    BY <1>2, <1>5
  <2> HIDE DEF n
  <2> QED
    BY <1>2, <1>3, <1>5, <2>2, <2>3, AdvanceCoheres
<1> QED
  BY <1>1, <1>4, <1>5

LEMMA CoherenceKept ==
    ASSUME TypeOK, ScansArePast, Coherent, Next
    PROVE  Coherent'
<1>1. ASSUME NEW p \in Plans, Create(p) \/ Delete(p) \/ Spoil(p)
      PROVE  Coherent'
  BY <1>1, CreateCoheres, EndsCohere
<1>2. ASSUME NEW e \in Editors,
             UpdateCompute(e) \/ UpdateWrite(e) \/ \E p \in Plans : UpdateRead(e, p)
      PROVE  Coherent'
  BY <1>2, PlanningCoheres, WriteCoheres
<1>3. ASSUME NEW s \in Scanners, Begin(s)
      PROVE  Coherent'
  <2>1. \A q \in Scanners, c \in Candidates : Waiting(scan'[q], c) =>
           Waiting(scan[q], c) /\ scan'[q].at = scan[q].at
    BY <1>3 DEF Begin, TypeOK, Waiting
  <2> QED
    BY <1>3, <2>1, Undisturbed DEF Begin
<1>4. ASSUME NEW s \in Scanners, Select(s) \/ ClaimPlan(s) \/ PenalisePlan(s)
      PROVE  Coherent'
  BY <1>4, SelectCoheres, ClaimCoheres, PenaltyCoheres
<1>5. ASSUME NEW s \in Scanners, Ends(s)
      PROVE  Coherent'
  <2>1. UNCHANGED <<plan, edit, claims, late>>
    BY <1>5 DEF Ends, ClaimFails, Fire, FireFails, Crash
  <2> QED
    BY <1>5, <2>1, LaterStep, Undisturbed
<1>6. ASSUME UNCHANGED <<plan, edit, claims, late, scan>>
      PROVE  Coherent'
  BY <1>6, Undisturbed
<1>7. ASSUME NEW j \in DOMAIN jobs, Work(j)
      PROVE  Coherent'
  BY <1>6, <1>7 DEF Work
<1>8. CASE Tick
  BY <1>6, <1>8 DEF Tick
<1> QED
  BY <1>1, <1>2, <1>3, <1>4, <1>5, <1>7, <1>8 DEF Next, ScanOnce, Ends

-----------------------------------------------------------------------------
(* The theorems *)

\* The invariant holds in every reachable state of the schedules, whatever
\* scanners, updates, workers and faults do and however long they take.
THEOREM InvariantHolds == Spec => []IInv
<1>1. Init => IInv
  BY InitCorrect
<1>2. IInv /\ [Next]_vars => IInv'
  <2> SUFFICES ASSUME IInv, [Next]_vars PROVE IInv'
    OBVIOUS
  <2>1. CASE Next
    <3>1. TypeOK' /\ AcceptedAreOwed' /\ ScansArePast'
      BY <2>1, TypeKept, OwedKept, ScansStayPast DEF IInv
    <3>2. Coherent'
      BY <2>1, CoherenceKept DEF IInv, Coherent
    <3> QED
      BY <3>1, <3>2 DEF IInv, Coherent
  <2>2. CASE UNCHANGED vars
    <3>1. TypeOK' /\ AcceptedAreOwed' /\ ScansArePast'
      BY <2>2 DEF vars, IInv, TypeOK, AcceptedAreOwed, ScansArePast
    <3>2. RowsAreSound' /\ EditsAreSound' /\ CandidatesAgree' /\ ClaimedIsPast'
      BY <2>2 DEF vars, IInv, RowsAreSound, EditsAreSound, CandidatesAgree,
         ClaimedIsPast, Live
    <3> QED
      BY <3>1, <3>2 DEF IInv
  <2> QED
    BY <2>1, <2>2
<1> QED
  BY <1>1, <1>2, PTL DEF Spec

\* Plans, scans, updates and jobs stay within their types.
THEOREM TypeCorrect == Spec => []TypeOK
<1>1. IInv => TypeOK
  BY DEF IInv
<1> QED
  BY <1>1, InvariantHolds, PTL

\* A claimed fire that the misfire policy lets through has its job or a
\* scanner on its way to insert it (ScanOnce), also after a claim that fails
\* in the middle of a batch (ClaimDue).
THEOREM NothingLost == Spec => []NoFireLost
<1>1. IInv => NoFireLost
  BY OwedIsHeld DEF IInv, AcceptedAreOwed, NoFireLost
<1> QED
  BY <1>1, InvariantHolds, PTL

\* Of the scans that begin before the next fire of a plan only one claims the
\* fire that is due (the conditional update of ClaimDue), unless the plan was
\* given a next fire that was over.
THEOREM ClaimedOnce == Spec => OneClaimPerFire
<1> DEFINE Once(s) ==
       LET f == FireAhead(s)
           t == scan[s].at IN
       Claimable(f[1], t) /\ f[1] \notin late =>
          /\ claims[f] = Unclaimed \/ claims[f] <= t
          /\ claims'[f] > t
<1>1. IInv => \A s \in Scanners : ClaimPlan(s) => Once(s)
  <2> SUFFICES ASSUME IInv, NEW s \in Scanners, ClaimPlan(s),
                      Claimable(FireAhead(s)[1], scan[s].at),
                      FireAhead(s)[1] \notin late
               PROVE  LET f == FireAhead(s)
                          t == scan[s].at IN
                      /\ claims[f] = Unclaimed \/ claims[f] <= t
                      /\ claims'[f] > t
    OBVIOUS
  <2> DEFINE c == Head(scan[s].candidates)
             p == c.id
             t == scan[s].at
  <2>1. FireAhead(s) = <<p, c.next>>
    BY DEF FireAhead
  <2>2. scan[s] \in Claimings /\ scan[s].candidates # <<>> /\ t \in Times /\ t \in Nat
    BY ScanFields, TimesTypes DEF IInv, ClaimPlan, Claiming
  <2>3. c \in Candidates /\ Waiting(scan[s], c) /\ c.cron # Bad
    BY <2>2, RestFields DEF ClaimPlan
  <2>4. DueAt(p, t) /\ p \notin late
    BY <2>1 DEF Claimable
  <2>5. claims' = [claims EXCEPT ![<<p, c.next>>] = NextFire(c.cron, t)]
    BY <2>4 DEF ClaimPlan, Claimable
  <2> HIDE DEF c
  <2>6. p \in Plans /\ c.next \in NextTimes /\ c.cron \in Crons
    BY <2>3 DEF Candidates
  <2>7. claims'[<<p, c.next>>] = NextFire(c.cron, t)
    BY <2>5, <2>6 DEF IInv, TypeOK
  <2>8. NextFire(c.cron, t) > t
    <3>1. Recurs(c.cron)
      BY <2>3, <2>4 DEF IInv, CandidatesAgree, DueAt
    <3> QED
      BY <2>2, <2>6, <3>1, NextFireIsLater
  <2>9. claims[<<p, c.next>>] # Unclaimed => claims[<<p, c.next>>] <= t
    <3> SUFFICES ASSUME claims[<<p, c.next>>] # Unclaimed
                 PROVE  claims[<<p, c.next>>] <= t
      OBVIOUS
    <3>1. plan[p].next >= claims[<<p, c.next>>]
      BY <2>4, <2>6 DEF IInv, ClaimedIsPast, DueAt
    <3>2. plan[p].next <= t
      BY <2>4 DEF DueAt
    <3>3. claims[<<p, c.next>>] \in Nat /\ plan[p].next \in Nat
      BY <2>6, NextTimesAreNat, RowFields DEF IInv, TypeOK
    <3> QED
      BY <2>2, <3>1, <3>2, <3>3
  <2> QED
    BY <2>1, <2>7, <2>8, <2>9
<1> QED
  BY <1>1, InvariantHolds, PTL DEF OneClaimPerFire, Spec

\* Claims and reschedules do not swallow each other: the next fire of a plan
\* is one of the cron it holds now, or the end of a penalty (ClaimDue,
\* Update), unless the plan was given a next fire that was over.
THEOREM NextIsOfItsCron == Spec => []NextMatchesCron
<1>1. IInv => NextMatchesCron
  BY DEF IInv, RowsAreSound, Matches, NextMatchesCron
<1> QED
  BY <1>1, InvariantHolds, PTL
=============================================================================
