---------------------------- MODULE EngineProofs ----------------------------
(***************************************************************************)
(* Proofs about the engines that render pages: about their pool (Pool), for*)
(* any callers, size of the pool and number of slow renders and traps; and *)
(* about the slots and the string arena of each engine (Bridge), for any   *)
(* sizes, numbers of arguments and depth of host calls.                    *)
(***************************************************************************)
EXTENDS Pool, Bridge, FiniteSetTheorems, SequenceTheorems, TLAPS

-----------------------------------------------------------------------------
(* The inductive invariant *)

\* No trace of an instance before it is built.
Known ==
    /\ \A p \in Procs : Inst(p) \in 0..built
    /\ \A n \in DOMAIN idle : idle[n] \in 1..built
    /\ \A i \in Ids : i > built => runner[i].pc = "none" /\ runner[i].kind = "quick"
    /\ closer.todo \subseteq 1..built /\ (~closed => closer.todo = {})

\* replaceInstance is called for dead instances only; run calls it while its own
\* goroutine is there, and callers never do.
Replacing ==
    /\ \A j \in Jobs : /\ proc[j] # Out => j[1] \in dead
                       /\ proc[j].pc \in {"out", "check", "build", "release", "push"}
                       /\ proc[j] # Out /\ j[2] = "run" =>
                             runner[j[1]].pc = "replace"
    /\ \A c \in Callers : proc[c].pc \notin {"check", "build"}

\* The goroutine of an instance answers nobody but the caller that waits for it.
Listening ==
    \A i \in Ids : LET c == runner[i].for IN
        c # Nobody => runner[i].pc = "render" /\ proc[c] = [pc |-> "wait", inst |-> i]

\* An instance is held by one process, or is in idle once, or in neither; and in
\* one of them if it is alive.
OnePlace ==
    /\ \A p, q \in Procs : Inst(p) = Inst(q) /\ Inst(p) # 0 => p = q
    /\ \A m, n \in DOMAIN idle : idle[m] = idle[n] => m = n
    /\ \A p \in Procs, n \in DOMAIN idle : Inst(p) # idle[n]
    /\ \A i \in instances \ dead :
          \/ closed
          \/ \E p \in Procs : Inst(p) = i
          \/ \E n \in DOMAIN idle : idle[n] = i

\* Every engine that is built to replace another is paid for by a slow render or
\* a trap: each of these instances had one of its own.
Building(i) == \E j \in Jobs : j[1] = i /\ proc[j].pc = "build"
Suspect(i) == i \in dead \/ runner[i].kind = "slow" \/ runner[i].pc = "retire"
Spent == {i \in 1..built : \/ i \notin instances \/ Building(i)
                           \/ ~closed /\ Suspect(i)}
Afforded == Cardinality(Spent) <= faults

IInv ==
    /\ TypeOK /\ Known /\ Replacing /\ Listening
    /\ OnePlace /\ CapacityKept /\ Afforded

-----------------------------------------------------------------------------
(* Processes *)

LEMMA Bounds ==
    /\ Size \in Nat \ {0} /\ MaxFaults \in Nat /\ MaxBuilt \in Nat
    /\ MaxBuilt >= Size + MaxFaults
    /\ Nobody \notin Callers /\ Impatient \subseteq Callers
  BY PoolAssumption

LEMMA BuiltType ==
    ASSUME TypeOK
    PROVE  built \in Nat /\ built >= Size /\ built <= MaxBuilt /\ 1..built \subseteq Ids
  BY Bounds DEF TypeOK, Ids

LEMMA JobsAreProcs ==
    /\ \A i \in Ids : <<i, "kill">> \in Jobs /\ <<i, "run">> \in Jobs
    /\ \A j \in Jobs : /\ j \in Procs /\ j \notin Callers
                       /\ j[1] \in Ids /\ j[2] \in {"kill", "run"}
                       /\ j = <<j[1], j[2]>>
    /\ \A c \in Callers : c \in Procs /\ c \notin Jobs
  BY PoolAssumption DEF Jobs, Procs, Ids

\* What a process holds.
LEMMA ProcType ==
    ASSUME TypeOK, NEW p \in Procs
    PROVE  /\ proc[p] \in ProcStates
           /\ proc[p] = [pc |-> proc[p].pc, inst |-> proc[p].inst]
           /\ proc[p].pc \in {"out", "acquire", "check", "build"} \cup Holding
           /\ proc[p].pc \in Holding => proc[p].inst \in Ids
           /\ proc[p].pc \notin Holding => proc[p].inst = 0
           /\ proc[p].inst # 0 => proc[p].inst \in Ids /\ proc[p].pc \in Holding
           /\ proc[p] = Out <=> proc[p].pc = "out"
<1>1. proc[p] \in ProcStates
  BY DEF TypeOK
<1> QED
  BY <1>1, PoolAssumption DEF ProcStates, Holding, Out, Ids

\* Moving to another point, with the instance or without one.
LEMMA GotoType ==
    ASSUME TypeOK, NEW p \in Procs, NEW dest, Goto(p, dest),
           \/ proc[p].pc \in Holding /\ dest \in Holding
           \/ proc[p].pc \notin Holding /\ dest \in {"out", "acquire", "check", "build"}
    PROVE  /\ proc' \in [Procs -> ProcStates]
           /\ proc'[p] = [pc |-> dest, inst |-> proc[p].inst]
           /\ \A q \in Procs \ {p} : proc'[q] = proc[q]
<1>1. proc' = [proc EXCEPT ![p] = [proc[p] EXCEPT !.pc = dest]]
  BY DEF Goto
<1>2. [proc[p] EXCEPT !.pc = dest] = [pc |-> dest, inst |-> proc[p].inst]
  BY DEF TypeOK, ProcStates
<1>3. [pc |-> dest, inst |-> proc[p].inst] \in ProcStates
  BY ProcType DEF ProcStates
<1> QED
  BY <1>1, <1>2, <1>3 DEF TypeOK

LEMMA OutType == Out \in ProcStates
  BY DEF Out, ProcStates

\* What a goroutine of an instance may be.
LEMMA RunnerType ==
    ASSUME TypeOK, NEW i \in Ids
    PROVE  /\ runner[i] \in Runners
           /\ runner[i].pc \in {"none", "ready", "render", "retire", "replace", "exited"}
           /\ runner[i].for \in Callers \cup {Nobody}
           /\ runner[i].kind \in Kinds
  BY DEF TypeOK, Runners

\* The caller an instance renders for.
LEMMA Listener ==
    ASSUME TypeOK, Listening, NEW i \in Ids, runner[i].for # Nobody
    PROVE  /\ runner[i].for \in Callers /\ runner[i].for \in Procs
           /\ runner[i].pc = "render"
           /\ proc[runner[i].for].pc = "wait" /\ proc[runner[i].for].inst = i
<1>1. runner[i].for \in Callers
  BY RunnerType
<1>2. proc[runner[i].for] = [pc |-> "wait", inst |-> i] /\ runner[i].pc = "render"
  BY DEF Listening
<1> QED
  BY <1>1, <1>2, JobsAreProcs

\* Returning from Render, or from replaceInstance.
LEMMA ReturnType ==
    ASSUME TypeOK, Replacing, Listening, NEW p \in Procs, Return(p)
    PROVE  /\ proc' \in [Procs -> ProcStates]
           /\ proc'[p] = Out
           /\ \A q \in Procs \ {p} : proc'[q] = proc[q]
           /\ runner' \in [Ids -> Runners]
           /\ \A i \in Ids : /\ runner'[i].for = runner[i].for
                             /\ runner'[i].kind = runner[i].kind
                             /\ \/ runner'[i].pc = runner[i].pc
                                \/ runner'[i].pc = "exited" /\ p = <<i, "run">>
<1>1. /\ proc' \in [Procs -> ProcStates]
      /\ proc'[p] = Out
      /\ \A q \in Procs \ {p} : proc'[q] = proc[q]
  BY OutType DEF TypeOK, Return
<1>2. CASE p \in Jobs /\ p[2] = "run"
  <2>1. /\ p[1] \in Ids /\ p = <<p[1], "run">>
        /\ runner' = [runner EXCEPT ![p[1]] = [runner[p[1]] EXCEPT !.pc = "exited"]]
    BY <1>2, JobsAreProcs DEF Return
  <2>2. [runner[p[1]] EXCEPT !.pc = "exited"] \in Runners
    BY <2>1, RunnerType DEF Runners
  <2> QED
    BY <1>1, <2>1, <2>2, RunnerType DEF TypeOK, Runners
<1>3. CASE ~(p \in Jobs /\ p[2] = "run")
  BY <1>1, <1>3, RunnerType DEF Return, TypeOK
<1> QED
  BY <1>2, <1>3

\* killInstance: nothing if the instance is dead, and a call of replaceInstance,
\* which was not there before, if it is alive.
LEMMA KillType ==
    ASSUME TypeOK, Replacing, NEW i \in 1..built, NEW procs, Kill(i, procs),
           procs \in [Procs -> ProcStates],
           procs[<<i, "kill">>] = proc[<<i, "kill">>]
    PROVE  /\ proc' \in [Procs -> ProcStates]
           /\ dead' = dead \cup {i} /\ killed' \subseteq dead' /\ dead' \subseteq 1..built
           /\ \A q \in Procs \ {<<i, "kill">>} : proc'[q] = procs[q]
           /\ i \in dead => proc' = procs
           /\ i \notin dead => /\ proc[<<i, "kill">>] = Out
                               /\ proc'[<<i, "kill">>] = [pc |-> "check", inst |-> 0]
<1>1. i \in Ids /\ <<i, "kill">> \in Jobs /\ <<i, "kill">> \in Procs
  BY BuiltType, JobsAreProcs
<1>2. CASE i \in dead
  BY <1>2 DEF Kill, TypeOK
<1>3. CASE i \notin dead
  <2>1. proc[<<i, "kill">>] = Out
    BY <1>1, <1>3, JobsAreProcs DEF Replacing
  <2>2. proc' = [procs EXCEPT ![<<i, "kill">>] = [procs[<<i, "kill">>] EXCEPT !.pc = "check"]]
    BY <1>3 DEF Kill
  <2>3. [procs[<<i, "kill">>] EXCEPT !.pc = "check"] = [pc |-> "check", inst |-> 0]
    BY <2>1 DEF Out
  <2>4. [pc |-> "check", inst |-> 0] \in ProcStates
    BY DEF ProcStates
  <2> QED
    BY <1>1, <1>3, <2>1, <2>2, <2>3, <2>4 DEF Kill, TypeOK
<1> QED
  BY <1>2, <1>3

-----------------------------------------------------------------------------
(* Places *)

Core == TypeOK /\ Known /\ Replacing /\ Listening /\ OnePlace

\* Whatever leaves the instances where they are keeps OnePlace.
LEMMA PlacesKept ==
    ASSUME OnePlace, \A p \in Procs : Inst(p)' = Inst(p), UNCHANGED idle,
           instances' \subseteq instances, dead \subseteq dead', closed => closed'
    PROVE  OnePlace'
  BY DEF OnePlace, Inst

\* A process that moves on with what it holds.
LEMMA MoveCore ==
    ASSUME Core, NEW p \in Procs, NEW dest, Goto(p, dest),
           \/ proc[p].pc \in Holding /\ dest \in Holding
           \/ proc[p].pc \notin Holding /\ dest \in {"out", "acquire", "check", "build"},
           proc[p].pc # "wait",
           p \in Jobs => proc[p].pc # "out" /\ dest \in {"check", "build", "release", "push"},
           p \in Callers => dest \notin {"check", "build"},
           UNCHANGED <<instances, idle, dead, killed, runner, closed, closer,
                       built, lost, faults>>
    PROVE  Core'
<1> SUFFICES ASSUME TypeOK, Known, Replacing, Listening, OnePlace PROVE Core'
  BY DEF Core
<1>1. /\ proc' \in [Procs -> ProcStates]
      /\ proc'[p] = [pc |-> dest, inst |-> proc[p].inst]
      /\ \A q \in Procs \ {p} : proc'[q] = proc[q]
  BY GotoType
<1>2. \A q \in Procs : Inst(q)' = Inst(q)
  BY <1>1 DEF Inst
<1>3. TypeOK'
  BY <1>1 DEF TypeOK
<1>4. Known'
  BY <1>2 DEF Known, Inst
<1>5. Replacing'
  BY <1>1, JobsAreProcs DEF Replacing, Out
<1>6. Listening'
  <2> SUFFICES ASSUME NEW i \in Ids, runner[i].for # Nobody
               PROVE  proc'[runner[i].for] = proc[runner[i].for]
    BY DEF Listening
  <2>1. proc[runner[i].for].pc = "wait" /\ runner[i].for \in Procs
    BY Listener
  <2> QED
    BY <1>1, <2>1
<1>7. OnePlace'
  BY <1>2, PlacesKept
<1> QED
  BY <1>3, <1>4, <1>5, <1>6, <1>7 DEF Core

\* A process that returns without an instance, or with one that nobody shall have.
LEMMA ReturnCore ==
    ASSUME Core, NEW p \in Procs, Return(p), proc[p].pc \notin {"out", "wait"},
           Inst(p) = 0 \/ Inst(p) \in dead \/ closed,
           UNCHANGED <<idle, dead, killed, closed, closer, built, faults>>,
           instances' \subseteq instances, lost' \in 0..Size
    PROVE  Core'
<1> SUFFICES ASSUME TypeOK, Known, Replacing, Listening, OnePlace PROVE Core'
  BY DEF Core
<1>1. /\ proc' \in [Procs -> ProcStates]
      /\ proc'[p] = Out
      /\ \A q \in Procs \ {p} : proc'[q] = proc[q]
      /\ runner' \in [Ids -> Runners]
      /\ \A i \in Ids : /\ runner'[i].for = runner[i].for
                        /\ runner'[i].kind = runner[i].kind
                        /\ \/ runner'[i].pc = runner[i].pc
                           \/ runner'[i].pc = "exited" /\ p = <<i, "run">>
  BY ReturnType
<1>2. TypeOK'
  BY <1>1 DEF TypeOK
<1>3. \A i \in Ids : p = <<i, "run">> => runner[i].pc = "replace" /\ i <= built
  <2> SUFFICES ASSUME NEW i \in Ids, p = <<i, "run">>
               PROVE  runner[i].pc = "replace" /\ i <= built
    OBVIOUS
  <2>1. proc[p] # Out /\ p \in Jobs /\ p[1] = i /\ p[2] = "run"
    <3>1. proc[p] # Out
      BY ProcType
    <3> QED
      BY <3>1, JobsAreProcs
  <2>2. i \in dead
    BY <2>1 DEF Replacing
  <2> QED
    BY <2>1, <2>2, BuiltType DEF Replacing, TypeOK
<1>4. Known'
  <2>1. \A q \in Procs : Inst(q)' \in 0..built
    BY <1>1, BuiltType DEF Known, Inst, Out
  <2>2. \A i \in Ids : i > built => runner'[i].pc = "none" /\ runner'[i].kind = "quick"
    BY <1>1, <1>3, BuiltType DEF Known, Ids
  <2> QED
    BY <2>1, <2>2 DEF Known, Inst
<1>5. Replacing'
  <2>1. ASSUME NEW j \in Jobs, proc'[j] # Out, j[2] = "run"
        PROVE  runner'[j[1]].pc = "replace"
    <3>1. j # p /\ proc'[j] = proc[j] /\ j[1] \in Ids /\ j = <<j[1], "run">>
      BY <1>1, <2>1, JobsAreProcs
    <3> QED
      BY <1>1, <2>1, <3>1 DEF Replacing
  <2> QED
    BY <1>1, <2>1, JobsAreProcs DEF Replacing, Out
<1>6. Listening'
  <2> SUFFICES ASSUME NEW i \in Ids, runner[i].for # Nobody
               PROVE  /\ runner'[i].pc = "render"
                      /\ proc'[runner[i].for] = proc[runner[i].for]
    BY <1>1 DEF Listening
  <2>1. /\ proc[runner[i].for].pc = "wait" /\ runner[i].for \in Procs
        /\ runner[i].pc = "render"
    BY Listener
  <2> QED
    BY <1>1, <1>3, <2>1
<1>7. OnePlace'
  <2>1. \A q \in Procs : Inst(q)' = IF q = p THEN 0 ELSE Inst(q)
    BY <1>1 DEF Inst, Out
  <2>2. \A n \in DOMAIN idle : idle[n] # 0
    BY BuiltType DEF Known
  <2>3. ASSUME NEW i \in instances \ dead, ~closed
        PROVE  \/ \E q \in Procs : Inst(q)' = i
               \/ \E n \in DOMAIN idle : idle[n] = i
    <3>1. i # 0
      BY BuiltType DEF TypeOK
    <3> QED
      BY <2>1, <2>3, <3>1 DEF OnePlace
  <2>4. \A q, r \in Procs : Inst(q)' = Inst(r)' /\ Inst(q)' # 0 => q = r
    BY <2>1 DEF OnePlace
  <2>5. \A q \in Procs, n \in DOMAIN idle : Inst(q)' # idle[n]
    BY <2>1, <2>2 DEF OnePlace
  <2> QED
    BY <2>3, <2>4, <2>5 DEF OnePlace, Inst
<1> QED
  BY <1>2, <1>4, <1>5, <1>6, <1>7 DEF Core

-----------------------------------------------------------------------------
(* Callers *)

LEMMA HeldType ==
    ASSUME TypeOK, Known, NEW p \in Procs, proc[p].pc \in Holding
    PROVE  Inst(p) \in Ids /\ Inst(p) \in 1..built
<1>1. Inst(p) \in Ids /\ Inst(p) \in 0..built
  BY ProcType DEF Inst, Known
<1> QED
  BY <1>1 DEF Ids

LEMMA UnheardType ==
    ASSUME TypeOK, Listening, NEW c \in Callers, Inst(c) \in Ids, Unheard(c)
    PROVE  /\ runner' \in [Ids -> Runners]
           /\ \A i \in Ids : /\ runner'[i].pc = runner[i].pc
                             /\ runner'[i].kind = runner[i].kind
                             /\ runner'[i].for \in {runner[i].for, Nobody}
                             /\ runner'[i].for # c
<1> DEFINE k == Inst(c)
           r == [runner[k] EXCEPT !.for = IF runner[k].for = c THEN Nobody ELSE runner[k].for]
<1>1. runner' = [runner EXCEPT ![k] = r]
  BY DEF Unheard
<1>2. /\ r \in Runners /\ r.pc = runner[k].pc /\ r.kind = runner[k].kind
      /\ r.for \in {runner[k].for, Nobody} /\ r.for # c
  BY RunnerType, Bounds DEF Runners
<1>3. \A i \in Ids \ {k} : runner[i].for # c
  BY Listener, Bounds DEF Inst
<1>4. runner'[k] = r /\ \A i \in Ids \ {k} : runner'[i] = runner[i]
  BY <1>1 DEF TypeOK
<1>5. runner' \in [Ids -> Runners]
  BY <1>1, <1>2 DEF TypeOK
<1> HIDE DEF k, r
<1> QED
  BY <1>2, <1>3, <1>4, <1>5

\* A caller that stops waiting keeps the instance and is no longer heard.
LEMMA LeaveCore ==
    ASSUME Core, NEW c \in Callers, proc[c].pc \in {"wait", "answered"},
           Goto(c, "release"), Unheard(c),
           UNCHANGED <<instances, idle, dead, killed, closed, closer, built,
                       lost, faults>>
    PROVE  Core'
<1> SUFFICES ASSUME TypeOK, Known, Replacing, Listening, OnePlace PROVE Core'
  BY DEF Core
<1>1. /\ c \in Procs /\ c \notin Jobs
      /\ proc' \in [Procs -> ProcStates]
      /\ proc'[c] = [pc |-> "release", inst |-> proc[c].inst]
      /\ \A q \in Procs \ {c} : proc'[q] = proc[q]
  BY GotoType, JobsAreProcs DEF Holding
<1>2. /\ runner' \in [Ids -> Runners]
      /\ \A i \in Ids : /\ runner'[i].pc = runner[i].pc
                        /\ runner'[i].kind = runner[i].kind
                        /\ runner'[i].for \in {runner[i].for, Nobody}
                        /\ runner'[i].for # c
  <2>1. Inst(c) \in Ids
    BY <1>1, ProcType DEF Inst, Holding
  <2> QED
    BY <2>1, UnheardType
<1>3. \A q \in Procs : Inst(q)' = Inst(q)
  BY <1>1 DEF Inst
<1>4. TypeOK'
  BY <1>1, <1>2 DEF TypeOK
<1>5. Known'
  BY <1>2, <1>3 DEF Known, Inst
<1>6. Replacing'
  BY <1>1, <1>2, JobsAreProcs DEF Replacing
<1>7. Listening'
  <2> SUFFICES ASSUME NEW i \in Ids, runner'[i].for # Nobody
               PROVE  /\ runner'[i].pc = "render"
                      /\ proc'[runner'[i].for] = [pc |-> "wait", inst |-> i]
    BY DEF Listening
  <2>1. runner'[i].for = runner[i].for /\ runner[i].for # c /\ runner[i].for \in Procs
    BY <1>2, Listener
  <2> QED
    BY <1>1, <1>2, <2>1 DEF Listening
<1>8. OnePlace'
  BY <1>3, PlacesKept
<1> QED
  BY <1>4, <1>5, <1>6, <1>7, <1>8 DEF Core

\* The same with the instance killed.
LEMMA TimeoutCore ==
    ASSUME Core, NEW c \in Callers, Timeout(c)
    PROVE  Core'
<1> SUFFICES ASSUME TypeOK, Known, Replacing, Listening, OnePlace PROVE Core'
  BY DEF Core
<1> DEFINE k == Inst(c)
           job == <<k, "kill">>
           procs == [proc EXCEPT ![c].pc = "release"]
<1>1. c \in Procs /\ c \notin Jobs /\ k \in Ids /\ k \in 1..built
  BY HeldType, JobsAreProcs DEF Timeout, Holding
<1>2. job \in Jobs /\ job \in Procs /\ job # c
  BY <1>1, JobsAreProcs
<1>3. /\ procs \in [Procs -> ProcStates]
      /\ procs[c] = [pc |-> "release", inst |-> k]
      /\ \A q \in Procs \ {c} : procs[q] = proc[q]
  <2>1. procs = [proc EXCEPT ![c] = [proc[c] EXCEPT !.pc = "release"]]
    OBVIOUS
  <2>2. [proc[c] EXCEPT !.pc = "release"] = [pc |-> "release", inst |-> k]
    BY <1>1 DEF TypeOK, ProcStates, Inst
  <2>3. [pc |-> "release", inst |-> k] \in ProcStates
    BY <1>1 DEF ProcStates, Holding
  <2> QED
    BY <1>1, <2>1, <2>2, <2>3 DEF TypeOK
<1>4. /\ proc' \in [Procs -> ProcStates]
      /\ dead' = dead \cup {k} /\ killed' \subseteq dead' /\ dead' \subseteq 1..built
      /\ \A q \in Procs \ {job} : proc'[q] = procs[q]
      /\ k \in dead => proc' = procs
      /\ k \notin dead => /\ proc[job] = Out
                          /\ proc'[job] = [pc |-> "check", inst |-> 0]
  BY <1>1, <1>2, <1>3, KillType DEF Timeout
<1>5. /\ runner' \in [Ids -> Runners]
      /\ \A i \in Ids : /\ runner'[i].pc = runner[i].pc
                        /\ runner'[i].kind = runner[i].kind
                        /\ runner'[i].for \in {runner[i].for, Nobody}
                        /\ runner'[i].for # c
  BY <1>1, UnheardType DEF Timeout
<1>6. /\ proc'[c] = [pc |-> "release", inst |-> k]
      /\ \A q \in Procs \ {c, job} : proc'[q] = proc[q]
      /\ \/ proc'[job] = proc[job]
         \/ k \notin dead /\ proc[job] = Out /\ proc'[job] = [pc |-> "check", inst |-> 0]
  BY <1>1, <1>2, <1>3, <1>4
<1>7. UNCHANGED <<instances, idle, closed, closer, built, lost, faults>>
  BY DEF Timeout
<1>8. \A q \in Procs : Inst(q)' = Inst(q)
  BY <1>6 DEF Inst, Out
<1>9. TypeOK'
  BY <1>4, <1>5, <1>7 DEF TypeOK
<1>10. Known'
  BY <1>5, <1>7, <1>8 DEF Known, Inst
<1>11. Replacing'
  <2>1. ASSUME NEW j \in Jobs
        PROVE  /\ proc'[j] # Out => j[1] \in dead'
               /\ proc'[j].pc \in {"out", "check", "build", "release", "push"}
               /\ proc'[j] # Out /\ j[2] = "run" => runner'[j[1]].pc = "replace"
    <3>1. CASE proc'[j] = proc[j]
      BY <1>4, <1>5, <2>1, <3>1, JobsAreProcs DEF Replacing
    <3>2. CASE j = job /\ proc'[job] = [pc |-> "check", inst |-> 0]
      BY <1>4, <3>2
    <3> QED
      BY <1>1, <1>6, <2>1, <3>1, <3>2, JobsAreProcs
  <2>2. \A d \in Callers : proc'[d].pc \notin {"check", "build"}
    BY <1>1, <1>2, <1>6, JobsAreProcs DEF Replacing
  <2> QED
    BY <2>1, <2>2 DEF Replacing
<1>12. Listening'
  <2> SUFFICES ASSUME NEW i \in Ids, runner'[i].for # Nobody
               PROVE  /\ runner'[i].pc = "render"
                      /\ proc'[runner'[i].for] = [pc |-> "wait", inst |-> i]
    BY DEF Listening
  <2>1. /\ runner'[i].for = runner[i].for /\ runner[i].for # c
        /\ runner[i].for \in Callers
    BY <1>5, Listener
  <2>2. proc'[runner[i].for] = proc[runner[i].for]
    BY <1>2, <1>6, <2>1, JobsAreProcs
  <2> QED
    BY <1>5, <2>1, <2>2 DEF Listening
<1>13. OnePlace'
  BY <1>4, <1>7, <1>8, PlacesKept
<1> QED
  BY <1>9, <1>10, <1>11, <1>12, <1>13 DEF Core

\* What is left of a queue when its head is taken.
LEMMA TailFacts ==
    ASSUME NEW S, NEW s \in Seq(S), s # <<>>
    PROVE  /\ Len(s) \in Nat /\ Len(s) >= 1 /\ 1 \in DOMAIN s
           /\ Head(s) = s[1] /\ Head(s) \in S
           /\ Tail(s) \in Seq(S) /\ Len(Tail(s)) = Len(s) - 1
           /\ \A n \in DOMAIN Tail(s) : n + 1 \in DOMAIN s /\ n + 1 # 1 /\ Tail(s)[n] = s[n + 1]
           /\ \A n \in DOMAIN s : n # 1 => n - 1 \in DOMAIN Tail(s) /\ Tail(s)[n - 1] = s[n]
<1>1. Len(s) \in Nat /\ Len(s) >= 1 /\ DOMAIN s = 1..Len(s)
  OBVIOUS
<1>2. Tail(s) \in Seq(S) /\ Len(Tail(s)) = Len(s) - 1 /\ DOMAIN Tail(s) = 1..(Len(s) - 1)
  BY <1>1
<1>3. \A n \in 1..(Len(s) - 1) : Tail(s)[n] = s[n + 1]
  BY <1>1
<1>4. \A n \in 2..Len(s) : Tail(s)[n - 1] = s[n]
  BY <1>1, <1>3
<1> QED
  BY <1>1, <1>2, <1>3, <1>4

\* An instance leaves the channel into the hands of a caller.
LEMMA AcquireCore ==
    ASSUME Core, NEW c \in Callers, Acquire(c)
    PROVE  Core'
<1> SUFFICES ASSUME TypeOK, Known, Replacing, Listening, OnePlace PROVE Core'
  BY DEF Core
<1>1. /\ c \in Procs /\ c \notin Jobs /\ proc[c].pc = "acquire" /\ Inst(c) = 0
  BY ProcType, JobsAreProcs DEF Acquire, At, Inst, Holding
<1>2. /\ idle \in Seq(Ids) /\ Len(idle) \in Nat /\ Len(idle) >= 1
      /\ Head(idle) = idle[1] /\ Head(idle) \in Ids /\ 1 \in DOMAIN idle
      /\ idle' \in Seq(Ids) /\ Len(idle') = Len(idle) - 1
      /\ \A n \in DOMAIN idle' : /\ n + 1 \in DOMAIN idle /\ n + 1 # 1
                                 /\ idle'[n] = idle[n + 1]
      /\ \A n \in DOMAIN idle :
            n # 1 => n - 1 \in DOMAIN idle' /\ idle'[n - 1] = idle[n]
  BY TailFacts DEF Acquire, TypeOK
<1>3. /\ proc' \in [Procs -> ProcStates]
      /\ proc'[c] = [pc |-> "ask", inst |-> idle[1]]
      /\ \A q \in Procs \ {c} : proc'[q] = proc[q]
  BY <1>1, <1>2 DEF Acquire, TypeOK, ProcStates, Holding
<1>4. \A q \in Procs : Inst(q)' = IF q = c THEN idle[1] ELSE Inst(q)
  BY <1>3 DEF Inst
<1>5. UNCHANGED <<instances, dead, killed, runner, closed, closer, built, lost, faults>>
  BY DEF Acquire
<1>6. TypeOK'
  BY <1>2, <1>3, <1>5, Bounds DEF TypeOK
<1>7. Known'
  <2>1. \A n \in DOMAIN idle' : idle'[n] \in 1..built
    BY <1>2 DEF Known
  <2>2. idle[1] \in 0..built
    BY <1>2, BuiltType DEF Known
  <2>3. \A q \in Procs : Inst(q)' \in 0..built
    BY <1>4, <2>2 DEF Known
  <2> QED
    BY <1>5, <2>1, <2>3 DEF Known, Inst
<1>8. Replacing'
  BY <1>1, <1>3, <1>5, JobsAreProcs DEF Replacing
<1>9. Listening'
  <2> SUFFICES ASSUME NEW i \in Ids, runner[i].for # Nobody
               PROVE  proc'[runner[i].for] = proc[runner[i].for]
    BY <1>5 DEF Listening
  <2> QED
    BY <1>1, <1>3, Listener
<1>10. OnePlace'
  <2>1. ASSUME NEW n \in DOMAIN idle'
        PROVE  idle'[n] # idle[1]
    <3>1. n + 1 \in DOMAIN idle /\ n + 1 # 1 /\ idle'[n] = idle[n + 1] /\ 1 \in DOMAIN idle
      BY <1>2
    <3> DEFINE m == n + 1
    <3> HIDE DEF m
    <3>2. m \in DOMAIN idle /\ m # 1 /\ idle'[n] = idle[m]
      BY <3>1 DEF m
    <3> QED
      BY <3>1, <3>2 DEF OnePlace
  <2>2. \A q, r \in Procs : Inst(q)' = Inst(r)' /\ Inst(q)' # 0 => q = r
    <3>1. \A q \in Procs : Inst(q) # idle[1]
      BY <1>2 DEF OnePlace
    <3> QED
      BY <1>4, <3>1 DEF OnePlace
  <2>3. \A m, n \in DOMAIN idle' : idle'[m] = idle'[n] => m = n
    BY <1>2 DEF OnePlace
  <2>4. \A q \in Procs, n \in DOMAIN idle' : Inst(q)' # idle'[n]
    BY <1>2, <1>4, <2>1 DEF OnePlace
  <2>5. ASSUME NEW i \in instances \ dead, ~closed
        PROVE  \/ \E q \in Procs : Inst(q)' = i
               \/ \E n \in DOMAIN idle' : idle'[n] = i
    <3>1. CASE \E q \in Procs : Inst(q) = i
      <4>1. i # 0
        BY BuiltType DEF TypeOK
      <4> QED
        BY <1>1, <1>4, <3>1, <4>1
    <3>2. CASE \E n \in DOMAIN idle : idle[n] = i
      BY <1>1, <1>2, <1>4, <3>2
    <3> QED
      BY <2>5, <3>1, <3>2 DEF OnePlace
  <2> QED
    BY <1>5, <2>2, <2>3, <2>4, <2>5 DEF OnePlace, Inst
<1> QED
  BY <1>6, <1>7, <1>8, <1>9, <1>10 DEF Core

\* An instance goes back into the channel from the hands of whoever held it.
LEMMA PushCore ==
    ASSUME Core, NEW p \in Procs, Push(p)
    PROVE  Core'
<1> SUFFICES ASSUME TypeOK, Known, Replacing, Listening, OnePlace PROVE Core'
  BY DEF Core
<1>1. proc[p].pc = "push" /\ Inst(p) \in Ids /\ Inst(p) \in 1..built
  BY HeldType DEF Push, At, Holding
<1>2. CASE UNCHANGED idle /\ closed
  <2>1. lost \in 0..Size
    BY DEF TypeOK
  <2> QED
    BY <1>1, <1>2, <2>1, ReturnCore DEF Push
<1>3. CASE Len(idle) < Size /\ idle' = Append(idle, Inst(p))
  <2>1. /\ proc' \in [Procs -> ProcStates]
        /\ proc'[p] = Out
        /\ \A q \in Procs \ {p} : proc'[q] = proc[q]
        /\ runner' \in [Ids -> Runners]
        /\ \A i \in Ids : /\ runner'[i].for = runner[i].for
                          /\ runner'[i].kind = runner[i].kind
                          /\ \/ runner'[i].pc = runner[i].pc
                             \/ runner'[i].pc = "exited" /\ p = <<i, "run">>
    BY ReturnType DEF Push
  <2>2. /\ idle \in Seq(Ids) /\ Len(idle) \in Nat
        /\ idle' \in Seq(Ids) /\ Len(idle') = Len(idle) + 1
        /\ \A n \in DOMAIN idle : n \in DOMAIN idle' /\ idle'[n] = idle[n]
        /\ Len(idle') \in DOMAIN idle' /\ idle'[Len(idle')] = Inst(p)
        /\ \A n \in DOMAIN idle' : n \in DOMAIN idle \/ n = Len(idle')
    BY <1>1, <1>3 DEF TypeOK
  <2>3. \A q \in Procs : Inst(q)' = IF q = p THEN 0 ELSE Inst(q)
    BY <2>1 DEF Inst, Out
  <2>4. UNCHANGED <<instances, dead, killed, closed, closer, built, lost, faults>>
    BY DEF Push
  <2>5. TypeOK'
    BY <1>3, <2>1, <2>2, <2>4, Bounds DEF TypeOK
  <2>6. \A i \in Ids : p = <<i, "run">> => runner[i].pc = "replace" /\ i <= built
    <3> SUFFICES ASSUME NEW i \in Ids, p = <<i, "run">>
                 PROVE  runner[i].pc = "replace" /\ i <= built
      OBVIOUS
    <3>1. proc[p] # Out /\ p \in Jobs /\ p[1] = i /\ p[2] = "run"
      <4>1. proc[p] # Out
        BY <1>1, ProcType
      <4> QED
        BY <4>1, JobsAreProcs
    <3>2. i \in dead
      BY <3>1 DEF Replacing
    <3> QED
      BY <3>1, <3>2, BuiltType DEF Replacing, TypeOK
  <2>7. Known'
    <3>1. \A q \in Procs : Inst(q)' \in 0..built
      BY <2>3, BuiltType DEF Known
    <3>2. \A i \in Ids : i > built => runner'[i].pc = "none" /\ runner'[i].kind = "quick"
      BY <2>1, <2>6, BuiltType DEF Known, Ids
    <3>3. \A n \in DOMAIN idle' : idle'[n] \in 1..built
      BY <1>1, <2>2 DEF Known
    <3> QED
      BY <2>4, <3>1, <3>2, <3>3 DEF Known, Inst
  <2>8. Replacing'
    <3>1. ASSUME NEW j \in Jobs, proc'[j] # Out, j[2] = "run"
          PROVE  runner'[j[1]].pc = "replace"
      <4>1. j # p /\ proc'[j] = proc[j] /\ j[1] \in Ids /\ j = <<j[1], "run">>
        BY <2>1, <3>1, JobsAreProcs
      <4> QED
        BY <2>1, <3>1, <4>1 DEF Replacing
    <3> QED
      BY <2>1, <2>4, <3>1, JobsAreProcs DEF Replacing, Out
  <2>9. Listening'
    <3> SUFFICES ASSUME NEW i \in Ids, runner[i].for # Nobody
                 PROVE  /\ runner'[i].pc = "render"
                        /\ proc'[runner[i].for] = proc[runner[i].for]
      BY <2>1 DEF Listening
    <3>1. /\ proc[runner[i].for].pc = "wait" /\ runner[i].for \in Procs
          /\ runner[i].pc = "render"
      BY Listener
    <3> QED
      BY <1>1, <2>1, <2>6, <3>1
  <2>10. OnePlace'
    <3>1. \A n \in DOMAIN idle' : idle'[n] # 0
      BY <1>1, <2>2, BuiltType DEF Known
    <3>2. \A q, r \in Procs : Inst(q)' = Inst(r)' /\ Inst(q)' # 0 => q = r
      BY <2>3 DEF OnePlace
    <3>3. \A m, n \in DOMAIN idle' : idle'[m] = idle'[n] => m = n
      BY <2>2 DEF OnePlace
    <3>4. \A q \in Procs, n \in DOMAIN idle' : Inst(q)' # idle'[n]
      BY <1>1, <2>2, <2>3, <3>1 DEF OnePlace
    <3>5. ASSUME NEW i \in instances \ dead, ~closed
          PROVE  \/ \E q \in Procs : Inst(q)' = i
                 \/ \E n \in DOMAIN idle' : idle'[n] = i
      <4>1. CASE \E q \in Procs : Inst(q) = i
        BY <2>2, <2>3, <4>1
      <4>2. CASE \E n \in DOMAIN idle : idle[n] = i
        BY <2>2, <4>2
      <4> QED
        BY <3>5, <4>1, <4>2 DEF OnePlace
    <3> QED
      BY <2>4, <3>2, <3>3, <3>4, <3>5 DEF OnePlace, Inst
  <2> QED
    BY <2>5, <2>7, <2>8, <2>9, <2>10 DEF Core
<1> QED
  BY <1>2, <1>3 DEF Push

\* A goroutine takes a request: from now on it answers to this caller.
LEMMA SendCore ==
    ASSUME Core, NEW c \in Callers, NEW kind \in Kinds, Send(c, kind)
    PROVE  Core'
<1> SUFFICES ASSUME TypeOK, Known, Replacing, Listening, OnePlace PROVE Core'
  BY DEF Core
<1> DEFINE k == Inst(c)
           r == [pc |-> "render", for |-> c, kind |-> kind]
<1>1. /\ c \in Procs /\ c \notin Jobs /\ proc[c].pc = "send"
      /\ k \in Ids /\ k \in 1..built /\ runner[k].pc = "ready"
  BY HeldType, JobsAreProcs DEF Send, At, Holding
<1>2. /\ proc' \in [Procs -> ProcStates]
      /\ proc'[c] = [pc |-> "wait", inst |-> k]
      /\ \A q \in Procs \ {c} : proc'[q] = proc[q]
  BY <1>1, GotoType DEF Send, Holding, Inst
<1>3. /\ runner' \in [Ids -> Runners]
      /\ runner'[k] = r
      /\ \A i \in Ids \ {k} : runner'[i] = runner[i]
  <2>1. r \in Runners
    BY DEF Runners
  <2>2. runner' = [runner EXCEPT ![k] = r]
    BY DEF Send
  <2> QED
    BY <1>1, <2>1, <2>2 DEF TypeOK
<1>4. UNCHANGED <<instances, idle, dead, killed, closed, closer, built, lost>>
  BY DEF Send
<1>5. \A q \in Procs : Inst(q)' = Inst(q)
  BY <1>2 DEF Inst
<1>6. faults' \in 0..MaxFaults
  BY Bounds DEF Send, TypeOK
<1>7. TypeOK'
  BY <1>2, <1>3, <1>4, <1>6 DEF TypeOK
<1>8. Known'
  BY <1>1, <1>3, <1>4, <1>5, BuiltType DEF Known, Inst
<1>9. Replacing'
  BY <1>1, <1>2, <1>3, <1>4, JobsAreProcs DEF Replacing
<1>10. Listening'
  <2> SUFFICES ASSUME NEW i \in Ids, runner'[i].for # Nobody
               PROVE  /\ runner'[i].pc = "render"
                      /\ proc'[runner'[i].for] = [pc |-> "wait", inst |-> i]
    BY DEF Listening
  <2>1. CASE i = k
    BY <1>2, <1>3, <2>1
  <2>2. CASE i # k
    <3>1. runner'[i] = runner[i] /\ runner[i].for # c /\ runner[i].for \in Procs
      BY <1>1, <1>3, <2>2, Listener
    <3> QED
      BY <1>2, <3>1 DEF Listening
  <2> QED
    BY <2>1, <2>2
<1>11. OnePlace'
  BY <1>4, <1>5, PlacesKept
<1> QED
  BY <1>7, <1>8, <1>9, <1>10, <1>11 DEF Core

\* It answers, well or with a trap, and answers to nobody any more.
LEMMA AnswerCore ==
    ASSUME Core, NEW i \in Ids, Finish(i) \/ Trap(i)
    PROVE  Core'
<1> SUFFICES ASSUME TypeOK, Known, Replacing, Listening, OnePlace PROVE Core'
  BY DEF Core
<1> DEFINE c == runner[i].for
<1>1. runner[i].pc = "render" /\ Answered(i)
  BY DEF Finish, Trap
<1>2. PICK dest \in {"ready", "retire"} :
         /\ runner' = [runner EXCEPT ![i] = [runner[i] EXCEPT !.pc = dest, !.for = Nobody]]
  BY DEF Finish, Trap, TypeOK
<1>3. /\ runner' \in [Ids -> Runners]
      /\ runner'[i].pc = dest /\ runner'[i].for = Nobody /\ runner'[i].kind = runner[i].kind
      /\ \A k \in Ids \ {i} : runner'[k] = runner[k]
  <2> DEFINE r == [runner[i] EXCEPT !.pc = dest, !.for = Nobody]
  <2>1. runner[i] \in Runners
    BY RunnerType
  <2>2. r \in Runners /\ r.pc = dest /\ r.for = Nobody /\ r.kind = runner[i].kind
    BY <2>1 DEF Runners
  <2> QED
    BY <1>2, <2>1, <2>2 DEF TypeOK
<1>4. UNCHANGED <<instances, idle, dead, killed, closed, closer, built, lost>>
  BY DEF Finish, Trap
<1>5. /\ proc' \in [Procs -> ProcStates]
      /\ \A q \in Procs : q # c \/ c = Nobody => proc'[q] = proc[q]
      /\ c # Nobody => /\ c \in Callers
                       /\ proc'[c] = [pc |-> "answered", inst |-> i]
                       /\ proc[c] = [pc |-> "wait", inst |-> i]
  <2>1. CASE c = Nobody
    BY <1>1, <2>1 DEF Answered, TypeOK
  <2>2. CASE c # Nobody
    <3>1. c \in Callers /\ c \in Procs /\ proc[c] = [pc |-> "wait", inst |-> i]
      BY <2>2, Listener DEF Listening
    <3>2. Goto(c, "answered")
      BY <1>1, <2>2 DEF Answered
    <3>3. proc[c].pc \in Holding /\ "answered" \in Holding
      BY <3>1 DEF Holding
    <3> QED
      BY <2>2, <3>1, <3>2, <3>3, GotoType
  <2> QED
    BY <2>1, <2>2
<1>6. \A q \in Procs : Inst(q)' = Inst(q)
  BY <1>5 DEF Inst
<1>7. faults' \in 0..MaxFaults
  BY Bounds DEF Finish, Trap, TypeOK
<1>8. TypeOK'
  BY <1>3, <1>4, <1>5, <1>7 DEF TypeOK
<1>9. Known'
  BY <1>1, <1>3, <1>4, <1>6 DEF Known, Inst
<1>10. Replacing'
  <2>1. \A j \in Jobs : proc'[j] = proc[j] /\ runner[j[1]].pc = "replace" =>
                           runner'[j[1]].pc = "replace"
    BY <1>1, <1>3, JobsAreProcs
  <2>2. \A j \in Jobs : proc'[j] = proc[j]
    BY <1>5, JobsAreProcs
  <2> QED
    BY <1>4, <1>5, <2>1, <2>2, JobsAreProcs DEF Replacing
<1>11. Listening'
  <2> SUFFICES ASSUME NEW k \in Ids, runner'[k].for # Nobody
               PROVE  /\ runner'[k].pc = "render"
                      /\ proc'[runner'[k].for] = [pc |-> "wait", inst |-> k]
    BY DEF Listening
  <2>1. k # i /\ runner'[k] = runner[k]
    BY <1>3
  <2>2. runner[k].for # c \/ c = Nobody
    BY <1>5, <2>1, Listener
  <2> QED
    BY <1>5, <2>1, <2>2, Listener DEF Listening
<1>12. OnePlace'
  BY <1>4, <1>6, PlacesKept
<1> QED
  BY <1>8, <1>9, <1>10, <1>11, <1>12 DEF Core

\* After a trap the goroutine marks its instance and becomes the call of
\* replaceInstance that belongs to it.
LEMMA RetireCore ==
    ASSUME Core, NEW i \in Ids, Retire(i)
    PROVE  Core'
<1> SUFFICES ASSUME TypeOK, Known, Replacing, Listening, OnePlace PROVE Core'
  BY DEF Core
<1> DEFINE j == <<i, "run">>
<1>1. /\ j \in Jobs /\ j \in Procs /\ j \notin Callers /\ i <= built /\ i \in 1..built
      /\ proc[j] = Out
  <2>1. j \in Jobs /\ j \in Procs /\ j \notin Callers /\ j[1] = i /\ j[2] = "run"
    BY JobsAreProcs
  <2>2. runner[i].pc = "retire"
    BY DEF Retire
  <2>3. i <= built
    BY <2>2, BuiltType DEF Known, Ids
  <2>4. proc[j] = Out
    BY <2>1, <2>2 DEF Replacing
  <2> QED
    BY <2>1, <2>3, <2>4, BuiltType DEF Ids
<1>2. /\ proc' \in [Procs -> ProcStates]
      /\ proc'[j] = [pc |-> "check", inst |-> 0]
      /\ \A q \in Procs \ {j} : proc'[q] = proc[q]
  BY <1>1, GotoType DEF Retire, Out, Holding
<1>3. /\ runner' \in [Ids -> Runners]
      /\ runner'[i].pc = "replace" /\ runner'[i].for = runner[i].for
      /\ runner'[i].kind = runner[i].kind
      /\ \A k \in Ids \ {i} : runner'[k] = runner[k]
  <2>1. runner' = [runner EXCEPT ![i] = [runner[i] EXCEPT !.pc = "replace"]]
    BY DEF Retire
  <2>2. /\ [runner[i] EXCEPT !.pc = "replace"] \in Runners
        /\ [runner[i] EXCEPT !.pc = "replace"].for = runner[i].for
        /\ [runner[i] EXCEPT !.pc = "replace"].kind = runner[i].kind
    BY RunnerType DEF Runners
  <2> QED
    BY <2>1, <2>2, RunnerType DEF TypeOK, Runners
<1>4. /\ dead' = dead \cup {i}
      /\ UNCHANGED <<instances, idle, killed, closed, closer, built, lost, faults>>
  BY DEF Retire
<1>5. \A q \in Procs : Inst(q)' = Inst(q)
  BY <1>1, <1>2 DEF Inst, Out
<1>6. TypeOK'
  BY <1>1, <1>2, <1>3, <1>4 DEF TypeOK
<1>7. Known'
  <2>1. \A q \in Procs : Inst(q)' \in 0..built
    BY <1>5 DEF Known
  <2>2. \A k \in Ids : k > built =>
           runner'[k].pc = "none" /\ runner'[k].kind = "quick"
    BY <1>1, <1>3, BuiltType DEF Known, Ids
  <2>3. /\ \A n \in DOMAIN idle : idle[n] \in 1..built
        /\ closer.todo \subseteq 1..built /\ (~closed => closer.todo = {})
    BY DEF Known
  <2> QED
    BY <1>4, <2>1, <2>2, <2>3 DEF Known
<1>8. Replacing'
  <2>1. ASSUME NEW q \in Jobs
        PROVE  /\ proc'[q] # Out => q[1] \in dead'
               /\ proc'[q].pc \in {"out", "check", "build", "release", "push"}
               /\ proc'[q] # Out /\ q[2] = "run" => runner'[q[1]].pc = "replace"
    <3>1. CASE q = j
      BY <1>2, <1>3, <1>4, <3>1
    <3>2. CASE q # j
      BY <1>2, <1>3, <1>4, <3>2, JobsAreProcs DEF Replacing
    <3> QED
      BY <3>1, <3>2
  <2>2. \A c \in Callers : proc'[c].pc \notin {"check", "build"}
    BY <1>1, <1>2, JobsAreProcs DEF Replacing
  <2> QED
    BY <2>1, <2>2 DEF Replacing
<1>9. Listening'
  <2> SUFFICES ASSUME NEW k \in Ids, runner'[k].for # Nobody
               PROVE  /\ runner'[k].pc = "render"
                      /\ proc'[runner'[k].for] = [pc |-> "wait", inst |-> k]
    BY DEF Listening
  <2>1. runner[k].for # Nobody /\ runner[k].pc = "render" /\ runner[k].for \in Procs
        /\ runner[k].for # j
    BY <1>1, <1>3, Listener
  <2>2. k # i /\ runner'[k] = runner[k]
    BY <1>3, <2>1 DEF Retire
  <2> QED
    BY <1>2, <2>1, <2>2 DEF Listening
<1>10. OnePlace'
  BY <1>4, <1>5, PlacesKept
<1> QED
  BY <1>6, <1>7, <1>8, <1>9, <1>10 DEF Core

LEMMA ExitCore ==
    ASSUME Core, NEW i \in Ids, Exit(i)
    PROVE  Core'
<1> SUFFICES ASSUME TypeOK, Known, Replacing, Listening, OnePlace PROVE Core'
  BY DEF Core
<1>1. /\ runner' \in [Ids -> Runners]
      /\ runner'[i].pc = "exited" /\ runner'[i].for = runner[i].for
      /\ runner'[i].kind = runner[i].kind
      /\ \A k \in Ids \ {i} : runner'[k] = runner[k]
  <2>1. runner' = [runner EXCEPT ![i] = [runner[i] EXCEPT !.pc = "exited"]]
    BY DEF Exit
  <2>2. /\ [runner[i] EXCEPT !.pc = "exited"] \in Runners
        /\ [runner[i] EXCEPT !.pc = "exited"].for = runner[i].for
        /\ [runner[i] EXCEPT !.pc = "exited"].kind = runner[i].kind
    BY RunnerType DEF Runners
  <2> QED
    BY <2>1, <2>2, RunnerType DEF TypeOK, Runners
<1>2. /\ runner[i].pc = "ready"
      /\ UNCHANGED <<instances, idle, dead, killed, proc, closed, closer, built,
                     lost, faults>>
  BY DEF Exit
<1>3. TypeOK'
  BY <1>1, <1>2 DEF TypeOK
<1>4. Known'
  BY <1>1, <1>2 DEF Known, Inst
<1>5. Replacing'
  BY <1>1, <1>2, JobsAreProcs DEF Replacing
<1>6. Listening'
  BY <1>1, <1>2 DEF Listening
<1>7. OnePlace'
  BY <1>2, PlacesKept DEF Inst
<1> QED
  BY <1>3, <1>4, <1>5, <1>6, <1>7 DEF Core

-----------------------------------------------------------------------------
(* replaceInstance and Close *)

\* The new instance is in the hands of the call that built it.
LEMMA InstallCore ==
    ASSUME Core, NEW j \in Jobs, Install(j), built < MaxBuilt
    PROVE  Core'
<1> SUFFICES ASSUME TypeOK, Known, Replacing, Listening, OnePlace PROVE Core'
  BY DEF Core
<1> DEFINE b == built + 1
<1>0. j \in Procs /\ proc[j].pc = "build" /\ j[1] \in Ids
  BY JobsAreProcs DEF Install, At
<1>1. /\ j \in Procs /\ proc[j].pc = "build" /\ Inst(j) = 0 /\ j[1] \in Ids
      /\ b \in Ids /\ b \notin 1..built /\ built \in Nat /\ b \in Nat /\ b # 0
  <2>1. Inst(j) = 0
    BY <1>0, ProcType DEF Inst, Holding
  <2>2. b \in Ids /\ b \notin 1..built /\ built \in Nat /\ b \in Nat /\ b # 0
    BY BuiltType, Bounds DEF Ids
  <2> QED
    BY <1>0, <2>1, <2>2
<1>2. /\ instances' = (instances \ {j[1]}) \cup {b} /\ built' = b
      /\ UNCHANGED <<idle, dead, killed, closed, closer, lost, faults>>
  BY DEF Install
<1>3. /\ proc' \in [Procs -> ProcStates]
      /\ proc'[j] = [pc |-> "release", inst |-> b]
      /\ \A q \in Procs \ {j} : proc'[q] = proc[q]
  BY <1>1, <1>2 DEF Install, TypeOK, ProcStates, Holding
<1>4. /\ runner' \in [Ids -> Runners]
      /\ runner'[b] = Ready
      /\ \A i \in Ids \ {b} : runner'[i] = runner[i]
  <2>1. Ready \in Runners
    BY DEF Ready, Runners, Kinds
  <2> QED
    BY <1>1, <1>2, <2>1 DEF Install, TypeOK
<1>5. \A q \in Procs : Inst(q)' = IF q = j THEN b ELSE Inst(q)
  BY <1>3 DEF Inst
<1>6. 1..built' = 1..built \cup {b} /\ built' \in Size..MaxBuilt
  BY <1>1, <1>2, BuiltType, Bounds
<1>7. TypeOK'
  BY <1>2, <1>3, <1>4, <1>6 DEF TypeOK
<1>8. Known'
  <2>1. \A q \in Procs : Inst(q)' \in 0..built'
    BY <1>1, <1>2, <1>5, <1>6 DEF Known
  <2>2. \A i \in Ids : i > built' => runner'[i].pc = "none" /\ runner'[i].kind = "quick"
    BY <1>1, <1>2, <1>4 DEF Known, Ids
  <2> QED
    BY <1>2, <1>6, <2>1, <2>2 DEF Known, Inst
<1>9. Replacing'
  <2>1. ASSUME NEW q \in Jobs
        PROVE  /\ proc'[q] # Out => q[1] \in dead'
               /\ proc'[q].pc \in {"out", "check", "build", "release", "push"}
               /\ proc'[q] # Out /\ q[2] = "run" => runner'[q[1]].pc = "replace"
    <3>1. proc'[q] # Out => proc[q] # Out
      BY <1>1, <1>3, ProcType, JobsAreProcs
    <3>2. proc[q] # Out => q[1] \in dead /\ q[1] \in Ids \ {b}
      BY <1>1, JobsAreProcs DEF Replacing, TypeOK
    <3> QED
      BY <1>2, <1>3, <1>4, <3>1, <3>2, JobsAreProcs DEF Replacing
  <2>2. \A c \in Callers : proc'[c].pc \notin {"check", "build"}
    BY <1>3, JobsAreProcs DEF Replacing
  <2> QED
    BY <2>1, <2>2 DEF Replacing
<1>10. Listening'
  <2> SUFFICES ASSUME NEW i \in Ids, runner'[i].for # Nobody
               PROVE  /\ runner'[i].pc = "render"
                      /\ proc'[runner'[i].for] = [pc |-> "wait", inst |-> i]
    BY DEF Listening
  <2>1. i # b /\ runner'[i] = runner[i]
    BY <1>1, <1>4 DEF Ready
  <2>2. runner[i].for \in Callers
    BY <2>1, Listener
  <2> QED
    BY <1>3, <2>1, <2>2, JobsAreProcs DEF Listening
<1>11. OnePlace'
  <2>1. \A q \in Procs : Inst(q) # b
    BY <1>1 DEF Known
  <2>2. \A n \in DOMAIN idle : idle[n] # b
    BY <1>1 DEF Known
  <2>3. \A q, r \in Procs : Inst(q)' = Inst(r)' /\ Inst(q)' # 0 => q = r
    BY <1>1, <1>5, <2>1 DEF OnePlace
  <2>4. \A q \in Procs, n \in DOMAIN idle : Inst(q)' # idle[n]
    BY <1>5, <2>2 DEF OnePlace
  <2>5. ASSUME NEW i \in instances' \ dead, ~closed
        PROVE  \/ \E q \in Procs : Inst(q)' = i
               \/ \E n \in DOMAIN idle : idle[n] = i
    <3>1. CASE i = b
      BY <1>1, <1>5, <3>1
    <3>2. CASE i # b
      <4>1. i \in instances \ dead /\ i # 0
        BY <1>1, <1>2, <2>5, <3>2 DEF TypeOK
      <4> QED
        BY <1>1, <1>5, <2>5, <4>1 DEF OnePlace
    <3> QED
      BY <3>1, <3>2
  <2> QED
    BY <1>2, <2>3, <2>4, <2>5 DEF OnePlace, Inst
<1> QED
  BY <1>7, <1>8, <1>9, <1>10, <1>11 DEF Core

\* Close kills what does not stop by itself.
LEMMA CloseKillCore ==
    ASSUME Core, NEW i \in Ids, CloseKill(i)
    PROVE  Core'
<1> SUFFICES ASSUME TypeOK, Known, Replacing, Listening, OnePlace PROVE Core'
  BY DEF Core
<1> DEFINE job == <<i, "kill">>
<1>1. /\ i \in 1..built /\ i \notin dead /\ Kill(i, proc)
      /\ job \in Jobs /\ job \in Procs /\ job \notin Callers
  BY JobsAreProcs DEF CloseKill, Known
<1>2. /\ proc' \in [Procs -> ProcStates]
      /\ dead' = dead \cup {i} /\ killed' \subseteq dead' /\ dead' \subseteq 1..built
      /\ \A q \in Procs \ {job} : proc'[q] = proc[q]
      /\ proc[job] = Out
      /\ proc'[job] = [pc |-> "check", inst |-> 0]
  <2>1. proc \in [Procs -> ProcStates]
    BY DEF TypeOK
  <2> QED
    BY <1>1, <2>1, KillType
<1>3. /\ closer' = [pc |-> "kill", todo |-> closer.todo \ {i}]
      /\ UNCHANGED <<instances, idle, runner, closed, built, lost, faults>>
  BY DEF CloseKill
<1>4. \A q \in Procs : Inst(q)' = Inst(q)
  BY <1>2 DEF Inst, Out
<1>5. TypeOK'
  BY <1>2, <1>3 DEF TypeOK
<1>6. Known'
  BY <1>3, <1>4 DEF Known, Inst
<1>7. Replacing'
  <2>1. ASSUME NEW q \in Jobs
        PROVE  /\ proc'[q] # Out => q[1] \in dead'
               /\ proc'[q].pc \in {"out", "check", "build", "release", "push"}
               /\ proc'[q] # Out /\ q[2] = "run" => runner'[q[1]].pc = "replace"
    <3>1. CASE q = job
      BY <1>2, <3>1
    <3>2. CASE q # job
      BY <1>2, <1>3, <3>2, JobsAreProcs DEF Replacing
    <3> QED
      BY <3>1, <3>2
  <2>2. \A c \in Callers : proc'[c].pc \notin {"check", "build"}
    BY <1>1, <1>2, JobsAreProcs DEF Replacing
  <2> QED
    BY <2>1, <2>2 DEF Replacing
<1>8. Listening'
  <2> SUFFICES ASSUME NEW k \in Ids, runner[k].for # Nobody
               PROVE  proc'[runner[k].for] = proc[runner[k].for]
    BY <1>3 DEF Listening
  <2>1. runner[k].for \in Callers /\ runner[k].for \in Procs
    BY Listener
  <2>2. runner[k].for # job
    BY <1>1, <2>1
  <2> QED
    BY <1>2, <2>1, <2>2
<1>9. OnePlace'
  BY <1>2, <1>3, <1>4, PlacesKept
<1> QED
  BY <1>5, <1>6, <1>7, <1>8, <1>9 DEF Core

LEMMA CloseCore ==
    ASSUME Core, Close \/ \E i \in Ids : CloseNext(i)
    PROVE  Core'
<1> SUFFICES ASSUME TypeOK, Known, Replacing, Listening, OnePlace PROVE Core'
  BY DEF Core
<1>1. /\ UNCHANGED <<instances, idle, dead, killed, runner, proc, built, lost, faults>>
      /\ closed' /\ closed' \in BOOLEAN
      /\ closer' \in [pc: {"none", "wait", "kill"}, todo: SUBSET Ids]
      /\ closer'.todo \subseteq closer.todo \cup instances
  <2>1. instances \subseteq Ids /\ closer.todo \subseteq Ids
    BY BuiltType DEF TypeOK
  <2>2. CASE Close
    BY <2>1, <2>2 DEF Close, TypeOK
  <2>3. ASSUME NEW i \in Ids, CloseNext(i)
        PROVE  /\ UNCHANGED <<instances, idle, dead, killed, runner, proc, closed,
                               built, lost, faults>>
               /\ closed /\ closed \in BOOLEAN
               /\ closer' \in [pc: {"none", "wait", "kill"}, todo: SUBSET Ids]
               /\ closer'.todo \subseteq closer.todo
    BY <2>3 DEF CloseNext, TypeOK, Known
  <2> QED
    BY <2>2, <2>3
<1>2. TypeOK'
  BY <1>1 DEF TypeOK
<1>3. Known'
  BY <1>1 DEF Known, TypeOK, Inst
<1>4. Replacing' /\ Listening'
  BY <1>1 DEF Replacing, Listening
<1>5. OnePlace'
  BY <1>1, PlacesKept DEF Inst
<1> QED
  BY <1>2, <1>3, <1>4, <1>5 DEF Core

-----------------------------------------------------------------------------
(* Slots and engines *)

LEMMA SpentFinite ==
    ASSUME TypeOK
    PROVE  /\ IsFiniteSet(Spent) /\ Cardinality(Spent) \in Nat
           /\ IsFiniteSet(instances) /\ Cardinality(instances) \in Nat
           /\ IsFiniteSet(1..built) /\ Cardinality(1..built) = built
<1>1. IsFiniteSet(1..built) /\ Cardinality(1..built) = built
  BY BuiltType, FS_Interval
<1>2. Spent \subseteq 1..built
  BY DEF Spent
<1>3. instances \subseteq 1..built
  BY DEF TypeOK
<1>4. IsFiniteSet(Spent) /\ IsFiniteSet(instances)
  BY <1>1, <1>2, <1>3, FS_Subset
<1> QED
  BY <1>1, <1>4, FS_CardinalityType

\* What keeps CapacityKept and Afforded when no slot is filled or given up: an
\* instance that dies has somebody who replaces it, and becomes suspect by a
\* fault of its own.
LEMMA Ledger ==
    ASSUME IInv, TypeOK', UNCHANGED <<instances, built, lost>>,
           closed => closed', dead \subseteq dead',
           \A j \in Jobs : proc[j].pc \in {"check", "build"} /\ j[1] \in instances =>
               closed' \/ proc'[j].pc \in {"check", "build"},
           \A j \in Jobs : proc'[j].pc = "build" =>
               proc[j].pc = "build" \/ (~closed /\ proc[j].pc = "check"),
           \A i \in dead' \ dead :
               closed' \/ \E j \in Jobs : j[1] = i /\ proc'[j].pc \in {"check", "build"},
           NEW x, faults' \in {faults, faults + 1},
           \A k \in 1..built : Suspect(k)' =>
               Suspect(k) \/ closed' \/ (k = x /\ faults' = faults + 1)
    PROVE  CapacityKept' /\ Afforded'
<1> SUFFICES ASSUME TypeOK, Replacing, CapacityKept, Afforded
             PROVE  CapacityKept' /\ Afforded'
  BY DEF IInv
<1>1. CapacityKept'
  <2>1. Cardinality(instances') + lost' = Size
    BY DEF CapacityKept
  <2>2. ASSUME NEW i \in instances' \cap dead', ~closed'
        PROVE  \E j \in Jobs : j[1] = i /\ proc'[j].pc \in {"check", "build"}
    <3>1. CASE i \in dead
      BY <2>2, <3>1 DEF CapacityKept
    <3>2. CASE i \notin dead
      BY <2>2, <3>2
    <3> QED
      BY <3>1, <3>2
  <2> QED
    BY <2>1, <2>2 DEF CapacityKept
<1>2. Spent' \subseteq Spent \cup (IF faults' = faults + 1 THEN {x} ELSE {})
  <2> SUFFICES ASSUME NEW k \in Spent'
               PROVE  k \in Spent \/ (k = x /\ faults' = faults + 1)
    OBVIOUS
  <2>1. k \in 1..built
    BY DEF Spent
  <2>2. CASE k \notin instances'
    BY <2>1, <2>2 DEF Spent
  <2>3. CASE Building(k)'
    <3>1. PICK j \in Jobs : j[1] = k /\ proc'[j].pc = "build"
      BY <2>3 DEF Building
    <3>2. CASE proc[j].pc = "build"
      BY <2>1, <3>1, <3>2 DEF Spent, Building
    <3>3. CASE ~closed /\ proc[j].pc = "check"
      <4>1. k \in dead
        BY <3>1, <3>3 DEF Replacing, Out
      <4> QED
        BY <2>1, <3>3, <4>1 DEF Spent, Suspect
    <3> QED
      BY <3>1, <3>2, <3>3
  <2>4. CASE ~closed' /\ Suspect(k)'
    <3>1. Suspect(k) \/ (k = x /\ faults' = faults + 1)
      BY <2>1, <2>4
    <3> QED
      BY <2>1, <2>4, <3>1 DEF Spent
  <2> QED
    BY <2>2, <2>3, <2>4 DEF Spent
<1>3. /\ IsFiniteSet(Spent) /\ Cardinality(Spent) \in Nat
      /\ IsFiniteSet(Spent') /\ Cardinality(Spent') \in Nat
      /\ faults \in Nat
  <2>1. IsFiniteSet(Spent') /\ Cardinality(Spent') \in Nat
    <3>1. IsFiniteSet(1..built)
      BY SpentFinite
    <3>2. Spent' \subseteq 1..built
      BY DEF Spent
    <3> QED
      BY <3>1, <3>2, FS_Subset, FS_CardinalityType
  <2> QED
    BY <2>1, SpentFinite, Bounds DEF TypeOK
<1>4. Cardinality(Spent') <= faults'
  <2>1. CASE faults' = faults
    <3>1. Spent' \in SUBSET Spent
      BY <1>2, <1>3, <2>1
    <3>2. Cardinality(Spent') <= Cardinality(Spent)
      BY <1>3, <3>1, FS_Subset
    <3> QED
      BY <1>3, <2>1, <3>2 DEF Afforded
  <2>2. CASE faults' = faults + 1
    <3>1. Spent' \in SUBSET (Spent \cup {x})
      BY <1>2, <2>2
    <3>2. IsFiniteSet(Spent \cup {x}) /\ Cardinality(Spent \cup {x}) <= Cardinality(Spent) + 1
      <4>1. /\ IsFiniteSet(Spent \cup {x})
            /\ Cardinality(Spent \cup {x}) =
                  IF x \in Spent THEN Cardinality(Spent) ELSE Cardinality(Spent) + 1
        BY <1>3, FS_AddElement, Zenon
      <4> QED
        BY <1>3, <4>1
    <3>3. Cardinality(Spent') <= Cardinality(Spent \cup {x}) /\ Cardinality(Spent \cup {x}) \in Nat
      BY <3>1, <3>2, FS_Subset, FS_CardinalityType
    <3> QED
      BY <1>3, <2>2, <3>2, <3>3 DEF Afforded
  <2> QED
    BY <2>1, <2>2
<1> QED
  BY <1>1, <1>4 DEF Afforded

\* There is room for the engine that is being built.
LEMMA RoomToBuild ==
    ASSUME IInv, NEW j \in Jobs, Install(j)
    PROVE  built < MaxBuilt
<1> SUFFICES ASSUME TypeOK, CapacityKept, Afforded PROVE built < MaxBuilt
  BY DEF IInv
<1> DEFINE Gone == (1..built) \ instances
<1>1. j[1] \in instances /\ Building(j[1])
  BY DEF Install, At, Building
<1>2. Gone \cup {j[1]} \subseteq Spent /\ j[1] \notin Gone
  BY <1>1 DEF Spent, TypeOK
<1>3. IsFiniteSet(Gone) /\ Cardinality(Gone) = built - Cardinality(instances)
  <2>1. (1..built) \cap instances = instances
    BY DEF TypeOK
  <2>2. IsFiniteSet(Gone) /\ Cardinality(Gone) = Cardinality(1..built) - Cardinality((1..built) \cap instances)
    BY SpentFinite, FS_Difference
  <2> QED
    BY <2>1, <2>2, SpentFinite
<1>4. Cardinality(Gone \cup {j[1]}) = built - Cardinality(instances) + 1
  BY <1>2, <1>3, FS_AddElement
<1>5. Cardinality(Gone \cup {j[1]}) <= Cardinality(Spent)
  BY <1>2, SpentFinite, FS_Subset
<1>6. Cardinality(instances) + lost = Size /\ Cardinality(Spent) <= faults
  BY DEF CapacityKept, Afforded
<1>7. lost \in Nat /\ faults <= MaxFaults /\ faults \in Nat
  BY Bounds DEF TypeOK
<1> QED
  BY <1>4, <1>5, <1>6, <1>7, SpentFinite, BuiltType, Bounds

-----------------------------------------------------------------------------
(* The steps *)

\* A step that neither kills, nor builds, nor meets a fault.
LEMMA Quiet ==
    ASSUME IInv, Core', UNCHANGED <<instances, built, lost, dead, faults>>,
           closed => closed',
           \A j \in Jobs : proc[j].pc \in {"check", "build"} /\ j[1] \in instances =>
               closed' \/ proc'[j].pc \in {"check", "build"},
           \A j \in Jobs : proc'[j].pc = "build" =>
               proc[j].pc = "build" \/ (~closed /\ proc[j].pc = "check"),
           \A k \in Ids : /\ runner'[k].kind = "slow" => runner[k].kind = "slow"
                          /\ runner'[k].pc = "retire" => runner[k].pc = "retire"
    PROVE  IInv'
<1>1. \A k \in 1..built : Suspect(k)' => Suspect(k)
  BY BuiltType DEF Suspect, IInv
<1>2. CapacityKept' /\ Afforded'
  BY <1>1, Ledger DEF Core
<1> QED
  BY <1>2 DEF IInv, Core

LEMMA InvariantIsCore == IInv => Core
  BY DEF IInv, Core

\* Return, seen by the ledger.
LEMMA ReturnQuiet ==
    ASSUME IInv, Core', NEW p \in Procs, Return(p),
           UNCHANGED <<instances, built, lost, dead, faults, closed>>,
           p \in Jobs => \/ proc[p].pc \notin {"check", "build"}
                         \/ closed \/ p[1] \notin instances
    PROVE  IInv'
<1>1. /\ proc'[p] = Out
      /\ \A q \in Procs \ {p} : proc'[q] = proc[q]
      /\ \A i \in Ids : /\ runner'[i].kind = runner[i].kind
                        /\ \/ runner'[i].pc = runner[i].pc
                           \/ runner'[i].pc = "exited"
  BY ReturnType DEF IInv
<1>2. ASSUME NEW j \in Jobs
      PROVE  /\ proc[j].pc \in {"check", "build"} /\ j[1] \in instances =>
                   closed' \/ proc'[j].pc \in {"check", "build"}
             /\ proc'[j].pc = "build" => proc[j].pc = "build"
  BY <1>1, JobsAreProcs DEF Out
<1> QED
  BY <1>1, <1>2, Quiet

\* What callers do.
LEMMA CallerStep ==
    ASSUME IInv, NEW c \in Callers, CallerNext(c)
    PROVE  IInv'
<1>t. Core /\ TypeOK /\ Known /\ Replacing /\ Listening
  BY DEF IInv, Core
<1>c. c \in Procs /\ c \notin Jobs /\ \A j \in Jobs : j \in Procs /\ j # c
  BY JobsAreProcs
\* A move of the caller alone,
<1>1. ASSUME NEW dest, Goto(c, dest), proc[c].pc # "wait",
             \/ proc[c].pc \in Holding /\ dest \in Holding
             \/ proc[c].pc \notin Holding /\ dest \in {"out", "acquire"},
             UNCHANGED <<instances, idle, dead, killed, runner, closed, closer,
                         built, lost, faults>>
      PROVE  IInv'
  <2>1. dest \notin {"check", "build"}
    BY <1>1 DEF Holding
  <2>2. Core'
    BY <1>1, <1>t, <1>c, <2>1, MoveCore
  <2>3. \A j \in Jobs : proc'[j] = proc[j]
    BY <1>1, <1>c DEF Goto, TypeOK
  <2> QED
    BY <1>1, <2>2, <2>3, Quiet
\* or its return without an instance.
<1>2. ASSUME At(c, "acquire"), Return(c),
             UNCHANGED <<instances, idle, dead, killed, closed, closer, built, lost,
                         faults>>
      PROVE  IInv'
  <2>1. Inst(c) = 0
    BY <1>2, <1>t, <1>c, ProcType DEF At, Inst, Holding
  <2>2. Core'
    BY <1>2, <1>t, <1>c, <2>1, ReturnCore DEF At, TypeOK
  <2> QED
    BY <1>2, <1>c, <2>2, ReturnQuiet
<1>3. CASE Render(c)
  <2>1. Goto(c, "acquire") /\ proc[c].pc = "out"
    BY <1>3 DEF Render, At
  <2>2. UNCHANGED <<instances, idle, dead, killed, runner, closed, closer,
                    built, lost, faults>>
    BY <1>3 DEF Render
  <2> QED
    BY <1>1, <2>1, <2>2 DEF Holding
<1>4. CASE Ask(c)
  BY <1>1, <1>4 DEF Ask, At, Holding
<1>5. CASE Receive(c)
  BY <1>1, <1>5 DEF Receive, At, Holding
<1>6. CASE GiveUp(c)
  <2>1. CASE At(c, "acquire") /\ Return(c)
    BY <1>2, <1>6, <2>1 DEF GiveUp
  <2>2. CASE At(c, "send") /\ Goto(c, "release") /\ UNCHANGED runner
    BY <1>1, <1>6, <2>2 DEF GiveUp, At, Holding
  <2>3. CASE proc[c].pc \in {"wait", "answered"} /\ Goto(c, "release") /\ Unheard(c)
    <3>1. UNCHANGED <<instances, idle, dead, killed, closed, closer, built, lost, faults>>
      BY <1>6 DEF GiveUp
    <3>2. Core'
      BY <1>t, <2>3, <3>1, LeaveCore
    <3>3. \A j \in Jobs : proc'[j] = proc[j]
      BY <1>t, <1>c, <2>3 DEF Goto, TypeOK
    <3>4. Inst(c) \in Ids
      BY <1>t, <1>c, <2>3, HeldType DEF Holding
    <3>5. \A i \in Ids : runner'[i].pc = runner[i].pc /\ runner'[i].kind = runner[i].kind
      BY <1>t, <2>3, <3>4, UnheardType
    <3> QED
      BY <3>1, <3>2, <3>3, <3>5, Quiet
  <2> QED
    BY <1>6, <2>1, <2>2, <2>3 DEF GiveUp
<1>7. CASE Refused(c)
  <2>1. CASE At(c, "acquire") /\ Return(c)
    BY <1>2, <1>7, <2>1 DEF Refused
  <2>2. CASE proc[c].pc \in {"ask", "send"} /\ Goto(c, "release") /\ UNCHANGED runner
    BY <1>1, <1>7, <2>2 DEF Refused, Holding
  <2> QED
    BY <1>7, <2>1, <2>2 DEF Refused
<1>8. CASE Acquire(c)
  <2>1. Core'
    BY <1>t, <1>8, AcquireCore
  <2>2. \A j \in Jobs : proc'[j] = proc[j]
    BY <1>t, <1>c, <1>8 DEF Acquire, TypeOK
  <2>3. UNCHANGED <<instances, built, lost, dead, faults, closed, runner>>
    BY <1>8 DEF Acquire
  <2> QED
    BY <2>1, <2>2, <2>3, Quiet
<1>9. ASSUME NEW kind \in Kinds, Send(c, kind)
      PROVE  IInv'
  <2>1. Core'
    BY <1>t, <1>9, SendCore
  <2>2. \A j \in Jobs : proc'[j] = proc[j]
    BY <1>t, <1>c, <1>9 DEF Send, Goto, TypeOK
  <2>3. UNCHANGED <<instances, built, lost, dead, closed>>
    BY <1>9 DEF Send
  <2>4. Inst(c) \in Ids
    BY <1>t, <1>c, <1>9, HeldType DEF Send, At, Holding
  <2>5. /\ runner'[Inst(c)].kind = kind /\ runner'[Inst(c)].pc = "render"
        /\ \A i \in Ids \ {Inst(c)} : runner'[i] = runner[i]
    BY <1>t, <1>9, <2>4 DEF Send, TypeOK
  <2>6. CASE kind = "slow"
    <3>1. faults' = faults + 1
      BY <1>9, <2>6 DEF Send
    <3>2. \A k \in 1..built : Suspect(k)' => Suspect(k) \/ k = Inst(c)
      BY <1>t, <2>3, <2>5, BuiltType DEF Suspect
    <3>3. CapacityKept' /\ Afforded'
      BY <2>1, <2>2, <2>3, <3>1, <3>2, Ledger DEF Core
    <3> QED
      BY <2>1, <3>3 DEF IInv, Core
  <2>7. CASE kind # "slow"
    <3>1. faults' = faults
      BY <1>9, <2>7 DEF Send
    <3>2. \A k \in Ids : /\ runner'[k].kind = "slow" => runner[k].kind = "slow"
                         /\ runner'[k].pc = "retire" => runner[k].pc = "retire"
      BY <2>4, <2>5, <2>7
    <3> QED
      BY <2>1, <2>2, <2>3, <3>1, <3>2, Quiet
  <2> QED
    BY <2>6, <2>7
<1>10. CASE Timeout(c)
  <2> DEFINE k == Inst(c)
             job == <<k, "kill">>
             procs == [proc EXCEPT ![c].pc = "release"]
  <2>1. Core'
    BY <1>t, <1>10, TimeoutCore
  <2>2. UNCHANGED <<instances, idle, closed, closer, built, lost, faults>>
    BY <1>10 DEF Timeout
  <2>3. /\ k \in Ids /\ k \in 1..built /\ runner[k].kind = "slow"
        /\ Kill(k, procs)
    BY <1>t, <1>c, <1>10, HeldType DEF Timeout, Holding
  <2>4. job \in Jobs /\ job \in Procs
    BY <2>3, JobsAreProcs
  <2>5. \A j \in Jobs : procs[j] = proc[j]
    BY <1>t, <1>c DEF TypeOK
  <2>6. \/ /\ proc' = procs /\ dead' = dead
        \/ /\ dead' = dead \cup {k}
           /\ proc' = [procs EXCEPT ![job] = [procs[job] EXCEPT !.pc = "check"]]
    BY <2>3 DEF Kill
  <2>7. /\ \A j \in Jobs \ {job} : proc'[j] = proc[j]
        /\ \/ proc'[job] = proc[job] /\ dead' = dead
           \/ proc'[job].pc = "check" /\ dead' = dead \cup {k}
    <3>1. procs[job] \in ProcStates /\ procs[job].pc = procs[job].pc
      BY <1>t, <2>4, <2>5 DEF TypeOK
    <3>2. [procs[job] EXCEPT !.pc = "check"].pc = "check"
      BY <3>1 DEF ProcStates
    <3>3. DOMAIN procs = Procs /\ Jobs \subseteq Procs
      BY <1>t, <1>c DEF TypeOK
    <3> HIDE DEF procs
    <3>4. CASE proc' = procs /\ dead' = dead
      BY <2>4, <2>5, <3>4
    <3>5. CASE /\ dead' = dead \cup {k}
               /\ proc' = [procs EXCEPT ![job] = [procs[job] EXCEPT !.pc = "check"]]
      BY <2>4, <2>5, <3>2, <3>3, <3>5
    <3> QED
      BY <2>6, <3>4, <3>5
  <2>8. \A i \in Ids : runner'[i].pc = runner[i].pc /\ runner'[i].kind = runner[i].kind
    BY <1>t, <1>10, <2>3, UnheardType DEF Timeout
  <2>9. \A i \in 1..built : Suspect(i)' => Suspect(i)
    BY <1>t, <2>3, <2>7, <2>8, BuiltType DEF Suspect
  <2>10. ASSUME NEW i \in dead' \ dead
         PROVE  \E j \in Jobs : j[1] = i /\ proc'[j].pc \in {"check", "build"}
    BY <2>4, <2>7, <2>10
  <2>11. CapacityKept' /\ Afforded'
    BY <2>1, <2>2, <2>7, <2>9, <2>10, Ledger DEF Core
  <2> QED
    BY <2>1, <2>11 DEF IInv, Core
<1> QED
  BY <1>3, <1>4, <1>5, <1>6, <1>7, <1>8, <1>9, <1>10 DEF CallerNext

\* Giving back, by callers and by replaceInstance.
LEMMA GiveBackStep ==
    ASSUME IInv, NEW p \in Procs, Release(p) \/ Push(p)
    PROVE  IInv'
<1>t. Core /\ TypeOK /\ Known /\ Replacing /\ Listening
  BY DEF IInv, Core
<1>1. CASE Release(p)
  <2>1. proc[p].pc = "release"
    BY <1>1 DEF Release, At
  <2>2. UNCHANGED <<instances, idle, dead, killed, closed, closer, built, lost, faults>>
    BY <1>1 DEF Release
  <2>3. CASE (Inst(p) \in dead \/ closed) /\ Return(p)
    <3>1. Core'
      BY <1>t, <2>1, <2>2, <2>3, ReturnCore DEF TypeOK
    <3> QED
      BY <2>1, <2>2, <2>3, <3>1, ReturnQuiet
  <2>4. CASE Goto(p, "push") /\ UNCHANGED runner
    <3>1. Core'
      BY <1>t, <2>1, <2>2, <2>4, MoveCore DEF Holding
    <3>2. \A j \in Jobs : \/ proc'[j] = proc[j]
                          \/ proc[j].pc = "release" /\ proc'[j].pc = "push"
      <4>1. proc[p].pc \in Holding /\ "push" \in Holding
        BY <2>1 DEF Holding
      <4>2. proc'[p] = [pc |-> "push", inst |-> proc[p].inst]
        BY <1>t, <2>4, <4>1, GotoType
      <4>3. \A q \in Procs \ {p} : proc'[q] = proc[q]
        BY <1>t, <2>4, <4>1, GotoType
      <4> QED
        BY <2>1, <4>2, <4>3, JobsAreProcs
    <3> QED
      BY <2>2, <2>4, <3>1, <3>2, Quiet
  <2> QED
    BY <1>1, <2>3, <2>4 DEF Release
<1>2. CASE Push(p)
  <2>1. Core'
    BY <1>t, <1>2, PushCore
  <2> QED
    BY <1>2, <2>1, ReturnQuiet DEF Push, At
<1> QED
  BY <1>1, <1>2

\* replaceInstance: the check, and a slot that was filled meanwhile.
LEMMA CheckStep ==
    ASSUME IInv, NEW j \in Jobs, Check(j) \/ Discard(j)
    PROVE  IInv'
<1>t. Core /\ TypeOK /\ Known /\ Replacing /\ Listening
  BY DEF IInv, Core
<1>1. j \in Procs /\ j \notin Callers
  BY JobsAreProcs
<1>2. proc[j].pc \in {"check", "build"} /\ Inst(j) = 0
  <2>1. proc[j].pc \in {"check", "build"}
    BY DEF Check, Discard, At
  <2> QED
    BY <1>t, <1>1, <2>1, ProcType DEF Inst, Holding
<1>3. UNCHANGED <<instances, idle, dead, killed, closed, closer, built, lost, faults>>
  BY DEF Check, Discard
<1>4. CASE Return(j) /\ (closed \/ j[1] \notin instances)
  <2>1. Core'
    BY <1>t, <1>1, <1>2, <1>3, <1>4, ReturnCore DEF TypeOK
  <2> QED
    BY <1>1, <1>3, <1>4, <2>1, ReturnQuiet
<1>5. CASE At(j, "check") /\ ~closed /\ Goto(j, "build") /\ UNCHANGED runner
  <2>1. proc[j].pc = "check"
    BY <1>5 DEF At
  <2>2. Core'
    BY <1>t, <1>1, <1>3, <1>5, <2>1, MoveCore DEF Holding
  <2>3. /\ proc'[j].pc = "build"
        /\ \A q \in Procs \ {j} : proc'[q] = proc[q]
    <3>1. proc[j].pc \notin Holding
      BY <2>1 DEF Holding
    <3>2. proc'[j] = [pc |-> "build", inst |-> proc[j].inst]
      BY <1>t, <1>1, <1>5, <3>1, GotoType
    <3> QED
      BY <1>t, <1>1, <1>5, <3>1, <3>2, GotoType
  <2>4. ASSUME NEW q \in Jobs
        PROVE  /\ proc[q].pc \in {"check", "build"} => proc'[q].pc \in {"check", "build"}
               /\ proc'[q].pc = "build" =>
                    proc[q].pc = "build" \/ (~closed /\ proc[q].pc = "check")
    BY <1>5, <2>1, <2>3, JobsAreProcs
  <2> QED
    BY <1>3, <1>5, <2>2, <2>4, Quiet
<1> QED
  BY <1>4, <1>5 DEF Check, Discard

\* A slot that is given up.
LEMMA ShrinkStep ==
    ASSUME IInv, NEW j \in Jobs, Shrink(j)
    PROVE  IInv'
<1>t. Core /\ TypeOK /\ Known /\ Replacing /\ Listening /\ CapacityKept /\ Afforded
  BY DEF IInv, Core
<1>1. /\ j \in Procs /\ j \notin Callers /\ proc[j].pc = "build" /\ j[1] \in instances
      /\ instances' = instances \ {j[1]} /\ lost' = lost + 1 /\ Return(j)
      /\ UNCHANGED <<idle, dead, killed, closed, closer, built, faults>>
  BY JobsAreProcs DEF Shrink, At
<1>2. Inst(j) = 0
  BY <1>t, <1>1, ProcType DEF Inst, Holding
<1>3. /\ Cardinality(instances') = Cardinality(instances) - 1
      /\ Cardinality(instances') + lost' = Size
      /\ lost' \in 0..Size
  <2>1. IsFiniteSet(instances') /\ Cardinality(instances') = Cardinality(instances) - 1
    BY <1>t, <1>1, SpentFinite, FS_RemoveElement
  <2>2. Cardinality(instances') \in Nat
    BY <2>1, FS_CardinalityType
  <2> QED
    BY <1>t, <1>1, <2>1, <2>2, SpentFinite, Bounds DEF CapacityKept, TypeOK
<1>4. Core'
  BY <1>t, <1>1, <1>2, <1>3, ReturnCore
<1>5. /\ proc'[j] = Out
      /\ \A q \in Procs \ {j} : proc'[q] = proc[q]
      /\ \A i \in Ids : /\ runner'[i].kind = runner[i].kind
                        /\ \/ runner'[i].pc = runner[i].pc
                           \/ runner'[i].pc = "exited"
  BY <1>t, <1>1, ReturnType
<1>6. CapacityKept'
  <2>1. ASSUME NEW i \in instances' \cap dead', ~closed'
        PROVE  \E q \in Jobs : q[1] = i /\ proc'[q].pc \in {"check", "build"}
    <3>1. PICK q \in Jobs : q[1] = i /\ proc[q].pc \in {"check", "build"}
      BY <1>t, <1>1, <2>1 DEF CapacityKept
    <3>2. q # j /\ proc'[q] = proc[q]
      BY <1>1, <1>5, <2>1, <3>1, JobsAreProcs
    <3> QED
      BY <3>1, <3>2
  <2> QED
    BY <1>3, <2>1 DEF CapacityKept
<1>7. Spent' \subseteq Spent
  <2> SUFFICES ASSUME NEW k \in Spent' PROVE k \in Spent
    OBVIOUS
  <2>1. k \in 1..built /\ k \in Ids
    BY <1>t, <1>1, BuiltType DEF Spent
  <2>2. CASE k \notin instances'
    <3>1. k = j[1] => Building(k)
      BY <1>1 DEF Building
    <3> QED
      BY <1>1, <2>1, <2>2, <3>1 DEF Spent
  <2>3. CASE Building(k)'
    <3>1. PICK q \in Jobs : q[1] = k /\ proc'[q].pc = "build"
      BY <2>3 DEF Building
    <3>2. q # j /\ proc'[q] = proc[q]
      BY <1>5, <3>1, JobsAreProcs DEF Out
    <3> QED
      BY <2>1, <3>1, <3>2 DEF Spent, Building
  <2>4. CASE ~closed' /\ Suspect(k)'
    BY <1>1, <1>5, <2>1, <2>4 DEF Spent, Suspect
  <2> QED
    BY <2>2, <2>3, <2>4 DEF Spent
<1>8. Afforded'
  <2>1. Cardinality(Spent') <= Cardinality(Spent) /\ Cardinality(Spent') \in Nat
    BY <1>t, <1>7, SpentFinite, FS_Subset, FS_CardinalityType
  <2> QED
    BY <1>t, <1>1, <2>1, SpentFinite, Bounds DEF Afforded, TypeOK
<1> QED
  BY <1>4, <1>6, <1>8 DEF IInv, Core

\* A slot that is filled.
LEMMA InstallStep ==
    ASSUME IInv, NEW j \in Jobs, Install(j)
    PROVE  IInv'
<1>t. Core /\ TypeOK /\ Known /\ Replacing /\ Listening /\ CapacityKept /\ Afforded
  BY DEF IInv, Core
<1> DEFINE b == built + 1
<1>1. /\ j \in Procs /\ proc[j].pc = "build" /\ j[1] \in instances
      /\ built' = b /\ instances' = (instances \ {j[1]}) \cup {b}
      /\ UNCHANGED <<idle, dead, killed, closed, closer, lost, faults>>
      /\ b \notin instances /\ b # j[1] /\ b \notin dead /\ b \in Ids
      /\ 1..built' = 1..built \cup {b}
  <2>1. built < MaxBuilt
    BY RoomToBuild
  <2>2. b \in Ids /\ b \notin 1..built /\ 1..b = 1..built \cup {b}
    BY <1>t, <2>1, BuiltType, Bounds DEF Ids
  <2> QED
    BY <1>t, <2>2, JobsAreProcs DEF Install, At, TypeOK
<1>2. Core'
  BY <1>t, RoomToBuild, InstallCore
<1>3. /\ proc'[j].pc = "release"
      /\ \A q \in Procs \ {j} : proc'[q] = proc[q]
      /\ runner'[b] = Ready
      /\ \A i \in Ids \ {b} : runner'[i] = runner[i]
  BY <1>t, <1>1 DEF Install, TypeOK
<1>4. Cardinality(instances') + lost' = Size
  <2>1. /\ IsFiniteSet(instances \ {j[1]})
        /\ Cardinality(instances \ {j[1]}) = Cardinality(instances) - 1
    BY <1>t, <1>1, SpentFinite, FS_RemoveElement
  <2>2. b \notin instances \ {j[1]}
    BY <1>1
  <2>3. Cardinality(instances') = Cardinality(instances \ {j[1]}) + 1
    BY <1>1, <2>1, <2>2, FS_AddElement
  <2> QED
    BY <1>t, <1>1, <2>1, <2>3, SpentFinite DEF CapacityKept
<1>5. CapacityKept'
  <2>1. ASSUME NEW i \in instances' \cap dead', ~closed'
        PROVE  \E q \in Jobs : q[1] = i /\ proc'[q].pc \in {"check", "build"}
    <3>1. i \in instances \cap dead /\ i # j[1] /\ ~closed
      BY <1>1, <2>1
    <3>2. PICK q \in Jobs : q[1] = i /\ proc[q].pc \in {"check", "build"}
      BY <1>t, <3>1 DEF CapacityKept
    <3>3. q # j /\ proc'[q] = proc[q]
      BY <1>3, <3>1, <3>2, JobsAreProcs
    <3> QED
      BY <3>2, <3>3
  <2> QED
    BY <1>4, <2>1 DEF CapacityKept
<1>6. Spent' \subseteq Spent
  <2> SUFFICES ASSUME NEW k \in Spent' PROVE k \in Spent
    OBVIOUS
  <2>1. k \in 1..built \/ k = b
    BY <1>1 DEF Spent
  <2>2. Building(k)' => Building(k) /\ k # b
    <3>1. SUFFICES ASSUME NEW q \in Jobs, q[1] = k, proc'[q].pc = "build"
                   PROVE  Building(k) /\ k # b
      BY DEF Building
    <3>2. q # j /\ proc'[q] = proc[q]
      BY <1>3, <3>1, JobsAreProcs
    <3>3. q[1] \in dead
      BY <1>t, <3>1, <3>2 DEF Replacing, Out
    <3> QED
      BY <1>1, <3>1, <3>2, <3>3 DEF Building
  <2>3. CASE k = b
    <3>1. ~Suspect(k)'
      BY <1>1, <1>3, <2>3 DEF Suspect, Ready
    <3>2. k \in instances'
      BY <1>1, <2>3
    <3> QED
      BY <2>2, <2>3, <3>1, <3>2 DEF Spent
  <2>4. CASE k # b
    <3>1. k \in 1..built /\ k \in Ids
      BY <1>t, <2>1, <2>4, BuiltType
    <3>2. k \notin instances' => k \notin instances \/ Building(k)
      BY <1>1, <2>4 DEF Building
    <3>3. Suspect(k)' => Suspect(k)
      BY <1>1, <1>3, <2>4, <3>1 DEF Suspect
    <3> QED
      BY <1>1, <2>2, <3>1, <3>2, <3>3 DEF Spent
  <2> QED
    BY <2>3, <2>4
<1>7. Afforded'
  <2>1. Cardinality(Spent') <= Cardinality(Spent) /\ Cardinality(Spent') \in Nat
    BY <1>t, <1>6, SpentFinite, FS_Subset, FS_CardinalityType
  <2> QED
    BY <1>t, <1>1, <2>1, SpentFinite, Bounds DEF Afforded, TypeOK
<1> QED
  BY <1>2, <1>5, <1>7 DEF IInv, Core

\* The goroutines of the instances.
LEMMA InstanceStep ==
    ASSUME IInv, NEW i \in Ids, InstanceNext(i)
    PROVE  IInv'
<1>t. Core /\ TypeOK /\ Known /\ Replacing /\ Listening
  BY DEF IInv, Core
<1>1. ASSUME Finish(i) \/ Trap(i)
      PROVE  \A j \in Jobs : proc'[j] = proc[j]
  <2>1. Answered(i)
    BY <1>1 DEF Finish, Trap
  <2>2. runner[i].for # Nobody => runner[i].for \in Callers
    BY <1>t, RunnerType
  <2> QED
    BY <1>t, <2>1, <2>2, JobsAreProcs DEF Answered, Goto, TypeOK
<1>2. CASE Finish(i)
  <2>1. Core'
    BY <1>t, <1>2, AnswerCore
  <2>2. UNCHANGED <<instances, built, lost, dead, faults, closed>>
    BY <1>2 DEF Finish
  <2>3. \A k \in Ids : /\ runner'[k].kind = runner[k].kind
                       /\ runner'[k].pc = "retire" => runner[k].pc = "retire"
    <3>1. runner' = [runner EXCEPT ![i] = [runner[i] EXCEPT !.pc = "ready", !.for = Nobody]]
      BY <1>2 DEF Finish, TypeOK
    <3> DEFINE r == [runner[i] EXCEPT !.pc = "ready", !.for = Nobody]
    <3>2. r.pc = "ready" /\ r.kind = runner[i].kind
      BY <1>t, RunnerType DEF Runners
    <3> QED
      BY <1>t, <3>1, <3>2 DEF TypeOK
  <2> QED
    BY <1>1, <1>2, <2>1, <2>2, <2>3, Quiet
<1>3. CASE Trap(i)
  <2>1. Core'
    BY <1>t, <1>3, AnswerCore
  <2>2. /\ UNCHANGED <<instances, built, lost, dead, closed>>
        /\ faults' = faults + 1
    BY <1>3 DEF Trap
  <2>3. \A k \in Ids \ {i} : runner'[k] = runner[k]
    BY <1>t, <1>3 DEF Trap, TypeOK
  <2>4. \A k \in 1..built : Suspect(k)' => Suspect(k) \/ k = i
    BY <1>t, <2>2, <2>3, BuiltType DEF Suspect
  <2>5. CapacityKept' /\ Afforded'
    BY <1>1, <1>3, <2>1, <2>2, <2>4, Ledger DEF Core
  <2> QED
    BY <2>1, <2>5 DEF IInv, Core
<1>4. CASE Retire(i)
  <2> DEFINE j == <<i, "run">>
  <2>1. Core'
    BY <1>t, <1>4, RetireCore
  <2>2. /\ UNCHANGED <<instances, built, lost, closed, faults>>
        /\ dead' = dead \cup {i} /\ runner[i].pc = "retire"
    BY <1>4 DEF Retire
  <2>3. j \in Jobs /\ j \in Procs /\ j[1] = i /\ j[2] = "run"
    BY JobsAreProcs
  <2>4. /\ proc'[j].pc = "check"
        /\ \A q \in Jobs \ {j} : proc'[q] = proc[q]
    <3>1. proc' = [proc EXCEPT ![j] = [proc[j] EXCEPT !.pc = "check"]]
      BY <1>4 DEF Retire, Goto
    <3>2. [proc[j] EXCEPT !.pc = "check"].pc = "check"
      BY <1>t, <2>3 DEF TypeOK, ProcStates
    <3>3. proc \in [Procs -> ProcStates] /\ Jobs \subseteq Procs
      BY <1>t, JobsAreProcs DEF TypeOK
    <3> HIDE DEF j
    <3> QED
      BY <2>3, <3>1, <3>2, <3>3
  <2>5. \A k \in Ids : /\ runner'[k].kind = runner[k].kind
                       /\ runner'[k].pc = "retire" => runner[k].pc = "retire"
    <3>1. runner' = [runner EXCEPT ![i] = [runner[i] EXCEPT !.pc = "replace"]]
      BY <1>4 DEF Retire
    <3>2. [runner[i] EXCEPT !.pc = "replace"].kind = runner[i].kind
      BY <1>t, RunnerType DEF Runners
    <3> QED
      BY <1>t, <2>2, <3>1, <3>2 DEF TypeOK
  <2>6. \A k \in 1..built : Suspect(k)' => Suspect(k)
    BY <1>t, <2>2, <2>5, BuiltType DEF Suspect
  <2>7. \A q \in Jobs : /\ proc[q].pc \in {"check", "build"} =>
                              proc'[q].pc \in {"check", "build"}
                        /\ proc'[q].pc = "build" => proc[q].pc = "build"
    BY <2>3, <2>4
  <2>8. \A k \in dead' \ dead : \E q \in Jobs : q[1] = k /\ proc'[q].pc \in {"check", "build"}
    BY <2>2, <2>3, <2>4
  <2>9. CapacityKept' /\ Afforded'
    BY <2>1, <2>2, <2>6, <2>7, <2>8, Ledger DEF Core
  <2> QED
    BY <2>1, <2>9 DEF IInv, Core
<1>5. CASE Exit(i)
  <2>1. Core'
    BY <1>t, <1>5, ExitCore
  <2>2. UNCHANGED <<instances, built, lost, dead, faults, closed, proc>>
    BY <1>5 DEF Exit
  <2>3. \A k \in Ids : /\ runner'[k].kind = runner[k].kind
                       /\ runner'[k].pc = "retire" => runner[k].pc = "retire"
    <3>1. runner' = [runner EXCEPT ![i] = [runner[i] EXCEPT !.pc = "exited"]]
      BY <1>5 DEF Exit
    <3>2. /\ [runner[i] EXCEPT !.pc = "exited"].kind = runner[i].kind
          /\ [runner[i] EXCEPT !.pc = "exited"].pc = "exited"
      BY <1>t, RunnerType DEF Runners
    <3> QED
      BY <1>t, <3>1, <3>2 DEF TypeOK
  <2> QED
    BY <2>1, <2>2, <2>3, Quiet
<1> QED
  BY <1>2, <1>3, <1>4, <1>5 DEF InstanceNext

\* Close.
LEMMA CloseStep ==
    ASSUME IInv, Close \/ \E i \in Ids : CloseNext(i) \/ CloseKill(i)
    PROVE  IInv'
<1>t. Core /\ TypeOK /\ Known /\ Replacing /\ Listening
  BY DEF IInv, Core
<1>1. CASE Close \/ \E i \in Ids : CloseNext(i)
  <2>1. Core'
    BY <1>t, <1>1, CloseCore
  <2>2. /\ UNCHANGED <<instances, built, lost, dead, faults, proc, runner>>
        /\ closed => closed'
    BY <1>1 DEF Close, CloseNext
  <2> QED
    BY <2>1, <2>2, Quiet
<1>2. ASSUME NEW i \in Ids, CloseKill(i)
      PROVE  IInv'
  <2> DEFINE j == <<i, "kill">>
  <2>1. Core'
    BY <1>t, <1>2, CloseKillCore
  <2>2. /\ UNCHANGED <<instances, built, lost, faults, closed, runner>>
        /\ closed /\ i \in 1..built /\ i \notin dead /\ Kill(i, proc)
    BY <1>t, <1>2 DEF CloseKill, Known
  <2>3. j \in Jobs /\ j \in Procs
    BY JobsAreProcs
  <2>4. /\ dead \subseteq dead' /\ proc[j] = Out /\ proc'[j] = [pc |-> "check", inst |-> 0]
        /\ \A q \in Procs \ {j} : proc'[q] = proc[q]
    <3>1. proc \in [Procs -> ProcStates]
      BY <1>t DEF TypeOK
    <3> QED
      BY <1>t, <2>2, <3>1, KillType
  <2>5. \A q \in Jobs : proc'[q].pc = "build" => proc[q].pc = "build"
    BY <2>3, <2>4, JobsAreProcs
  <2>6. CapacityKept' /\ Afforded'
    BY <2>1, <2>2, <2>4, <2>5, Ledger DEF Core
  <2> QED
    BY <2>1, <2>6 DEF IInv, Core
<1> QED
  BY <1>1, <1>2

-----------------------------------------------------------------------------
(* The theorems *)

LEMMA IInvInit == Init => IInv
<1> SUFFICES ASSUME Init PROVE IInv
  OBVIOUS
<1>1. /\ Size \in Nat \ {0} /\ MaxBuilt \in Nat /\ MaxFaults \in Nat /\ Size <= MaxBuilt
      /\ 1..Size \subseteq Ids
  BY Bounds DEF Ids
<1>2. \A p \in Procs : proc[p] = Out
  BY DEF Init
<1>3. /\ idle \in Seq(Ids) /\ Len(idle) = Size /\ DOMAIN idle = 1..Size
      /\ \A n \in 1..Size : idle[n] = n
  BY <1>1 DEF Init
<1>4. \A i \in Ids : /\ runner[i] \in Runners /\ runner[i].for = Nobody
                     /\ runner[i].kind = "quick" /\ runner[i].pc # "retire"
                     /\ i > Size => runner[i].pc = "none"
  BY <1>1 DEF Init, Ready, Runners, Kinds, Ids
<1>5. TypeOK
  <2>1. proc \in [Procs -> ProcStates]
    BY OutType DEF Init
  <2>2. runner \in [Ids -> Runners]
    BY <1>4 DEF Init
  <2>3. closer \in [pc: {"none", "wait", "kill"}, todo: SUBSET Ids]
    BY DEF Init
  <2>4. built = Size /\ Size \in Size..MaxBuilt /\ lost \in 0..Size /\ faults \in 0..MaxFaults
    BY <1>1 DEF Init
  <2>5. instances \subseteq 1..built /\ killed \subseteq dead /\ dead \subseteq 1..built
    BY DEF Init
  <2>6. idle \in Seq(Ids) /\ Len(idle) <= Size
    BY <1>1, <1>3
  <2>7. closed \in BOOLEAN
    BY DEF Init
  <2> QED
    BY <2>1, <2>2, <2>3, <2>4, <2>5, <2>6, <2>7 DEF TypeOK
<1>6. Known
  BY <1>1, <1>2, <1>3, <1>4 DEF Init, Known, Inst, Out
<1>7. Replacing
  BY <1>2, JobsAreProcs DEF Replacing, Out
<1>8. Listening
  BY <1>4 DEF Listening
<1>9. OnePlace
  BY <1>1, <1>2, <1>3 DEF Init, OnePlace, Inst, Out
<1>10. CapacityKept
  <2>1. Cardinality(1..Size) = Size
    BY <1>1, FS_Interval
  <2> QED
    BY <1>1, <2>1 DEF Init, CapacityKept
<1>11. Afforded
  <2>1. Spent = {}
    <3> SUFFICES ASSUME NEW k \in 1..Size
                 PROVE  k \in instances /\ ~Building(k) /\ ~Suspect(k)
      BY DEF Spent, Init
    <3>1. ~Building(k)
      BY <1>2, JobsAreProcs DEF Building, Out
    <3>2. ~Suspect(k)
      BY <1>1, <1>4 DEF Suspect, Init
    <3> QED
      BY <3>1, <3>2 DEF Init
  <2> QED
    BY <2>1, FS_EmptySet DEF Afforded, Init
<1> QED
  BY <1>5, <1>6, <1>7, <1>8, <1>9, <1>10, <1>11 DEF IInv

LEMMA IInvStep == IInv /\ [Next]_vars => IInv'
<1> SUFFICES ASSUME IInv, [Next]_vars PROVE IInv'
  OBVIOUS
<1>1. CASE UNCHANGED vars
  <2>1. Core'
    BY <1>1 DEF vars, IInv, Core, TypeOK, Known, Replacing, Listening, OnePlace, Inst
  <2> QED
    BY <1>1, <2>1, Quiet DEF vars
<1>2. ASSUME NEW j \in Jobs, JobNext(j)
      PROVE  IInv'
  BY <1>2, CheckStep, InstallStep, ShrinkStep DEF JobNext
<1> QED
  BY <1>1, <1>2, CallerStep, GiveBackStep, InstanceStep, CloseStep DEF Next

\* The invariant behind the other theorems.
THEOREM InvariantHolds == Spec => []IInv
  BY IInvInit, IInvStep, PTL DEF Spec

\* The pool's tables stay in their types, and no more engines are ever built
\* than the pool has slots and renders time out or trap: MaxBuilt, which bounds
\* the model, is never in the way (Install).
THEOREM TypeCorrect == Spec => []TypeOK
  BY InvariantHolds, PTL DEF IInv

\* An instance that was checked out is with one caller or one replacement, or in
\* the channel once, and a live one is in one of these places, for any pool and
\* any callers: acquire, release and replaceInstance hand it over and never
\* copy or lose it.
THEOREM InOnePlace == Spec => []OneHolder
<1>1. IInv => OneHolder
  <2> SUFFICES ASSUME TypeOK, OnePlace, NEW i \in 1..built
               PROVE  /\ Places(i) <= 1
                      /\ i \in instances \ dead /\ ~closed => Places(i) = 1
    BY DEF IInv, OneHolder
  <2> DEFINE Positions == {n \in DOMAIN idle : idle[n] = i}
  <2>1. i # 0
    BY BuiltType
  <2>2. Holders(i) = {} \/ \E p \in Procs : Holders(i) = {p} /\ Inst(p) = i
    BY <2>1 DEF OnePlace, Holders
  <2>3. Positions = {} \/ \E n \in DOMAIN idle : Positions = {n} /\ idle[n] = i
    BY DEF OnePlace
  <2>4. Holders(i) = {} \/ Positions = {}
    BY <2>2, <2>3 DEF OnePlace
  <2>5. /\ Holders(i) # {} => Cardinality(Holders(i)) = 1
        /\ Holders(i) = {} => Cardinality(Holders(i)) = 0
        /\ Positions # {} => Cardinality(Positions) = 1
        /\ Positions = {} => Cardinality(Positions) = 0
    BY <2>2, <2>3, FS_EmptySet, FS_Singleton
  <2>6. i \in instances \ dead /\ ~closed => Holders(i) # {} \/ Positions # {}
    BY DEF OnePlace, Holders
  <2> QED
    BY <2>4, <2>5, <2>6 DEF Places
<1> QED
  BY <1>1, InvariantHolds, PTL

\* The pool keeps its slots but for those that could not be filled, and a dead
\* instance that has not been replaced has somebody who will, for any number of
\* timeouts, traps and calls of replaceInstance (killInstance, run).
THEOREM SlotsKept == Spec => []CapacityKept
  BY InvariantHolds, PTL DEF IInv

-----------------------------------------------------------------------------
(* Induction on numbers, without a theorem that takes an operator *)

\* A set of numbers with 0 and every successor has all: on 0..n, if n were
\* missing, taking successors would be a bijection that misses 0.
LEMMA Successors ==
    ASSUME NEW S, 0 \in S, \A i \in Nat : i \in S => i + 1 \in S
    PROVE  \A n \in Nat : n \in S
<1> SUFFICES ASSUME NEW n \in Nat, n \notin S
             PROVE  FALSE
  OBVIOUS
<1> DEFINE T == {i \in 0..n : i \in S}
           f == [i \in T |-> i + 1]
<1>1. IsFiniteSet(T)
  <2>1. IsFiniteSet(0..n)
    BY FS_Interval
  <2> QED
    BY <2>1, FS_Subset
<1>2. f \in Injection(T, T)
  <2>1. f \in [T -> T]
    OBVIOUS
  <2> QED
    BY <2>1 DEF Injection, IsInjective
<1>3. f \in Surjection(T, T)
  <2> HIDE DEF f, T
  <2> QED
    BY <1>1, <1>2, FS_Injection
<1>4. PICK i \in T : f[i] = 0
  <2>1. 0 \in T
    OBVIOUS
  <2> HIDE DEF f, T
  <2> QED
    BY <1>3, <2>1 DEF Surjection
<1> QED
  BY <1>4

\* The same up to a bound.
LEMMA Steps ==
    ASSUME NEW S, NEW n \in Nat, 0 \in S, \A i \in 1..n : i - 1 \in S => i \in S
    PROVE  \A i \in 0..n : i \in S
<1> DEFINE T == {i \in Nat : i <= n => i \in S}
<1>1. 0 \in T
  OBVIOUS
<1>2. ASSUME NEW i \in Nat, i \in T
      PROVE  i + 1 \in T
  <2>1. CASE i + 1 <= n
    <3>1. i + 1 \in 1..n /\ (i + 1) - 1 = i /\ i \in S
      BY <1>2, <2>1
    <3> QED
      BY <3>1
  <2> QED
    BY <2>1
<1> HIDE DEF T
<1>3. \A i \in Nat : i \in T
  BY <1>1, <1>2, Successors
<1> QED
  BY <1>3 DEF T

\* What is computed step by step exists: this is what a definition of a function by
\* recursion on 0..n needs.
LEMMA Iterated ==
    ASSUME NEW D, NEW d \in D, NEW n \in Nat, NEW step \in [1..n -> [D -> D]]
    PROVE  \E g \in [0..n -> D] :
              g[0] = d /\ \A i \in 1..n : g[i] = step[i][g[i - 1]]
<1> DEFINE S == {m \in Nat : m <= n => 
                  \E g \in [0..m -> D] : 
                     /\ g[0] = d
                     /\ \A i \in 1..m : g[i] = step[i][g[i - 1]]}
<1>1. 0 \in S
  <2> DEFINE g == [i \in 0..0 |-> d]
  <2>1. g \in [0..0 -> D] /\ g[0] = d /\ \A i \in 1..0 : g[i] = step[i][g[i - 1]]
    OBVIOUS
  <2> HIDE DEF g
  <2> QED
    BY <2>1
<1>2. ASSUME NEW m \in Nat, m \in S
      PROVE  m + 1 \in S
  <2>1. CASE m + 1 > n
    BY <2>1
  <2>2. CASE m + 1 <= n
    <3>1. PICK g \in [0..m -> D] : 
                     /\ g[0] = d
                     /\ \A i \in 1..m : g[i] = step[i][g[i - 1]]
      BY <1>2, <2>2
    <3> DEFINE e == step[m + 1][g[m]]
               h == [i \in 0..(m + 1) |-> IF i = m + 1 THEN e ELSE g[i]]
    <3>2. m + 1 \in 1..n /\ m \in 0..m /\ 0 \in 0..m
      BY <2>2
    <3>3. e \in D
      BY <3>2
    <3>4. h \in [0..(m + 1) -> D]
      <4> HIDE DEF e
      <4> QED BY <3>3
    <3>5. h[0] = d /\ h[m + 1] = e /\ \A i \in 0..m : h[i] = g[i]
      <4> HIDE DEF e
      <4> QED BY <3>1, <3>2
    <3>6. ASSUME NEW i \in 1..(m + 1)
          PROVE  h[i] = step[i][h[i - 1]]
      <4> HIDE DEF h
      <4>1. CASE i = m + 1
        BY <3>2, <3>5, <4>1
      <4>2. CASE i # m + 1
        <5>1. i \in 1..m /\ i - 1 \in 0..m /\ i \in 0..m
          BY <4>2
        <5> QED
          BY <3>1, <3>5, <5>1
      <4> QED
        BY <4>1, <4>2
    <3> HIDE DEF h
    <3> QED
      BY <3>4, <3>5, <3>6
  <2> QED
    BY <2>1, <2>2
<1>3. n \in S
  <2> HIDE DEF S
  <2> QED BY <1>1, <1>2, Successors
<1> QED
  BY <1>3

LEMMA TableType ==
    ASSUME NEW t \in Tables, BridgeAssumption
    PROVE  /\ t = [first |-> t.first, next |-> t.next, value |-> t.value]
           /\ t.first \in Slots
           /\ t.next \in [Slots -> Slots]
           /\ t.value \in [Slots -> Values]
  BY DEF Tables

LEMMA FreeType ==
    ASSUME BridgeAssumption, NEW t \in Tables, NEW s \in Slots
    PROVE  FreeValue(t, s) \in Tables
<1>1. "undefined" \in Values
  BY DEF Values
<1> QED
  BY <1>1 DEF Tables, FreeValue

\* Freeing several slots is freeing one after the other.
LEMMA FreeAllSteps ==
    ASSUME BridgeAssumption, NEW t \in Tables, NEW ss \in Seq(Slots)
    PROVE  \E f \in [0..Len(ss) -> Tables] :
              /\ f[0] = t
              /\ \A i \in 1..Len(ss) : f[i] = FreeValue(f[i - 1], ss[i])
              /\ FreeAll(t, ss) = f[Len(ss)]
<1> DEFINE n == Len(ss)
           step == [i \in 1..n |-> [u \in Tables |-> FreeValue(u, ss[i])]]
           freed[i \in 0..n] == IF i = 0 THEN t ELSE FreeValue(freed[i - 1], ss[i])
<1>1. n \in Nat /\ \A i \in 1..n : ss[i] \in Slots
  OBVIOUS
<1>2. step \in [1..n -> [Tables -> Tables]]
  BY <1>1, FreeType
<1>3. PICK g \in [0..n -> Tables] :
         g[0] = t /\ \A i \in 1..n : g[i] = step[i][g[i - 1]]
  <2> HIDE DEF n, step, freed
  <2>1. n \in Nat
    BY <1>1
  <2> QED
    BY ONLY <2>1, <1>2, t \in Tables, Iterated, SMTT(30)
<1>4. g = [i \in 0..n |-> IF i = 0 THEN t ELSE FreeValue(g[i - 1], ss[i])]
  <2>1. ASSUME NEW i \in 0..n
        PROVE  g[i] = IF i = 0 THEN t ELSE FreeValue(g[i - 1], ss[i])
    <3>1. CASE i = 0
      BY <1>3, <3>1
    <3>2. CASE i # 0
      <4>1. i \in 1..n /\ i - 1 \in 0..n /\ g[i - 1] \in Tables
        BY <1>1, <3>2
      <4>2. g[i] = step[i][g[i - 1]]
        BY <1>3, <3>2
      <4> QED
        BY <3>2, <4>1, <4>2
    <3> QED
      BY <3>1, <3>2
  <2> QED
    BY <2>1
<1>5. freed = [i \in 0..n |-> IF i = 0 THEN t ELSE FreeValue(freed[i - 1], ss[i])]
  <2> HIDE DEF n
  <2> QED BY <1>4, Zenon
<1>6. FreeAll(t, ss) = freed[n]
  BY DEF FreeAll
<1> HIDE DEF freed, n, step
<1>7. freed[0] = t /\ \A i \in 1..n : freed[i] = FreeValue(freed[i - 1], ss[i])
  BY <1>1, <1>5
<1>8. freed \in [0..n -> Tables]
  <2> DEFINE S == {i \in Nat : freed[i] \in Tables}
  <2>1. 0 \in S
    BY <1>7
  <2>2. ASSUME NEW i \in 1..n, i - 1 \in S
        PROVE  i \in S
    <3>1. freed[i - 1] \in Tables
      BY <2>2
    <3>2. ss[i] \in Slots /\ freed[i] = FreeValue(freed[i - 1], ss[i])
      BY <1>1, <1>7
    <3>3. freed[i] \in Tables
      BY <3>1, <3>2, FreeType
    <3> QED
      BY <3>3
  <2>3. \A i \in 0..n : i \in S
    <3> HIDE DEF S
    <3> QED BY <1>1, <2>1, <2>2, Steps
  <2> QED
    BY <1>5, <2>3
<1> QED
  BY <1>6, <1>7, <1>8 DEF n

LEMMA StoreType ==
    ASSUME BridgeAssumption, NEW t \in Tables, NEW v \in Values
    PROVE  Store(t, v).table \in Tables /\ Store(t, v).slot \in Slots
<1>1. 0 \in Slots
  BY DEF BridgeAssumption, Slots
<1> QED
  BY <1>1 DEF Tables, Store

\* Storing several values is storing one after the other.
Stores == [table: Tables, slots: Seq(Slots)]

Stored(d, v) ==
    [table |-> Store(d.table, v).table, slots |-> Append(d.slots, Store(d.table, v).slot)]

LEMMA StoredType ==
    ASSUME BridgeAssumption, NEW d \in Stores, NEW v \in Values
    PROVE  Stored(d, v) \in Stores
<1>1. d.table \in Tables /\ d.slots \in Seq(Slots)
  BY DEF Stores
<1>2. Store(d.table, v).table \in Tables /\ Store(d.table, v).slot \in Slots
  BY <1>1, StoreType
<1> QED
  BY <1>1, <1>2, AppendProperties DEF Stores, Stored

LEMMA StoreAllSteps ==
    ASSUME BridgeAssumption, NEW t \in Tables, NEW vs \in Seq(Values)
    PROVE  \E f \in [0..Len(vs) -> Stores] :
              /\ f[0] = [table |-> t, slots |-> <<>>]
              /\ \A i \in 1..Len(vs) : f[i] = Stored(f[i - 1], vs[i])
              /\ StoreAll(t, vs) = f[Len(vs)]
<1> DEFINE n == Len(vs)
           none == [table |-> t, slots |-> <<>>]
           step == [i \in 1..n |-> [d \in Stores |-> Stored(d, vs[i])]]
           stored[i \in 0..n] ==
             IF i = 0 THEN none
             ELSE [table |-> Store(stored[i - 1].table, vs[i]).table,
                   slots |-> Append(stored[i - 1].slots,
                                    Store(stored[i - 1].table, vs[i]).slot)]
<1>1. n \in Nat /\ \A i \in 1..n : vs[i] \in Values
  OBVIOUS
<1>2. step \in [1..n -> [Stores -> Stores]]
  BY <1>1, StoredType
<1>3. none \in Stores
  BY DEF Stores
<1>4. PICK g \in [0..n -> Stores] :
         g[0] = none /\ \A i \in 1..n : g[i] = step[i][g[i - 1]]
  <2> HIDE DEF n, step, stored, none
  <2>1. n \in Nat
    BY <1>1
  <2> QED
    BY ONLY <2>1, <1>2, <1>3, Iterated, SMTT(90)
<1>5. g = [i \in 0..n |-> IF i = 0 THEN none
                          ELSE [table |-> Store(g[i - 1].table, vs[i]).table,
                                slots |-> Append(g[i - 1].slots,
                                                 Store(g[i - 1].table, vs[i]).slot)]]
  <2>1. ASSUME NEW i \in 0..n
        PROVE  g[i] = IF i = 0 THEN none ELSE Stored(g[i - 1], vs[i])
    <3>1. CASE i = 0
      BY <1>4, <3>1
    <3>2. CASE i # 0
      <4>1. i \in 1..n /\ i - 1 \in 0..n /\ g[i - 1] \in Stores
        BY <1>1, <3>2
      <4>2. g[i] = step[i][g[i - 1]]
        BY <1>4, <3>2
      <4> QED
        BY <3>2, <4>1, <4>2
    <3> QED
      BY <3>1, <3>2
  <2> QED
    BY <2>1 DEF Stored
<1>6. stored = [i \in 0..n |->
                  IF i = 0 THEN none
                  ELSE [table |-> Store(stored[i - 1].table, vs[i]).table,
                        slots |-> Append(stored[i - 1].slots,
                                         Store(stored[i - 1].table, vs[i]).slot)]]
  <2> HIDE DEF n, none
  <2> QED BY <1>5, Zenon
<1>7. StoreAll(t, vs) = stored[n]
  BY DEF StoreAll
<1> HIDE DEF stored, n, step, none
<1>8. stored[0] = none /\ \A i \in 1..n : stored[i] = Stored(stored[i - 1], vs[i])
  <2>1. 0 \in 0..n /\ \A i \in 1..n : i \in 0..n /\ i # 0
    BY <1>1
  <2>2. \A i \in 0..n : stored[i] = IF i = 0 THEN none ELSE Stored(stored[i - 1], vs[i])
    BY <1>6 DEF Stored
  <2> QED
    BY <2>1, <2>2
<1>9. stored \in [0..n -> Stores]
  <2> DEFINE S == {i \in Nat : stored[i] \in Stores}
  <2>1. 0 \in S
    BY <1>3, <1>8
  <2>2. ASSUME NEW i \in 1..n, i - 1 \in S
        PROVE  i \in S
    <3>1. stored[i - 1] \in Stores
      BY <2>2
    <3>2. vs[i] \in Values /\ stored[i] = Stored(stored[i - 1], vs[i])
      BY <1>1, <1>8
    <3>3. stored[i] \in Stores
      BY <3>1, <3>2, StoredType
    <3> QED
      BY <1>1, <3>3
  <2>3. \A i \in 0..n : i \in S
    <3> HIDE DEF S
    <3> QED BY <1>1, <2>1, <2>2, Steps
  <2> QED
    BY <1>6, <2>3
<1> QED
  BY <1>7, <1>8, <1>9 DEF n, none

\* From the head of table t, the links of the free list visit every slot of F once
\* and then end; p is the way they take.
Walk(t, F, n, p) ==
    /\ p[0] = t.first /\ p[n] = 0
    /\ \A i \in 0..(n - 1) : p[i] \in F /\ p[i + 1] = t.next[p[i]]
    /\ \A i, j \in 0..(n - 1) : p[i] = p[j] => i = j
    /\ \A s \in F : \E i \in 0..(n - 1) : p[i] = s

Free(t, F) ==
    /\ t \in Tables /\ F \subseteq Slots \ {0}
    /\ \E n \in Nat : \E p \in [0..n -> Slots] : Walk(t, F, n, p)

\* store_jsvalue takes a slot off the free list, if there is one.
LEMMA StoreTakes ==
    ASSUME BridgeAssumption, NEW t, NEW F, NEW v \in Values, Free(t, F)
    PROVE  /\ Store(t, v).table \in Tables
           /\ \/ F = {} /\ Store(t, v).slot = 0 /\ Store(t, v).table = t
              \/ /\ Store(t, v).slot \in F
                 /\ Free(Store(t, v).table, F \ {Store(t, v).slot})
                 /\ Store(t, v).table.value
                      = [t.value EXCEPT ![Store(t, v).slot] = v]
<1>1. t \in Tables /\ F \subseteq Slots \ {0}
  BY DEF Free
<1>2. PICK n \in Nat : \E p \in [0..n -> Slots] : Walk(t, F, n, p)
  BY DEF Free
<1>3. PICK p \in [0..n -> Slots] : Walk(t, F, n, p)
  BY <1>2
<1>4. Store(t, v).table \in Tables
  BY <1>1, StoreType
<1>5. CASE t.first = 0
  <2>1. n = 0
    <3>1. ASSUME n # 0
          PROVE  FALSE
      <4>1. 0 \in 0..(n - 1)
        BY <3>1
      <4> QED
        BY <1>1, <1>3, <1>5, <4>1 DEF Walk
    <3> QED
      BY <3>1
  <2>2. F = {}
    BY <1>3, <2>1 DEF Walk
  <2> QED
    BY <1>4, <1>5, <2>2 DEF Store
<1>6. CASE t.first # 0
  <2> DEFINE s == t.first
             u == Store(t, v).table
             q == [i \in 0..(n - 1) |-> p[i + 1]]
  <2>1. n # 0 /\ n - 1 \in Nat
    BY <1>3, <1>6 DEF Walk
  <2>2. Store(t, v).slot = s /\ u.first = t.next[s] /\ u.next = [t.next EXCEPT ![s] = 0]
        /\ u.value = [t.value EXCEPT ![s] = v]
    BY <1>6 DEF Store
  <2>3. s = p[0] /\ 0 \in 0..(n - 1) /\ s \in F /\ s \in Slots
    BY <1>1, <1>3, <2>1 DEF Walk
  <2>4. q \in [0..(n - 1) -> Slots]
    BY <2>1
  <2>5. Walk(u, F \ {s}, n - 1, q)
    <3>1. q[0] = u.first /\ q[n - 1] = 0
      BY <1>3, <2>1, <2>2, <2>3 DEF Walk
    <3>2. ASSUME NEW i \in 0..(n - 2)
          PROVE  q[i] \in F \ {s} /\ q[i + 1] = u.next[q[i]]
      <4>1. /\ i \in 0..(n - 1) /\ i + 1 \in 0..(n - 1) /\ i + 1 # 0
            /\ q[i] = p[i + 1] /\ q[i + 1] = p[(i + 1) + 1]
        BY <2>1
      <4>2. p[i + 1] \in F /\ p[(i + 1) + 1] = t.next[p[i + 1]] /\ p[i + 1] # p[0]
        BY <1>3, <2>3, <4>1 DEF Walk
      <4>3. u.next[p[i + 1]] = t.next[p[i + 1]]
        BY <1>1, <2>2, <2>3, <4>2 DEF Tables
      <4> QED
        BY <2>3, <4>1, <4>2, <4>3
    <3>3. ASSUME NEW i \in 0..(n - 2), NEW j \in 0..(n - 2), q[i] = q[j]
          PROVE  i = j
      <4>1. /\ q[i] = p[i + 1] /\ q[j] = p[j + 1]
            /\ i + 1 \in 0..(n - 1) /\ j + 1 \in 0..(n - 1)
        BY <2>1
      <4>2. i + 1 = j + 1
        BY <1>3, <3>3, <4>1 DEF Walk
      <4> QED
        BY <4>2
    <3>4. ASSUME NEW r \in F \ {s}
          PROVE  \E i \in 0..(n - 2) : q[i] = r
      <4>1. PICK i \in 0..(n - 1) : p[i] = r
        BY <1>3 DEF Walk
      <4>2. i # 0
        BY <2>3, <4>1
      <4>3. i - 1 \in 0..(n - 2) /\ q[i - 1] = p[i]
        BY <2>1, <4>2
      <4> QED
        BY <4>1, <4>3
    <3>5. (n - 1) - 1 = n - 2
      BY <2>1
    <3> HIDE DEF q, u, s
    <3> QED
      BY <3>1, <3>2, <3>3, <3>4, <3>5 DEF Walk
  <2>6. Free(u, F \ {s})
    <3> HIDE DEF q, u, s
    <3> QED
      BY <1>1, <1>4, <2>1, <2>4, <2>5 DEF Free, u
  <2> QED
    BY <1>4, <2>2, <2>3, <2>6
<1> QED
  BY <1>5, <1>6

\* free_jsvalue_slot puts a slot that is in use back.
LEMMA FreeGives ==
    ASSUME BridgeAssumption, NEW t, NEW F, NEW s \in Slots \ F, Free(t, F), s # 0
    PROVE  /\ Free(FreeValue(t, s), F \cup {s})
           /\ FreeValue(t, s).value = [t.value EXCEPT ![s] = "undefined"]
<1>1. t \in Tables /\ F \subseteq Slots \ {0}
  BY DEF Free
<1>2. PICK n \in Nat : \E p \in [0..n -> Slots] : Walk(t, F, n, p)
  BY DEF Free
<1>3. PICK p \in [0..n -> Slots] : Walk(t, F, n, p)
  BY <1>2
<1> DEFINE u == FreeValue(t, s)
           q == [i \in 0..(n + 1) |-> IF i = 0 THEN s ELSE p[i - 1]]
<1>4. /\ u.first = s /\ u.next = [t.next EXCEPT ![s] = t.first]
      /\ u.value = [t.value EXCEPT ![s] = "undefined"]
  BY DEF FreeValue
<1>5. u \in Tables
  BY <1>1, FreeType
<1>6. q \in [0..(n + 1) -> Slots] /\ q[0] = s
      /\ \A i \in 0..n : i + 1 \in 0..(n + 1) /\ q[i + 1] = p[i]
  OBVIOUS
<1>7. Walk(u, F \cup {s}, n + 1, q)
  <2> HIDE DEF q, u
  <2>1. q[0] = u.first /\ q[n + 1] = 0
    BY <1>3, <1>4, <1>6 DEF Walk
  <2>2. ASSUME NEW i \in 1..n
        PROVE  /\ i - 1 \in 0..(n - 1) /\ q[i] = p[i - 1] /\ q[i] \in F
               /\ q[i + 1] = p[i]
    <3>1. i - 1 \in 0..(n - 1) /\ i - 1 \in 0..n /\ i \in 0..n /\ (i - 1) + 1 = i
      OBVIOUS
    <3>2. q[i] = p[i - 1] /\ q[i + 1] = p[i]
      BY <1>6, <3>1
    <3>3. p[i - 1] \in F
      BY <1>3, <3>1 DEF Walk
    <3> QED
      BY <3>1, <3>2, <3>3
  <2>3. ASSUME NEW i \in 0..n
        PROVE  q[i] \in F \cup {s} /\ q[i + 1] = u.next[q[i]]
    <3>1. CASE i = 0
      <4>1. q[i] = s /\ q[i + 1] = p[0]
        BY <1>6, <3>1
      <4>2. u.next[s] = t.first
        BY <1>1, <1>4 DEF Tables
      <4> QED
        BY <1>3, <4>1, <4>2 DEF Walk
    <3>2. CASE i # 0
      <4>1. i \in 1..n /\ (i - 1) + 1 = i
        BY <3>2
      <4>2. i - 1 \in 0..(n - 1) /\ q[i] = p[i - 1] /\ q[i] \in F /\ q[i + 1] = p[i]
        BY <2>2, <4>1
      <4>3. p[i] = t.next[p[i - 1]]
        BY <1>3, <4>1, <4>2 DEF Walk
      <4>4. u.next[q[i]] = t.next[q[i]]
        BY <1>1, <1>4, <4>2 DEF Tables
      <4> QED
        BY <4>2, <4>3, <4>4
    <3> QED
      BY <3>1, <3>2
  <2>4. ASSUME NEW i \in 0..n, NEW j \in 0..n, q[i] = q[j]
        PROVE  i = j
    <3>1. \A k \in 0..n : k = 0 \/ k \in 1..n
      OBVIOUS
    <3>2. CASE i \in 1..n /\ j \in 1..n
      <4>1. p[i - 1] = p[j - 1] /\ i - 1 \in 0..(n - 1) /\ j - 1 \in 0..(n - 1)
        BY <2>2, <2>4, <3>2
      <4>2. i - 1 = j - 1
        BY <1>3, <4>1 DEF Walk
      <4> QED
        BY <4>2
    <3>3. CASE i = 0 \/ j = 0
      <4>1. \A k \in 1..n : q[k] # s
        BY <2>2
      <4> QED
        BY <1>6, <2>4, <3>1, <3>3, <4>1
    <3> QED
      BY <3>1, <3>2, <3>3
  <2>5. ASSUME NEW r \in F \cup {s}
        PROVE  \E i \in 0..n : q[i] = r
    <3>1. CASE r = s
      BY <1>6, <3>1
    <3>2. CASE r \in F
      <4>1. PICK i \in 0..(n - 1) : p[i] = r
        BY <1>3, <3>2 DEF Walk
      <4>2. i \in 0..n /\ i + 1 \in 0..n
        OBVIOUS
      <4> QED
        BY <1>6, <4>1, <4>2
    <3> QED
      BY <3>1, <3>2
  <2>6. (n + 1) - 1 = n
    OBVIOUS
  <2> QED
    BY <2>1, <2>3, <2>4, <2>5, <2>6 DEF Walk
<1>8. Free(u, F \cup {s})
  <2> HIDE DEF q, u
  <2>1. n + 1 \in Nat
    OBVIOUS
  <2> QED
    BY <1>1, <1>5, <1>6, <1>7, <2>1 DEF Free
<1> QED
  BY <1>4, <1>8

\* The slots among the first k of ss, and that ss names none of them twice.
Named(ss, k) == {s \in Slots \ {0} : \E i \in 1..k : ss[i] = s}

Apart(ss) == \A i, j \in 1..Len(ss) : ss[i] = ss[j] /\ ss[i] # 0 => i = j

LEMMA FreeAllGives ==
    ASSUME BridgeAssumption, NEW t, NEW F, Free(t, F),
           NEW ss \in Seq(Slots), Apart(ss), \A i \in 1..Len(ss) : ss[i] \notin F
    PROVE  /\ Free(FreeAll(t, ss), F \cup Named(ss, Len(ss)))
           /\ \A s \in Slots \ Named(ss, Len(ss)) :
                 FreeAll(t, ss).value[s] = t.value[s]
<1>1. t \in Tables
  BY DEF Free
<1>2. PICK f \in [0..Len(ss) -> Tables] :
              /\ f[0] = t
              /\ \A i \in 1..Len(ss) : f[i] = FreeValue(f[i - 1], ss[i])
              /\ FreeAll(t, ss) = f[Len(ss)]
  BY <1>1, FreeAllSteps
<1> DEFINE n == Len(ss)
           Good(i) == /\ Free(f[i], F \cup Named(ss, i))
                      /\ \A s \in Slots \ Named(ss, i) : f[i].value[s] = t.value[s]
           S == {i \in Nat : Good(i)}
<1>3. n \in Nat /\ \A i \in 1..n : ss[i] \in Slots
  OBVIOUS
<1>4. Good(0)
  <2>1. Named(ss, 0) = {}
    BY DEF Named
  <2> QED
    BY <1>2, <2>1
<1>5. ASSUME NEW i \in 1..n, Good(i - 1)
      PROVE  Good(i)
  <2> DEFINE s == ss[i]
  <2>1. i - 1 \in 0..n /\ f[i] = FreeValue(f[i - 1], s) /\ s \in Slots /\ f[i - 1] \in Tables
    <3>1. i - 1 \in 0..n
      BY <1>3
    <3> QED
      BY <1>2, <1>3, <3>1
  <2>2. Named(ss, i) = IF s = 0 THEN Named(ss, i - 1) ELSE Named(ss, i - 1) \cup {s}
    <3>1. \A j \in 1..i : j = i \/ j \in 1..(i - 1)
      BY <1>3
    <3>2. \A j \in 1..(i - 1) : j \in 1..i
      BY <1>3
    <3>3. i \in 1..i
      BY <1>3
    <3> QED
      BY <2>1, <3>1, <3>2, <3>3 DEF Named
  <2>3. CASE s = 0
    BY <1>5, <2>1, <2>2, <2>3 DEF FreeValue
  <2>4. CASE s # 0
    <3>1. s \notin F \cup Named(ss, i - 1)
      <4>1. ASSUME NEW j \in 1..(i - 1)
            PROVE  ss[j] # s
        BY <1>3, <2>4 DEF Apart
      <4> QED
        BY <4>1 DEF Named
    <3>2. /\ Free(f[i], (F \cup Named(ss, i - 1)) \cup {s})
          /\ f[i].value = [f[i - 1].value EXCEPT ![s] = "undefined"]
      <4> DEFINE H == F \cup Named(ss, i - 1)
      <4>1. Free(f[i - 1], H) /\ s \in Slots \ H
        BY <1>5, <2>1, <3>1
      <4> HIDE DEF s, H
      <4>2. /\ Free(FreeValue(f[i - 1], s), H \cup {s})
            /\ FreeValue(f[i - 1], s).value = [f[i - 1].value EXCEPT ![s] = "undefined"]
        BY <2>4, <4>1, FreeGives
      <4> QED
        BY <2>1, <4>2 DEF H
    <3>3. (F \cup Named(ss, i - 1)) \cup {s} = F \cup Named(ss, i)
      BY <2>2, <2>4
    <3>4. ASSUME NEW r \in Slots \ Named(ss, i)
          PROVE  f[i].value[r] = t.value[r]
      <4>1. r # s /\ r \in Slots \ Named(ss, i - 1)
        BY <2>2, <2>4
      <4>2. f[i].value[r] = f[i - 1].value[r]
        BY <2>1, <3>2, <4>1 DEF Tables
      <4> QED
        BY <1>5, <4>1, <4>2
    <3> QED
      BY <3>2, <3>3, <3>4
  <2> QED
    BY <2>3, <2>4
<1>6. \A i \in 0..n : i \in S
  <2>1. 0 \in S
    BY <1>4
  <2>2. ASSUME NEW i \in 1..n, i - 1 \in S
        PROVE  i \in S
    <3>1. i \in Nat
      BY <1>3
    <3> HIDE DEF Good
    <3> QED
      BY <1>5, <2>2, <3>1
  <2> HIDE DEF S
  <2> QED
    BY <1>3, <2>1, <2>2, Steps
<1>7. Good(n)
  <2> HIDE DEF Good
  <2> QED
    BY <1>3, <1>6
<1> QED
  BY <1>2, <1>7

LEMMA StoreAllTakes ==
    ASSUME BridgeAssumption, NEW t, NEW F, Free(t, F), NEW vs \in Seq(Values)
    PROVE  LET r == StoreAll(t, vs) IN
           /\ r.table \in Tables /\ r.slots \in Seq(Slots)
           /\ Len(r.slots) = Len(vs)
           /\ Apart(r.slots)
           /\ Named(r.slots, Len(vs)) \subseteq F
           /\ Free(r.table, F \ Named(r.slots, Len(vs)))
<1>1. t \in Tables
  BY DEF Free
<1>2. PICK f \in [0..Len(vs) -> Stores] :
              /\ f[0] = [table |-> t, slots |-> <<>>]
              /\ \A i \in 1..Len(vs) : f[i] = Stored(f[i - 1], vs[i])
              /\ StoreAll(t, vs) = f[Len(vs)]
  BY <1>1, StoreAllSteps
<1> DEFINE n == Len(vs)
           Good(i) == /\ Len(f[i].slots) = i
                      /\ Apart(f[i].slots)
                      /\ Named(f[i].slots, i) \subseteq F
                      /\ Free(f[i].table, F \ Named(f[i].slots, i))
           S == {i \in Nat : Good(i)}
<1>3. n \in Nat /\ \A i \in 1..n : vs[i] \in Values
  OBVIOUS
<1>4. Good(0)
  <2>1. Named(<<>>, 0) = {} /\ Apart(<<>>) /\ Len(<<>>) = 0
    BY DEF Named, Apart
  <2>2. f[0].slots = <<>> /\ f[0].table = t
    BY <1>2
  <2>3. F \ {} = F
    OBVIOUS
  <2> QED
    BY <2>1, <2>2, <2>3
<1>5. ASSUME NEW i \in 1..n, Good(i - 1)
      PROVE  Good(i)
  <2> DEFINE ss == f[i - 1].slots
             u == f[i - 1].table
             s == Store(u, vs[i]).slot
             N == Named(ss, i - 1)
  <2>1. /\ i \in Nat /\ i - 1 \in Nat /\ i - 1 \in 0..n /\ (i - 1) + 1 = i
        /\ f[i - 1] \in Stores /\ vs[i] \in Values
        /\ f[i] = Stored(f[i - 1], vs[i])
    BY <1>2, <1>3
  <2>2. ss \in Seq(Slots) /\ u \in Tables /\ Len(ss) = i - 1
    BY <1>5, <2>1 DEF Stores
  <2>3. s \in Slots
    BY <2>1, <2>2, StoreType
  <2>4. f[i].slots = Append(ss, s) /\ f[i].table = Store(u, vs[i]).table
    BY <2>1 DEF Stored
  <2>5. /\ Len(Append(ss, s)) = i /\ Append(ss, s)[i] = s
        /\ \A j \in 1..(i - 1) : Append(ss, s)[j] = ss[j]
    <3> HIDE DEF ss, s
    <3> QED
      BY <2>1, <2>2, <2>3, AppendProperties
  <2>6. \A j \in 1..i : j = i \/ j \in 1..(i - 1)
    BY <2>1
  <2>7. \A j \in 1..(i - 1) : j \in 1..i
    BY <2>1
  <2>8. i \in 1..i
    BY <2>1
  <2>9. Named(Append(ss, s), i) = IF s = 0 THEN N ELSE N \cup {s}
    <3> HIDE DEF ss, s
    <3> QED
      BY <2>3, <2>5, <2>6, <2>7, <2>8 DEF Named
  <2>10. s = 0 \/ s \in F \ N
    <3>1. Free(u, F \ N)
      BY <1>5
    <3> HIDE DEF u, N
    <3> QED
      BY <2>1, <3>1, StoreTakes
  <2>11. Apart(Append(ss, s))
    <3>1. ASSUME NEW j \in 1..(i - 1), ss[j] # 0
          PROVE  ss[j] \in N
      <4>1. j \in 1..Len(ss)
        BY <2>2
      <4>2. ss[j] \in Slots
        BY <2>2, <4>1
      <4> QED
        BY <3>1, <4>2 DEF Named
    <3>2. \A j, k \in 1..(i - 1) : ss[j] = ss[k] /\ ss[j] # 0 => j = k
      BY <1>5, <2>2 DEF Apart
    <3> HIDE DEF ss, s, N
    <3> QED
      BY <2>5, <2>6, <2>10, <3>1, <3>2 DEF Apart
  <2>12. /\ Named(Append(ss, s), i) \subseteq F
         /\ Free(Store(u, vs[i]).table, F \ Named(Append(ss, s), i))
    <3>1. Free(u, F \ N) /\ N \subseteq F
      BY <1>5
    <3>2. \/ F \ N = {} /\ s = 0 /\ Store(u, vs[i]).table = u
          \/ s \in F \ N /\ Free(Store(u, vs[i]).table, (F \ N) \ {s})
      <4> HIDE DEF N, u
      <4> QED
        BY <2>1, <3>1, StoreTakes
    <3>3. ASSUME F \ N = {}, s = 0, Store(u, vs[i]).table = u
          PROVE  <2>12!1 /\ <2>12!2
      <4> HIDE DEF s, u, N
      <4> QED
        BY <2>9, <3>1, <3>3
    <3>4. ASSUME s \in F \ N, Free(Store(u, vs[i]).table, (F \ N) \ {s})
          PROVE  <2>12!1 /\ <2>12!2
      <4>1. s # 0
        BY <3>4 DEF Free
      <4>2. (F \ N) \ {s} = F \ (N \cup {s})
        OBVIOUS
      <4> HIDE DEF s, u, N
      <4> QED
        BY <2>9, <3>1, <3>4, <4>1, <4>2
    <3> QED
      BY <3>2, <3>3, <3>4
  <2> HIDE DEF ss, u, s
  <2> QED
    BY <2>4, <2>5, <2>11, <2>12
<1>6. \A i \in 0..n : i \in S
  <2>1. 0 \in S
    BY <1>4
  <2>2. ASSUME NEW i \in 1..n, i - 1 \in S
        PROVE  i \in S
    <3>1. i \in Nat
      BY <1>3
    <3> HIDE DEF Good
    <3> QED
      BY <1>5, <2>2, <3>1
  <2> HIDE DEF S
  <2> QED
    BY <1>3, <2>1, <2>2, Steps
<1>7. Good(n) /\ f[n] \in Stores
  <2> HIDE DEF Good
  <2> QED
    BY <1>3, <1>6
<1> QED
  BY <1>2, <1>7 DEF Stores

\* The links of the free list that FreeList follows.
LEMMA FreeListLinks ==
    ASSUME BridgeAssumption, NEW t \in Tables
    PROVE  /\ FreeList(t) \in [Slots -> Slots]
           /\ FreeList(t)[0] = t.first
           /\ \A i \in 1..(MaxSlots - 1) :
                 FreeList(t)[i] = IF FreeList(t)[i - 1] = 0 THEN 0
                                  ELSE t.next[FreeList(t)[i - 1]]
<1> DEFINE n == MaxSlots - 1
           step == [i \in 1..n |-> [r \in Slots |-> IF r = 0 THEN 0 ELSE t.next[r]]]
           link[i \in Slots] ==
             IF i = 0 THEN t.first
             ELSE IF link[i - 1] = 0 THEN 0 ELSE t.next[link[i - 1]]
           head == t.first
<1>1. n \in Nat /\ Slots = 0..n /\ 0 \in Slots
  BY DEF Slots, BridgeAssumption
<1>2. head \in Slots /\ t.next \in [Slots -> Slots]
  BY DEF Tables
<1>3. step \in [1..n -> [Slots -> Slots]]
  BY <1>1, <1>2
<1>4. PICK g \in [0..n -> Slots] :
         g[0] = head /\ \A i \in 1..n : g[i] = step[i][g[i - 1]]
  <2> HIDE DEF n, step, link, head
  <2>1. n \in Nat
    BY <1>1
  <2>2. head \in Slots
    BY <1>2
  <2> QED
    BY ONLY <2>1, <2>2, <1>3, Iterated, SMTT(30)
<1>5. g = [i \in Slots |-> IF i = 0 THEN t.first
                           ELSE IF g[i - 1] = 0 THEN 0 ELSE t.next[g[i - 1]]]
  <2>1. ASSUME NEW i \in 0..n
        PROVE  g[i] = IF i = 0 THEN t.first
                      ELSE IF g[i - 1] = 0 THEN 0 ELSE t.next[g[i - 1]]
    <3>1. CASE i = 0
      BY <1>4, <3>1
    <3>2. CASE i # 0
      <4>1. i \in 1..n /\ i - 1 \in 0..n /\ g[i - 1] \in Slots
        BY <1>1, <3>2
      <4>2. g[i] = step[i][g[i - 1]]
        BY <1>4, <3>2
      <4> QED
        BY <3>2, <4>1, <4>2
    <3> QED
      BY <3>1, <3>2
  <2> HIDE DEF n
  <2> QED
    BY <1>1, <2>1
<1>6. link = [i \in Slots |-> IF i = 0 THEN t.first
                              ELSE IF link[i - 1] = 0 THEN 0 ELSE t.next[link[i - 1]]]
  BY <1>5, Zenon
<1>7. FreeList(t) = link
  BY DEF FreeList
<1> HIDE DEF link, n, step
<1>8. /\ link[0] = t.first
      /\ \A i \in 1..n : link[i] = IF link[i - 1] = 0 THEN 0 ELSE t.next[link[i - 1]]
  <2>1. \A i \in 1..n : i \in Slots /\ i # 0
    BY <1>1
  <2> QED
    BY <1>1, <1>6, <2>1
<1>9. link \in [Slots -> Slots]
  <2> DEFINE S == {i \in Nat : link[i] \in Slots}
  <2>1. 0 \in S
    BY <1>2, <1>8
  <2>2. ASSUME NEW i \in 1..n, i - 1 \in S
        PROVE  i \in S
    <3>1. link[i - 1] \in Slots
      BY <2>2
    <3>2. link[i] \in Slots
      BY <1>1, <1>2, <1>8, <3>1
    <3> QED
      BY <1>1, <3>2
  <2>3. \A i \in 0..n : i \in S
    <3> HIDE DEF S
    <3> QED BY <1>1, <2>1, <2>2, Steps
  <2> QED
    BY <1>1, <1>6, <2>3
<1> QED
  BY <1>7, <1>8, <1>9 DEF n

\* They name every free slot once, and no other.
LEMMA FreeListNames ==
    ASSUME BridgeAssumption, NEW t, NEW F, Free(t, F)
    PROVE  /\ \A i \in Slots : FreeList(t)[i] \in F \cup {0}
           /\ \A s \in F : \E i \in Slots : FreeList(t)[i] = s
           /\ \A i, j \in Slots :
                 FreeList(t)[i] = FreeList(t)[j] /\ FreeList(t)[i] # 0 => i = j
<1>1. t \in Tables /\ F \subseteq Slots \ {0}
  BY DEF Free
<1>2. PICK n \in Nat : \E p \in [0..n -> Slots] : Walk(t, F, n, p)
  BY DEF Free
<1>3. PICK p \in [0..n -> Slots] : Walk(t, F, n, p)
  BY <1>2
<1> DEFINE link == FreeList(t)
           m == MaxSlots - 1
<1>4. m \in Nat /\ Slots = 0..m
  BY DEF BridgeAssumption, Slots
<1>5. /\ link \in [Slots -> Slots] /\ link[0] = t.first
      /\ \A i \in 1..m : link[i] = IF link[i - 1] = 0 THEN 0 ELSE t.next[link[i - 1]]
  BY <1>1, FreeListLinks
<1>6. n <= m
  <2> DEFINE f == [i \in 1..n |-> p[i - 1]]
  <2>1. \A i \in 1..n : i - 1 \in 0..(n - 1)
    OBVIOUS
  <2>2. \A i \in 1..n : f[i] \in F /\ f[i] \in 1..m
    BY <1>1, <1>3, <1>4, <2>1 DEF Walk
  <2>3. ASSUME NEW i \in 1..n, NEW j \in 1..n, f[i] = f[j]
        PROVE  i = j
    <3>1. i - 1 = j - 1
      BY <1>3, <2>1, <2>3 DEF Walk
    <3> QED
      BY <3>1
  <2>4. f \in Injection(1..n, 1..m)
    <3>1. f \in [1..n -> 1..m]
      BY <2>2
    <3> HIDE DEF f
    <3> QED
      BY <2>3, <3>1 DEF Injection, IsInjective
  <2>5. IsFiniteSet(1..m) /\ Cardinality(1..m) = m /\ Cardinality(1..n) = n
    <3>1. m \in Nat
      BY <1>4
    <3>2. \A k \in Nat : IsFiniteSet(1..k)
      BY FS_Interval
    <3>3. \A k \in Nat : Cardinality(1..k) = k
      BY FS_Interval
    <3> HIDE DEF m, f
    <3> QED
      BY <3>1, <3>2, <3>3
  <2> HIDE DEF f, m
  <2> QED
    BY <2>4, <2>5, FS_Injection
<1> HIDE DEF link, m
<1> DEFINE S == {i \in Nat : IF i <= n THEN link[i] = p[i] ELSE link[i] = 0}
<1>7. \A i \in 0..m : i \in S
  <2>1. 0 \in S
    BY <1>3, <1>5 DEF Walk
  <2>2. ASSUME NEW i \in 1..m, i - 1 \in S
        PROVE  i \in S
    <3>0. i \in Nat
      BY <1>4
    <3>1. link[i] = IF link[i - 1] = 0 THEN 0 ELSE t.next[link[i - 1]]
      BY <1>5
    <3>2. CASE i <= n
      <4>1. i - 1 \in 0..(n - 1) /\ i - 1 <= n /\ (i - 1) + 1 = i
        BY <1>4, <3>2
      <4>2. link[i - 1] = p[i - 1]
        BY <2>2, <4>1
      <4>3. p[i - 1] \in F /\ p[i] = t.next[p[i - 1]]
        BY <1>3, <4>1 DEF Walk
      <4>4. link[i] = p[i]
        BY <1>1, <3>1, <4>2, <4>3
      <4> QED
        BY <3>1, <3>2, <4>4
    <3>3. CASE i > n
      <4>1. link[i - 1] = 0
        <5>1. CASE i - 1 = n
          BY <1>3, <2>2, <5>1 DEF Walk
        <5>2. CASE i - 1 # n
          BY <1>4, <2>2, <3>3, <5>2
        <5> QED
          BY <5>1, <5>2
      <4> QED
        BY <3>1, <3>3, <4>1
    <3> QED
      BY <1>4, <3>2, <3>3
  <2> HIDE DEF S
  <2> QED
    BY <1>4, <2>1, <2>2, Steps
<1>8. ASSUME NEW i \in Slots
      PROVE  \/ i \in 0..(n - 1) /\ link[i] = p[i] /\ link[i] \in F
             \/ link[i] = 0
  <2>1. i \in 0..m /\ i \in S
    BY <1>4, <1>7
  <2>2. CASE i < n
    <3>1. i \in 0..(n - 1) /\ link[i] = p[i]
      BY <2>1, <2>2
    <3> QED
      BY <1>3, <3>1 DEF Walk
  <2>3. CASE i >= n
    BY <1>3, <2>1, <2>3 DEF Walk
  <2> QED
    BY <2>1, <2>2, <2>3
<1>9. ASSUME NEW s \in F
      PROVE  \E i \in Slots : link[i] = s
  <2>1. PICK i \in 0..(n - 1) : p[i] = s
    BY <1>3 DEF Walk
  <2>2. i \in 0..m /\ i <= n
    BY <1>4, <1>6
  <2> QED
    BY <1>4, <1>7, <2>1, <2>2
<1>10. ASSUME NEW i \in Slots, NEW j \in Slots, link[i] = link[j], link[i] # 0
       PROVE  i = j
  <2>1. /\ i \in 0..(n - 1) /\ link[i] = p[i]
        /\ j \in 0..(n - 1) /\ link[j] = p[j]
    BY <1>8, <1>10
  <2>2. p[i] = p[j]
    BY <1>10, <2>1
  <2> QED
    BY <1>3, <2>1, <2>2 DEF Walk
<1> HIDE DEF S
<1> QED
  BY <1>8, <1>9, <1>10 DEF link

-----------------------------------------------------------------------------
(* Who names which slot *)

\* Whoever holds the handle of a slot, and which slot each of them names in the
\* present state.
Handles == {"argument", "this", "result", "lost", "permanent"} \X Nat \X Nat

Names(h, s) ==
    \/ /\ h[1] = "argument" /\ h[2] \in 1..Len(frames)
       /\ h[3] \in 1..Len(frames[h[2]].args) /\ frames[h[2]].args[h[3]] = s
    \/ h[1] = "this" /\ h[2] \in 1..Len(frames) /\ h[3] = 0 /\ frames[h[2]].this = s
    \/ h = <<"result", 0, 0>> /\ val = s
    \/ h = <<"lost", s, 0>> /\ s \in lostSlots
    \/ h = <<"permanent", s, 0>> /\ s \in Permanent

Naming == {x \in Handles \X (Slots \ {0}) : Names(x[1], x[2])}

\* Table t goes with the naming R: what R does not name is on the free list, and it
\* names nothing twice.
Used(R) == {s \in Slots : \E h \in Handles : <<h, s>> \in R}

Kept(t, R) ==
    /\ R \subseteq Handles \X (Slots \ {0})
    /\ Free(t, (Slots \ {0}) \ Used(R))
    /\ \A h, k \in Handles : \A s \in Slots : <<h, s>> \in R /\ <<k, s>> \in R => h = k

\* Storing a value under handle h.
LEMMA KeptStore ==
    ASSUME BridgeAssumption, NEW t, NEW R, Kept(t, R), NEW v \in Values, NEW h \in Handles,
           NEW s, s = Store(t, v).slot, NEW u, u = Store(t, v).table
    PROVE  /\ s \in Slots /\ s \notin Used(R)
           /\ s = 0 => Kept(u, R)
           /\ s # 0 => Kept(u, R \cup {<<h, s>>})
           /\ u \in Tables
           /\ \A r \in Slots : u.value[r] = IF r = s /\ s # 0 THEN v ELSE t.value[r]
<1> DEFINE F == (Slots \ {0}) \ Used(R)
<1>1. Free(t, F) /\ t \in Tables
  BY DEF Kept, Free
<1>2. /\ u \in Tables
      /\ \/ F = {} /\ s = 0 /\ u = t
         \/ s \in F /\ Free(u, F \ {s}) /\ u.value = [t.value EXCEPT ![s] = v]
  <2> HIDE DEF F
  <2> QED
    BY <1>1, StoreTakes
<1>3. 0 \notin Used(R) /\ 0 \in Slots
  <2>1. 0 \in Slots
    BY DEF Slots, BridgeAssumption
  <2> QED
    BY <2>1 DEF Kept, Used
<1>4. t.value \in [Slots -> Values]
  BY <1>1 DEF Tables
<1>5. CASE s = 0
  <2>1. u = t
    BY <1>2, <1>5
  <2> QED
    BY <1>2, <1>3, <1>5, <2>1
<1>6. CASE s # 0
  <2>1. s \in F /\ Free(u, F \ {s}) /\ u.value = [t.value EXCEPT ![s] = v]
    BY <1>2, <1>6
  <2>2. /\ R \subseteq Handles \X (Slots \ {0})
        /\ \A g, k \in Handles : \A r \in Slots : <<g, r>> \in R /\ <<k, r>> \in R => g = k
    BY DEF Kept
  <2>3. \A g \in Handles : <<g, s>> \notin R
    BY <2>1 DEF Used
  <2>4. F \ {s} = (Slots \ {0}) \ Used(R \cup {<<h, s>>})
    BY DEF Used
  <2>5. R \cup {<<h, s>>} \subseteq Handles \X (Slots \ {0})
    BY <2>1, <2>2
  <2>6. Free(u, (Slots \ {0}) \ Used(R \cup {<<h, s>>}))
    BY <2>1, <2>4, Zenon
  <2>7. ASSUME NEW g \in Handles, NEW k \in Handles, NEW r \in Slots,
               <<g, r>> \in R \cup {<<h, s>>}, <<k, r>> \in R \cup {<<h, s>>}
        PROVE  g = k
    BY <2>2, <2>3, <2>7
  <2>8. Kept(u, R \cup {<<h, s>>})
    BY <2>5, <2>6, <2>7 DEF Kept
  <2>9. \A r \in Slots : u.value[r] = IF r = s /\ s # 0 THEN v ELSE t.value[r]
    BY <1>4, <1>6, <2>1
  <2> QED
    BY <1>2, <1>6, <2>1, <2>8, <2>9
<1> QED
  BY <1>5, <1>6

\* Freeing the slot that handle h names.
LEMMA KeptFree ==
    ASSUME BridgeAssumption, NEW t, NEW R, Kept(t, R), NEW s \in Slots, NEW h \in Handles,
           s # 0 => <<h, s>> \in R, NEW u, u = FreeValue(t, s)
    PROVE  /\ Kept(u, R \ {<<h, s>>})
           /\ u \in Tables
           /\ \A r \in Slots : u.value[r] = IF r = s /\ s # 0 THEN "undefined" ELSE t.value[r]
<1> DEFINE F == (Slots \ {0}) \ Used(R)
<1>1. Free(t, F) /\ t \in Tables /\ t.value \in [Slots -> Values]
  BY DEF Kept, Free, Tables
<1>2. u \in Tables
  BY <1>1, FreeType
<1>3. CASE s = 0
  <2>1. u = t
    BY <1>3 DEF FreeValue
  <2>2. R \ {<<h, s>>} = R
    BY <1>3 DEF Kept
  <2> QED
    BY <1>2, <1>3, <2>1, <2>2
<1>4. CASE s # 0
  <2>1. /\ Free(u, F \cup {s})
        /\ u.value = [t.value EXCEPT ![s] = "undefined"]
    <3>1. s \in Slots \ F
      BY <1>4 DEF Used
    <3> HIDE DEF F
    <3> QED
      BY <1>1, <1>4, <3>1, FreeGives
  <2>2. /\ R \subseteq Handles \X (Slots \ {0})
        /\ \A g, k \in Handles : \A r \in Slots : <<g, r>> \in R /\ <<k, r>> \in R => g = k
    BY DEF Kept
  <2>3. F \cup {s} = (Slots \ {0}) \ Used(R \ {<<h, s>>})
    <3>1. \A g \in Handles : <<g, s>> \in R => g = h
      BY <1>4, <2>2
    <3>2. \A g \in Handles, r \in Slots : <<g, r>> \in R \ {<<h, s>>} <=> <<g, r>> \in R /\ r # s
      BY <3>1
    <3> QED
      BY <1>4, <3>2 DEF Used
  <2>4. Free(u, (Slots \ {0}) \ Used(R \ {<<h, s>>}))
    BY <2>1, <2>3, Zenon
  <2>5. Kept(u, R \ {<<h, s>>})
    BY <2>2, <2>4 DEF Kept
  <2>6. \A r \in Slots : u.value[r] = IF r = s /\ s # 0 THEN "undefined" ELSE t.value[r]
    BY <1>1, <1>4, <2>1
  <2> QED
    BY <1>2, <2>5, <2>6
<1> QED
  BY <1>3, <1>4

\* The arguments ss of host call d.
Arguments(d, ss) ==
    {x \in Handles \X (Slots \ {0}) :
        /\ x[1][1] = "argument" /\ x[1][2] = d
        /\ x[1][3] \in 1..Len(ss) /\ ss[x[1][3]] = x[2]}

LEMMA ArgumentsNamed ==
    ASSUME NEW d \in Nat, NEW ss \in Seq(Slots)
    PROVE  /\ Named(ss, Len(ss)) = Used(Arguments(d, ss))
           /\ \A h \in Handles, s \in Slots :
                 <<h, s>> \in Arguments(d, ss) <=>
                    s # 0 /\ \E i \in 1..Len(ss) : h = <<"argument", d, i>> /\ ss[i] = s
<1>1. ASSUME NEW h \in Handles
      PROVE  h = <<h[1], h[2], h[3]>>
  BY DEF Handles
<1>2. Len(ss) \in Nat
  OBVIOUS
<1>3. \A i \in 1..Len(ss) : <<"argument", d, i>> \in Handles
  BY <1>2 DEF Handles
<1>4. ASSUME NEW h \in Handles, NEW s \in Slots
      PROVE  <<h, s>> \in Arguments(d, ss) <=>
                s # 0 /\ \E i \in 1..Len(ss) : h = <<"argument", d, i>> /\ ss[i] = s
  <2>1. ASSUME <<h, s>> \in Arguments(d, ss)
        PROVE  s # 0 /\ \E i \in 1..Len(ss) : h = <<"argument", d, i>> /\ ss[i] = s
    <3>1. /\ s # 0 /\ h[1] = "argument" /\ h[2] = d
          /\ h[3] \in 1..Len(ss) /\ ss[h[3]] = s
      BY <2>1 DEF Arguments
    <3>2. h = <<"argument", d, h[3]>>
      BY <1>1, <3>1
    <3> QED
      BY <3>1, <3>2
  <2>2. ASSUME s # 0, NEW i \in 1..Len(ss), h = <<"argument", d, i>>, ss[i] = s
        PROVE  <<h, s>> \in Arguments(d, ss)
    BY <2>2 DEF Arguments
  <2> QED
    BY <2>1, <2>2
<1>5. ASSUME NEW s \in Named(ss, Len(ss))
      PROVE  s \in Used(Arguments(d, ss))
  <2>1. s \in Slots /\ s # 0
    BY DEF Named
  <2>2. PICK i \in 1..Len(ss) : ss[i] = s
    BY DEF Named
  <2>3. <<<<"argument", d, i>>, s>> \in Arguments(d, ss)
    BY <1>3, <1>4, <2>1, <2>2
  <2> QED
    BY <1>3, <2>1, <2>3 DEF Used
<1>6. ASSUME NEW s \in Used(Arguments(d, ss))
      PROVE  s \in Named(ss, Len(ss))
  BY <1>4 DEF Used, Named
<1> QED
  BY <1>4, <1>5, <1>6

\* Storing the arguments of a host call.
LEMMA KeptStoreAll ==
    ASSUME BridgeAssumption, NEW t, NEW R, Kept(t, R), NEW vs \in Seq(Values), NEW d \in Nat,
           NEW r, r = StoreAll(t, vs)
    PROVE  /\ r.slots \in Seq(Slots) /\ Len(r.slots) = Len(vs)
           /\ r.table \in Tables
           /\ Kept(r.table, R \cup Arguments(d, r.slots))
<1> DEFINE F == (Slots \ {0}) \ Used(R)
           A == Arguments(d, r.slots)
           N == Named(r.slots, Len(vs))
<1>1. Free(t, F)
  BY DEF Kept
<1>2. /\ r.table \in Tables /\ r.slots \in Seq(Slots) /\ Len(r.slots) = Len(vs)
      /\ Apart(r.slots) /\ N \subseteq F /\ Free(r.table, F \ N)
  <2> HIDE DEF F
  <2> QED
    BY <1>1, StoreAllTakes
<1>3. /\ N = Used(A)
      /\ \A h \in Handles, s \in Slots :
            <<h, s>> \in A <=>
               s # 0 /\ \E i \in 1..Len(r.slots) : h = <<"argument", d, i>> /\ r.slots[i] = s
  BY <1>2, ArgumentsNamed
<1>4. A \subseteq Handles \X (Slots \ {0})
  BY DEF Arguments
<1> HIDE DEF A, N
<1>5. F \ N = (Slots \ {0}) \ Used(R \cup A)
  BY <1>3 DEF Used
<1>6. ASSUME NEW g \in Handles, NEW k \in Handles, NEW s \in Slots,
             <<g, s>> \in R \cup A, <<k, s>> \in R \cup A
      PROVE  g = k
  <2>1. CASE <<g, s>> \in R /\ <<k, s>> \in R
    BY <2>1 DEF Kept
  <2>2. CASE <<g, s>> \in A /\ <<k, s>> \in A
    <3>1. PICK i \in 1..Len(r.slots) : g = <<"argument", d, i>> /\ r.slots[i] = s
      BY <1>3, <2>2
    <3>2. PICK j \in 1..Len(r.slots) : k = <<"argument", d, j>> /\ r.slots[j] = s
      BY <1>3, <2>2
    <3>3. s # 0
      BY <1>3, <2>2
    <3>4. i = j
      BY <1>2, <3>1, <3>2, <3>3 DEF Apart
    <3> QED
      BY <3>1, <3>2, <3>4
  <2>3. CASE (<<g, s>> \in R /\ <<k, s>> \in A) \/ (<<g, s>> \in A /\ <<k, s>> \in R)
    <3>1. s \in Used(R) /\ s \in Used(A)
      BY <2>3 DEF Used
    <3> QED
      BY <1>2, <1>3, <3>1
  <2>4. (<<g, s>> \in R \/ <<g, s>> \in A) /\ (<<k, s>> \in R \/ <<k, s>> \in A)
    BY <1>6
  <2> QED
    BY <2>1, <2>2, <2>3, <2>4
<1>7. Free(r.table, (Slots \ {0}) \ Used(R \cup A))
  BY <1>2, <1>5, Zenon
<1>8. R \cup A \subseteq Handles \X (Slots \ {0})
  BY <1>4 DEF Kept
<1>9. Kept(r.table, R \cup A)
  BY <1>6, <1>7, <1>8 DEF Kept
<1> QED
  BY <1>2, <1>9 DEF A

\* Freeing them again.
LEMMA KeptFreeAll ==
    ASSUME BridgeAssumption, NEW t, NEW R, Kept(t, R), NEW ss \in Seq(Slots), NEW d \in Nat,
           Arguments(d, ss) \subseteq R
    PROVE  /\ Kept(FreeAll(t, ss), R \ Arguments(d, ss))
           /\ \A h \in Handles, s \in Slots : <<h, s>> \in R \ Arguments(d, ss) =>
                 FreeAll(t, ss).value[s] = t.value[s]
<1> DEFINE F == (Slots \ {0}) \ Used(R)
           A == Arguments(d, ss)
           N == Named(ss, Len(ss))
<1>1. /\ Free(t, F) /\ R \subseteq Handles \X (Slots \ {0})
      /\ \A h, k \in Handles : \A s \in Slots : <<h, s>> \in R /\ <<k, s>> \in R => h = k
  BY DEF Kept
<1>2. /\ N = Used(A)
      /\ \A h \in Handles, s \in Slots :
            <<h, s>> \in A <=>
               s # 0 /\ \E i \in 1..Len(ss) : h = <<"argument", d, i>> /\ ss[i] = s
  BY ArgumentsNamed
<1>3. /\ A \subseteq R /\ Len(ss) \in Nat /\ \A i \in 1..Len(ss) : ss[i] \in Slots
      /\ \A i \in 1..Len(ss) : <<"argument", d, i>> \in Handles
  BY DEF Handles
<1> HIDE DEF A
<1>4. ASSUME NEW i \in 1..Len(ss), NEW j \in 1..Len(ss), ss[i] = ss[j], ss[i] # 0
      PROVE  i = j
  <2>1. <<<<"argument", d, i>>, ss[i]>> \in A
    BY <1>2, <1>3, <1>4
  <2>2. <<<<"argument", d, j>>, ss[i]>> \in A
    BY <1>2, <1>3, <1>4
  <2>3. <<"argument", d, i>> = <<"argument", d, j>>
    BY <1>1, <1>3, <2>1, <2>2
  <2> QED
    BY <2>3
<1>5. ASSUME NEW i \in 1..Len(ss)
      PROVE  ss[i] \notin F
  <2>1. ss[i] # 0 => <<<<"argument", d, i>>, ss[i]>> \in A
    BY <1>2, <1>3
  <2> QED
    BY <1>3, <2>1 DEF Used
<1>6. /\ Free(FreeAll(t, ss), F \cup N)
      /\ \A s \in Slots \ N : FreeAll(t, ss).value[s] = t.value[s]
  <2>1. Apart(ss)
    BY <1>4 DEF Apart
  <2> HIDE DEF F
  <2> QED
    BY <1>1, <1>5, <2>1, FreeAllGives
<1> HIDE DEF N
<1>7. \A h \in Handles, s \in Slots : <<h, s>> \in R \ A <=> <<h, s>> \in R /\ s \notin N
  BY <1>1, <1>2, <1>3 DEF Used
<1>8. F \cup N = (Slots \ {0}) \ Used(R \ A)
  <2>1. N \subseteq Slots \ {0}
    BY DEF N, Named
  <2> QED
    BY <1>7, <2>1 DEF Used
<1>9. Free(FreeAll(t, ss), (Slots \ {0}) \ Used(R \ A))
  BY <1>6, <1>8, Zenon
<1>10. Kept(FreeAll(t, ss), R \ A)
  BY <1>1, <1>9 DEF Kept
<1> QED
  BY <1>6, <1>7, <1>10 DEF A

\* Accounted is what SlotsAccounted says by counting.
Accounted == Kept(table, Naming)

LEMMA AccountedAtMentions ==
    ASSUME BridgeAssumption, BridgeTypeOK, Accounted
    PROVE  SlotsAccounted
<1> DEFINE link == FreeList(table)
           F == (Slots \ {0}) \ Used(Naming)
<1>0. /\ \A s \in Slots \ {0} : s \in Used(Naming) <=> \E h \in Handles : Names(h, s)
      /\ \A h, k \in Handles : \A s \in Slots \ {0} : Names(h, s) /\ Names(k, s) => h = k
  <2>1. \A h \in Handles, s \in Slots \ {0} : Names(h, s) <=> <<h, s>> \in Naming
    BY DEF Naming
  <2>2. \A h, k \in Handles : \A s \in Slots : <<h, s>> \in Naming /\ <<k, s>> \in Naming => h = k
    BY DEF Accounted, Kept
  <2> QED
    BY <2>1, <2>2 DEF Used
<1>1. /\ \A i \in Slots : link[i] \in F \cup {0}
      /\ \A s \in F : \E i \in Slots : link[i] = s
      /\ \A i, j \in Slots : link[i] = link[j] /\ link[i] # 0 => i = j
  BY FreeListNames DEF Accounted, Kept
<1>2. /\ Slots \subseteq Nat /\ Permanent \subseteq Slots \ {0} /\ lostSlots \subseteq Slots \ {0}
      /\ Len(frames) \in Nat
      /\ \A i \in 1..Len(frames) : Len(frames[i].args) \in Nat
  <2>1. Slots \subseteq Nat /\ Permanent \subseteq Slots \ {0} /\ lostSlots \subseteq Slots \ {0}
    BY DEF BridgeAssumption, Slots, Permanent, BridgeTypeOK
  <2>2. frames \in Seq([args: Seq(Slots), this: Slots])
    BY DEF BridgeTypeOK
  <2>3. ASSUME NEW i \in 1..Len(frames)
        PROVE  Len(frames[i].args) \in Nat
    <3> DEFINE Frames == [args: Seq(Slots), this: Slots]
    <3>1. frames[i] \in Frames
      <4>1. frames \in Seq(Frames)
        BY <2>2
      <4> HIDE DEF Frames
      <4> QED
        BY <4>1, ElementOfSeq
    <3> QED
      BY <3>1
  <2> QED
    BY <2>1, <2>2, <2>3
<1> HIDE DEF link
<1>3. ASSUME NEW p \in Mentions, NEW s \in Slots \ {0}, SlotAt(p, link) = s
      PROVE  \/ p \in Handles /\ Names(p, s)
             \/ \E i \in Slots : p = <<"free", i, 0>> /\ link[i] = s
  <2>1. CASE p \in {"free"} \X Slots \X {0}
    BY <1>3, <2>1 DEF SlotAt
  <2>2. CASE p \in (UNION {{"argument"} \X {i} \X (1..Len(frames[i].args)) : i \in DOMAIN frames})
    <3>1. PICK i \in DOMAIN frames : p \in {"argument"} \X {i} \X (1..Len(frames[i].args))
      BY <2>2
    <3>2. i \in 1..Len(frames)
      BY DEF BridgeTypeOK
    <3>3. p[1] = "argument" /\ p[2] = i /\ p[3] \in 1..Len(frames[i].args) /\ p = <<p[1], p[2], p[3]>>
      BY <3>1
    <3>4. p \in Handles
      BY <1>2, <3>2, <3>3, SMTT(30) DEF Handles
    <3> QED
      BY <1>3, <3>2, <3>3, <3>4 DEF SlotAt, Names
  <2>3. CASE p \in {"this"} \X (1..Len(frames)) \X {0}
    BY <1>2, <1>3, <2>3 DEF SlotAt, Names, Handles
  <2>4. CASE p = <<"result", 0, 0>>
    BY <1>3, <2>4 DEF SlotAt, Names, Handles
  <2>5. CASE p \in {"lost"} \X lostSlots \X {0}
    BY <1>2, <1>3, <2>5 DEF SlotAt, Names, Handles
  <2>6. CASE p \in {"permanent"} \X Permanent \X {0}
    BY <1>2, <1>3, <2>6 DEF SlotAt, Names, Handles
  <2> QED
    BY <2>1, <2>2, <2>3, <2>4, <2>5, <2>6 DEF Mentions
<1>4. ASSUME NEW h \in Handles, NEW s \in Slots \ {0}, Names(h, s)
      PROVE  h \in Mentions /\ SlotAt(h, link) = s
  <2>1. h = <<h[1], h[2], h[3]>>
    BY DEF Handles
  <2>2. CASE h[1] = "argument"
    <3>1. /\ h[2] \in DOMAIN frames /\ h[3] \in 1..Len(frames[h[2]].args)
          /\ frames[h[2]].args[h[3]] = s
      BY <1>4, <2>2 DEF Names, BridgeTypeOK
    <3>2. h \in {"argument"} \X {h[2]} \X (1..Len(frames[h[2]].args))
      BY <2>1, <2>2, <3>1
    <3>3. h \in Mentions
      BY <3>1, <3>2 DEF Mentions
    <3> QED
      BY <2>2, <3>1, <3>3 DEF SlotAt
  <2>3. CASE h[1] = "this"
    BY <1>4, <2>1, <2>3 DEF Names, Mentions, SlotAt
  <2>4. CASE h[1] \in {"result", "lost", "permanent"}
    BY <1>4, <2>4 DEF Names, Mentions, SlotAt
  <2> QED
    BY <2>2, <2>3, <2>4 DEF Handles
<1>5. ASSUME NEW s \in Slots \ {0}
      PROVE  Cardinality({p \in Mentions : SlotAt(p, link) = s}) = 1
  <2> SUFFICES ASSUME TRUE
               PROVE  \E x : {p \in Mentions : SlotAt(p, link) = s} = {x}
    BY FS_Singleton
  <2>1. CASE s \in F
    <3>1. PICK i \in Slots : link[i] = s
      BY <1>1, <2>1
    <3>2. <<"free", i, 0>> \in Mentions /\ SlotAt(<<"free", i, 0>>, link) = s
      BY <3>1 DEF Mentions, SlotAt
    <3>3. ASSUME NEW p \in Mentions, SlotAt(p, link) = s
          PROVE  p = <<"free", i, 0>>
      BY <1>0, <1>1, <1>3, <2>1, <3>1, <3>3
    <3> QED
      BY <3>2, <3>3
  <2>2. CASE s \notin F
    <3>1. PICK h \in Handles : Names(h, s)
      BY <1>0, <2>2
    <3>2. h \in Mentions /\ SlotAt(h, link) = s
      BY <1>4, <3>1
    <3>3. ASSUME NEW p \in Mentions, SlotAt(p, link) = s
          PROVE  p = h
      BY <1>0, <1>1, <1>3, <2>2, <3>1, <3>3
    <3> QED
      BY <3>2, <3>3
  <2> QED
    BY <2>1, <2>2
<1> QED
  BY <1>5 DEF SlotsAccounted, link

-----------------------------------------------------------------------------
(* The inductive invariant *)

\* An instance as newInstance leaves it names the permanent slots and no other.
Forever ==
    {x \in Handles \X (Slots \ {0}) : x[2] \in Permanent /\ x[1] = <<"permanent", x[2], 0>>}

LEMMA BuiltStores ==
    ASSUME BridgeAssumption
    PROVE  Built \in Tables /\ Free(Built, (Slots \ {0}) \ Permanent)
<1> DEFINE vs == [i \in Permanent |-> "value"]
           n == MaxSlots - 1
           r == StoreAll(NewTable, vs)
           way == [i \in 0..n |-> IF i < n THEN i + 1 ELSE 0]
<1>1. n \in Nat /\ n > 4 /\ Slots = 0..n /\ Permanent = 1..4
  BY DEF BridgeAssumption, Slots, Permanent
<1>2. NewTable \in Tables
  <2>1. "undefined" \in Values
    BY DEF Values
  <2> HIDE DEF n
  <2>2. \A s \in Slots : (IF s = n THEN 0 ELSE s + 1) \in Slots
    BY <1>1
  <2>3. 1 \in Slots
    BY <1>1
  <2> QED
    BY <2>1, <2>2, <2>3 DEF NewTable, Tables, n
<1>3. Free(NewTable, Slots \ {0})
  <2>1. /\ NewTable.first = 1
        /\ \A s \in Slots : NewTable.next[s] = IF s = n THEN 0 ELSE s + 1
    BY DEF NewTable
  <2> HIDE DEF n
  <2>2. way \in [0..n -> Slots]
    BY <1>1
  <2>3. way[0] = 1 /\ way[n] = 0 /\ \A i \in 0..(n - 1) : way[i] = i + 1
    BY <1>1
  <2>4. \A i \in 0..(n - 1) : way[i + 1] = IF i + 1 = n THEN 0 ELSE i + 2
    BY <1>1
  <2> HIDE DEF way
  <2>5. ASSUME NEW i \in 0..(n - 1)
        PROVE  way[i] \in Slots \ {0} /\ way[i + 1] = NewTable.next[way[i]]
    <3>1. i + 1 \in Slots \ {0} /\ way[i] = i + 1
      BY <1>1, <2>3
    <3> QED
      BY <1>1, <2>1, <2>4, <3>1
  <2>6. ASSUME NEW s \in Slots \ {0}
        PROVE  \E i \in 0..(n - 1) : way[i] = s
    <3>1. s - 1 \in 0..(n - 1) /\ (s - 1) + 1 = s
      BY <1>1
    <3> QED
      BY <2>3, <3>1
  <2>7. \A i, j \in 0..(n - 1) : way[i] = way[j] => i = j
    BY <1>1, <2>3
  <2>8. Walk(NewTable, Slots \ {0}, n, way)
    BY <2>1, <2>3, <2>5, <2>6, <2>7 DEF Walk
  <2> QED
    BY <1>1, <1>2, <2>2, <2>8 DEF Free
<1>4. vs \in Seq(Values) /\ Len(vs) = 4 /\ \A i \in 1..4 : vs[i] = "value"
  BY <1>1 DEF Values
<1> HIDE DEF vs
<1>5. PICK f \in [0..Len(vs) -> Stores] :
         /\ f[0] = [table |-> NewTable, slots |-> <<>>]
         /\ \A i \in 1..Len(vs) : f[i] = Stored(f[i - 1], vs[i])
         /\ StoreAll(NewTable, vs) = f[Len(vs)]
  BY <1>2, <1>4, StoreAllSteps
<1> DEFINE Good(i) ==
             /\ f[i].table.first = i + 1
             /\ \A s \in Slots : s > i => f[i].table.next[s] = IF s = n THEN 0 ELSE s + 1
             /\ Len(f[i].slots) = i
             /\ \A k \in 1..i : f[i].slots[k] = k
           S == {i \in Nat : Good(i)}
<1>6. Good(0)
  BY <1>5 DEF NewTable
<1>7. ASSUME NEW i \in 1..4, Good(i - 1)
      PROVE  Good(i)
  <2> DEFINE u == f[i - 1].table
             ss == f[i - 1].slots
  <2>1. u \in Tables /\ ss \in Seq(Slots) /\ i \in Slots /\ i # 0 /\ i # n /\ i \in Nat
    BY <1>1, <1>4, <1>5, SMTT(30) DEF Stores
  <2>2. u.first = i /\ u.next[i] = i + 1
    <3>1. (i - 1) + 1 = i /\ i > i - 1
      BY <2>1
    <3>2. u.first = (i - 1) + 1
      BY <1>7
    <3>3. \A s \in Slots : s > i - 1 => u.next[s] = IF s = n THEN 0 ELSE s + 1
      BY <1>7
    <3> HIDE DEF u, n
    <3> QED
      BY <2>1, <3>1, <3>2, <3>3
  <2>3. f[i].table = Store(u, vs[i]).table /\ f[i].slots = Append(ss, Store(u, vs[i]).slot)
    BY <1>4, <1>5, SMTT(30) DEF Stored
  <2>4. /\ Store(u, vs[i]).slot = i
        /\ Store(u, vs[i]).table.first = i + 1
        /\ Store(u, vs[i]).table.next = [u.next EXCEPT ![i] = 0]
    BY <2>1, <2>2 DEF Store
  <2>5. ASSUME NEW s \in Slots, s > i
        PROVE  f[i].table.next[s] = IF s = n THEN 0 ELSE s + 1
    <3>1. u.next[s] = IF s = n THEN 0 ELSE s + 1
      BY <1>1, <1>7, <2>1, <2>5, SMTT(30)
    <3>2. u.next \in [Slots -> Slots]
      BY <2>1 DEF Tables
    <3> HIDE DEF u
    <3> QED
      BY <2>1, <2>3, <2>4, <2>5, <3>1, <3>2, SMTT(30)
  <2>6. Len(f[i].slots) = i /\ \A k \in 1..i : f[i].slots[k] = k
    <3>1. Len(ss) = i - 1 /\ \A k \in 1..(i - 1) : ss[k] = k
      BY <1>7
    <3>2. f[i].slots = Append(ss, i)
      BY <2>3, <2>4
    <3> HIDE DEF ss, u
    <3> QED
      BY <2>1, <3>1, <3>2
  <2> QED
    BY <2>3, <2>4, <2>5, <2>6
<1>8. Good(4)
  <2>1. 0 \in S
    BY <1>6
  <2>2. ASSUME NEW i \in 1..4, i - 1 \in S
        PROVE  i \in S
    <3> HIDE DEF Good
    <3> QED
      BY <1>7, <2>2
  <2> HIDE DEF S
  <2>3. 4 \in S
    BY <2>1, <2>2, Steps
  <2> USE DEF S
  <2> HIDE DEF Good
  <2> QED
    BY <2>3
<1>9. Named(r.slots, 4) = Permanent
  <2>1. r.slots = f[4].slots
    BY <1>4, <1>5
  <2> QED
    BY <1>1, <1>8, <2>1, SMTT(30) DEF Named
<1>10. /\ r.table \in Tables
       /\ Free(r.table, (Slots \ {0}) \ Named(r.slots, 4))
  BY <1>3, <1>4, StoreAllTakes
<1> QED
  BY <1>9, <1>10 DEF Built, vs

LEMMA BuiltKept ==
    ASSUME BridgeAssumption
    PROVE  Kept(Built, Forever)
<1>1. \A s \in Permanent : s \in Slots \ {0} /\ <<"permanent", s, 0>> \in Handles
  BY DEF BridgeAssumption, Slots, Permanent, Handles
<1>2. \A h \in Handles, s \in Slots :
         <<h, s>> \in Forever <=> s \in Permanent /\ h = <<"permanent", s, 0>>
  BY <1>1 DEF Forever
<1>3. (Slots \ {0}) \ Permanent = (Slots \ {0}) \ Used(Forever)
  BY <1>1, <1>2 DEF Used
<1>4. Free(Built, (Slots \ {0}) \ Used(Forever))
  BY <1>3, BuiltStores, Zenon
<1> QED
  BY <1>2, <1>4 DEF Kept, Forever

\* A naming is known by its pairs.
LEMMA SamePairs ==
    ASSUME NEW X, NEW Y,
           X \subseteq Handles \X (Slots \ {0}), Y \subseteq Handles \X (Slots \ {0}),
           \A h \in Handles, s \in Slots \ {0} : <<h, s>> \in X <=> <<h, s>> \in Y
    PROVE  X = Y
<1>1. \A x \in Handles \X (Slots \ {0}) : \E h \in Handles, s \in Slots \ {0} : x = <<h, s>>
  OBVIOUS
<1> QED
  BY <1>1

Calls == [args: Seq(Slots), this: Slots]

LEMMA CallFields ==
    ASSUME NEW fs \in Seq(Calls), NEW i \in 1..Len(fs)
    PROVE  /\ fs[i] \in Calls
           /\ fs[i].args \in Seq(Slots) /\ Len(fs[i].args) \in Nat
           /\ fs[i].this \in Slots
<1>1. fs[i] \in Calls
  BY ElementOfSeq
<1> QED
  BY <1>1 DEF Calls

\* go_callback_wrapper and Function.Call: the handles of a new call.
LEMMA CallGoKeeps ==
    ASSUME BridgeAssumption, BridgeTypeOK, Accounted, NEW n \in 0..MaxArgs, CallGo(n)
    PROVE  Accounted' /\ table' \in Tables /\ frames' \in Seq(Calls)
<1> DEFINE d == Len(frames) + 1
           vs == [i \in 1..n |-> "value"]
           args == StoreAll(table, vs)
           this == Store(args.table, "undefined")
           A == Arguments(d, args.slots)
           h == <<"this", d, 0>>
           fr == [args |-> args.slots, this |-> this.slot]
           N == IF this.slot = 0 THEN Naming \cup A ELSE (Naming \cup A) \cup {<<h, this.slot>>}
<1>1. /\ frames \in Seq(Calls) /\ d \in Nat \ {0} /\ Len(frames) \in Nat /\ h \in Handles
      /\ vs \in Seq(Values) /\ "undefined" \in Values
  BY DEF BridgeTypeOK, Calls, Values, Handles, BridgeAssumption
<1>2. Kept(table, Naming)
  BY DEF Accounted
<1>3. table' = this.table /\ frames' = Append(frames, fr) /\ UNCHANGED <<val, lostSlots>>
  BY DEF CallGo
<1>4. /\ args.slots \in Seq(Slots) /\ Len(args.slots) \in Nat
      /\ Kept(args.table, Naming \cup A)
  <2>1. d \in Nat
    BY <1>1
  <2> HIDE DEF vs, d
  <2>2. /\ args.slots \in Seq(Slots)
        /\ Kept(args.table, Naming \cup A)
    BY <1>1, <1>2, <2>1, KeptStoreAll
  <2> HIDE DEF args
  <2> QED
    BY <2>2
<1> HIDE DEF args, vs
<1>5. /\ this.slot \in Slots /\ this.table \in Tables /\ Kept(this.table, N)
  <2> HIDE DEF A, h
  <2>1. /\ this.slot \in Slots /\ this.table \in Tables
        /\ this.slot = 0 => Kept(this.table, Naming \cup A)
        /\ this.slot # 0 => Kept(this.table, (Naming \cup A) \cup {<<h, this.slot>>})
    BY <1>1, <1>4, KeptStore, ZenonT(60)
  <2> HIDE DEF this
  <2> QED
    BY <2>1
<1> HIDE DEF this
<1>6. fr \in Calls /\ fr.args = args.slots /\ fr.this = this.slot
  BY <1>4, <1>5 DEF Calls
<1>7. /\ frames' \in Seq(Calls) /\ Len(frames') = d /\ frames'[d] = fr
      /\ \A i \in 1..Len(frames) : frames'[i] = frames[i]
  <2> HIDE DEF fr
  <2> QED
    BY <1>1, <1>3, <1>6, AppendProperties
<1> HIDE DEF fr
<1>8. \A i \in 1..d : i = d \/ i \in 1..Len(frames)
  BY <1>1
<1>9. d \in 1..d /\ d \notin 1..Len(frames) /\ \A i \in 1..Len(frames) : i \in 1..d
  BY <1>1
<1> HIDE DEF d
<1>10. ASSUME NEW g \in Handles, NEW s \in Slots \ {0}
       PROVE  <<g, s>> \in Naming' <=> <<g, s>> \in N
  <2>1. /\ <<g, s>> \in Naming' <=> Names(g, s)'
        /\ <<g, s>> \in Naming <=> Names(g, s)
    BY DEF Naming
  <2>2. <<g, s>> \in A <=>
          /\ g[1] = "argument" /\ g[2] = d
          /\ g[3] \in 1..Len(args.slots) /\ args.slots[g[3]] = s
    BY DEF Arguments
  <2>3. <<g, s>> \in N <=>
          \/ <<g, s>> \in Naming \/ <<g, s>> \in A
          \/ g = h /\ s = this.slot
    <3> HIDE DEF h, A
    <3> QED
      OBVIOUS
  <2>4. g = <<g[1], g[2], g[3]>>
    BY DEF Handles
  <2>5. g = h <=> g[1] = "this" /\ g[2] = d /\ g[3] = 0
    BY <2>4
  <2> HIDE DEF A, N, h
  <2>6. CASE g[1] = "argument"
    <3>1. Names(g, s)' <=> /\ g[2] \in 1..Len(frames')
                           /\ g[3] \in 1..Len(frames'[g[2]].args)
                           /\ frames'[g[2]].args[g[3]] = s
      BY <2>4, <2>6 DEF Names
    <3>2. Names(g, s) <=> /\ g[2] \in 1..Len(frames)
                          /\ g[3] \in 1..Len(frames[g[2]].args)
                          /\ frames[g[2]].args[g[3]] = s
      BY <2>4, <2>6 DEF Names
    <3>3. CASE g[2] = d
      BY <1>6, <1>7, <1>9, <2>1, <2>2, <2>3, <2>5, <2>6, <3>1, <3>2, <3>3
    <3>4. CASE g[2] # d
      BY <1>7, <1>8, <1>9, <2>1, <2>2, <2>3, <2>5, <2>6, <3>1, <3>2, <3>4
    <3> QED
      BY <3>3, <3>4
  <2>7. CASE g[1] = "this"
    <3>1. Names(g, s)' <=> g[2] \in 1..Len(frames') /\ g[3] = 0 /\ frames'[g[2]].this = s
      BY <2>4, <2>7 DEF Names
    <3>2. Names(g, s) <=> g[2] \in 1..Len(frames) /\ g[3] = 0 /\ frames[g[2]].this = s
      BY <2>4, <2>7 DEF Names
    <3>3. CASE g[2] = d
      BY <1>6, <1>7, <1>9, <2>1, <2>2, <2>3, <2>5, <2>7, <3>1, <3>2, <3>3
    <3>4. CASE g[2] # d
      BY <1>7, <1>8, <1>9, <2>1, <2>2, <2>3, <2>5, <2>7, <3>1, <3>2, <3>4
    <3> QED
      BY <3>3, <3>4
  <2>8. CASE g[1] \notin {"argument", "this"}
    <3>1. Names(g, s)' <=> Names(g, s)
      BY <1>3, <2>8 DEF Names
    <3> QED
      BY <2>1, <2>2, <2>3, <2>5, <2>8, <3>1
  <2> QED
    BY <2>6, <2>7, <2>8
<1>11. Naming' \subseteq Handles \X (Slots \ {0})
  BY DEF Naming
<1>12. N \subseteq Handles \X (Slots \ {0})
  BY <1>5 DEF Kept
<1> HIDE DEF N
<1>13. Naming' = N
  BY <1>10, <1>11, <1>12, SamePairs
<1> QED
  BY <1>3, <1>5, <1>7, <1>13 DEF Accounted

\* The wrapper when the host function returns: the handles of the call are gone, and
\* the slot of an error it throws is lost.
LEMMA ReturnGoKeeps ==
    ASSUME BridgeAssumption, BridgeTypeOK, Accounted, NEW cut \in BOOLEAN, ReturnGo(cut)
    PROVE  /\ Accounted' /\ table' \in Tables
           /\ frames' \in Seq(Calls) /\ Len(frames') <= MaxDepth
           /\ unwinding' \in BOOLEAN /\ ranOut' \in BOOLEAN
           /\ lostSlots' \subseteq Slots \ {0}
           /\ Throws(Last(frames), cut) /\ ~ranOut' => unwinding'
<1> DEFINE d == Len(frames)
           f == Last(frames)
           throws == Throws(f, cut)
           v == IF throws THEN "exception" ELSE "undefined"
           result == Store(table, v)
           r == result.slot
           t == result.table
           thrown == <<"lost", r, 0>>
           this == <<"this", d, 0>>
           A == Arguments(d, f.args)
           R1 == IF r = 0 THEN Naming ELSE Naming \cup {<<thrown, r>>}
           R2 == R1 \ {<<this, f.this>>}
           R3 == R2 \ A
           u1 == FreeValue(t, f.this)
           u2 == FreeAll(u1, f.args)
           N == IF throws THEN R3 ELSE R3 \ {<<thrown, r>>}
<1>1. /\ frames \in Seq(Calls) /\ frames # <<>> /\ d \in Nat \ {0}
      /\ d <= MaxDepth /\ MaxDepth \in Nat /\ ranOut \in BOOLEAN /\ v \in Values
      /\ lostSlots \subseteq Slots \ {0}
  <2>1. frames \in Seq(Calls) /\ frames # <<>>
    BY DEF BridgeTypeOK, Calls, ReturnGo
  <2>2. d \in Nat \ {0}
    BY <2>1
  <2> QED
    BY <2>1, <2>2 DEF BridgeTypeOK, Values, BridgeAssumption
<1>2. /\ f = frames[d] /\ d \in 1..d
      /\ f.args \in Seq(Slots) /\ Len(f.args) \in Nat /\ f.this \in Slots
  <2>1. f = frames[d] /\ d \in 1..Len(frames)
    BY <1>1 DEF Last
  <2> QED
    BY <1>1, <2>1, CallFields
<1>3. /\ frames' = Front(frames)
      /\ table' = Freed(t, f, r)
      /\ unwinding' = (Load(table', r) = "exception")
      /\ lostSlots' = IF Load(table', r) = "exception" THEN lostSlots \cup {r} ELSE lostSlots
      /\ ranOut' = (ranOut \/ r = 0)
      /\ UNCHANGED val
  <2> HIDE DEF v
  <2> QED
    BY DEF ReturnGo, v
<1>4. Kept(table, Naming)
  BY DEF Accounted
<1>5. Slots \subseteq Nat /\ 0 \in Slots
  BY DEF Slots, BridgeAssumption
<1> HIDE DEF v
<1>6. /\ r \in Slots /\ r \notin Used(Naming)
      /\ t \in Tables /\ Kept(t, R1)
      /\ r # 0 => t.value[r] = v
  <2>1. ASSUME NEW h \in Handles
        PROVE  /\ r \in Slots /\ r \notin Used(Naming)
               /\ t \in Tables
               /\ r = 0 => Kept(t, Naming)
               /\ r # 0 => Kept(t, Naming \cup {<<h, r>>})
               /\ \A s \in Slots : t.value[s] = IF s = r /\ r # 0 THEN v ELSE table.value[s]
    <3> HIDE DEF result
    <3>1. r = Store(table, v).slot /\ t = Store(table, v).table
      BY DEF result
    <3>2. v \in Values /\ h \in Handles
      BY <1>1
    <3> HIDE DEF r, t
    <3> QED
      BY ONLY BridgeAssumption, <1>4, <3>1, <3>2, KeptStore
  <2>2. <<"result", 0, 0>> \in Handles
    BY DEF Handles
  <2>3. r \in Slots
    BY <2>1, <2>2
  <2>4. thrown \in Handles
    BY <1>5, <2>3 DEF Handles
  <2> HIDE DEF result, thrown
  <2> QED
    BY <2>1, <2>4
<1> HIDE DEF result
<1>7. thrown \in Handles /\ this \in Handles
  BY <1>1, <1>5, <1>6 DEF Handles
<1>8. /\ f.this # 0 => <<this, f.this>> \in Naming
      /\ \A g \in Handles, s \in Slots : <<g, s>> \in A => <<g, s>> \in Naming
  <2>1. f.this # 0 => Names(this, f.this)
    BY <1>2 DEF Names
  <2>2. ASSUME NEW i \in 1..Len(f.args), NEW s \in Slots, f.args[i] = s
        PROVE  Names(<<"argument", d, i>>, s)
    BY <1>2, <2>2 DEF Names
  <2>3. ASSUME NEW g \in Handles, NEW s \in Slots, <<g, s>> \in A
        PROVE  <<g, s>> \in Naming
    <3>1. <<g, s>> \in Arguments(d, f.args)
      BY <2>3
    <3>2. d \in Nat /\ f.args \in Seq(Slots)
      BY <1>1, <1>2
    <3> HIDE DEF f, d
    <3>3. s # 0 /\ \E i \in 1..Len(f.args) : g = <<"argument", d, i>> /\ f.args[i] = s
      BY ONLY <2>3, <3>1, <3>2, ArgumentsNamed
    <3> QED
      BY <2>2, <3>3 DEF Naming
  <2> QED
    BY <1>2, <1>7, <2>1, <2>3 DEF Naming
<1> HIDE DEF f, A
<1>9. Naming \subseteq Handles \X (Slots \ {0})
  BY DEF Naming
<1>10. \A s \in Slots : <<thrown, r>> # <<this, s>>
  BY DEF thrown, this
<1>11. <<thrown, r>> \notin A
  BY DEF A, Arguments
<1>12. r # f.this \/ r = 0
  BY <1>2, <1>6, <1>7, <1>8 DEF Used
<1>13. /\ Kept(u1, R2) /\ u1 \in Tables
       /\ r # 0 => u1.value[r] = v
  <2>1. f.this # 0 => <<this, f.this>> \in R1
    BY <1>8
  <2> HIDE DEF R1, this, t
  <2>2. /\ Kept(u1, R2) /\ u1 \in Tables
        /\ \A s \in Slots : u1.value[s] = IF s = f.this /\ f.this # 0 THEN "undefined" ELSE t.value[s]
    <3> DEFINE s == f.this
    <3>1. u1 = FreeValue(t, s) /\ s \in Slots
      BY <1>2
    <3>2. Kept(t, R1) /\ this \in Handles /\ (s # 0 => <<this, s>> \in R1)
      BY <1>6, <1>7, <2>1
    <3> HIDE DEF u1, s
    <3>3. /\ Kept(u1, R1 \ {<<this, s>>}) /\ u1 \in Tables
          /\ \A x \in Slots : u1.value[x] = IF x = s /\ s # 0 THEN "undefined" ELSE t.value[x]
      BY ONLY BridgeAssumption, <3>1, <3>2, KeptFree
    <3> QED
      BY <3>3 DEF s
  <2> HIDE DEF u1, r
  <2> QED
    BY <1>6, <1>12, <2>2
<1>14. /\ Kept(u2, R3) /\ u2 \in Tables
       /\ r # 0 => u2.value[r] = v
  <2>1. A \subseteq R2
    <3>1. A \subseteq Handles \X (Slots \ {0})
      BY DEF A, Arguments
    <3>2. \A g \in Handles, s \in Slots : <<g, s>> \in A => g[1] = "argument"
      BY DEF A, Arguments
    <3>3. this[1] # "argument"
      BY DEF this
    <3> HIDE DEF this, thrown
    <3> QED
      BY <1>7, <1>8, <3>1, <3>2, <3>3
  <2>2. r # 0 => <<thrown, r>> \in R2 \ A
    BY <1>2, <1>10, <1>11
  <2> HIDE DEF R2, u1
  <2>3. /\ Kept(u2, R2 \ A)
        /\ \A g \in Handles, s \in Slots : <<g, s>> \in R2 \ A => u2.value[s] = u1.value[s]
    <3> DEFINE ss == f.args
    <3>1. ss \in Seq(Slots) /\ d \in Nat /\ Kept(u1, R2) /\ Arguments(d, ss) \subseteq R2
      BY <1>1, <1>2, <1>13, <2>1 DEF A
    <3> HIDE DEF ss, d
    <3>2. /\ Kept(FreeAll(u1, ss), R2 \ Arguments(d, ss))
          /\ \A g \in Handles, s \in Slots : <<g, s>> \in R2 \ Arguments(d, ss) =>
                FreeAll(u1, ss).value[s] = u1.value[s]
      BY ONLY BridgeAssumption, <3>1, KeptFreeAll
    <3> QED
      BY <3>2 DEF A, ss
  <2>4. u2 \in Tables
    BY <2>3 DEF Kept, Free
  <2> HIDE DEF u2, thrown, r
  <2> QED
    BY <1>6, <1>7, <1>13, <2>2, <2>3, <2>4
<1> HIDE DEF u1, R2
<1>15. /\ table' = (IF throws THEN u2 ELSE FreeValue(u2, r))
       /\ Load(table', r) = (IF throws /\ r # 0 THEN "exception" ELSE "undefined")
  <2>1. Freed(t, f, r) = IF r # 0 /\ Load(u2, r) = "undefined" THEN FreeValue(u2, r) ELSE u2
    BY DEF Freed, u1
  <2>2. u2.value \in [Slots -> Values]
    BY <1>14 DEF Tables
  <2> HIDE DEF u2, r, throws
  <2>3. CASE r = 0
    BY <1>3, <2>1, <2>3 DEF FreeValue, Load
  <2>4. CASE r # 0 /\ throws
    <3>1. u2.value[r] = "exception"
      BY <1>14, <2>4 DEF v
    <3> QED
      BY <1>3, <2>1, <2>4, <3>1 DEF Load
  <2>5. CASE r # 0 /\ ~throws
    <3>1. u2.value[r] = "undefined"
      BY <1>14, <2>5 DEF v
    <3> QED
      BY <1>3, <1>6, <2>1, <2>2, <2>5, <3>1 DEF Load, FreeValue
  <2> QED
    BY <2>3, <2>4, <2>5
<1>16. Kept(table', N) /\ table' \in Tables
  <2>1. CASE throws
    BY <1>14, <1>15, <2>1
  <2>2. CASE ~throws
    <3>1. r # 0 => <<thrown, r>> \in R3
      BY <1>10, <1>11, <1>2 DEF R2
    <3> HIDE DEF R3, thrown, u2, r, throws
    <3>2. Kept(FreeValue(u2, r), R3 \ {<<thrown, r>>}) /\ FreeValue(u2, r) \in Tables
      BY <1>6, <1>7, <1>14, <3>1, KeptFree
    <3> QED
      BY <1>15, <2>2, <3>2
  <2> QED
    BY <2>1, <2>2
<1> HIDE DEF u2, r, throws, t
<1>17. lostSlots' = (IF throws /\ r # 0 THEN lostSlots \cup {r} ELSE lostSlots)
  BY <1>3, <1>15
<1>18. /\ frames' \in Seq(Calls) /\ Len(frames') = d - 1
       /\ \A i \in 1..(d - 1) : frames'[i] = frames[i]
  <2>1. frames' = SubSeq(frames, 1, d - 1)
    BY <1>3 DEF Front
  <2> DEFINE m == d - 1
  <2>2. \A i \in 1..m : frames[i] \in Calls
    BY <1>1, CallFields
  <2>3. m \in Int /\ 1 \in Int /\ m \in Nat
    BY <1>1
  <2> HIDE DEF m
  <2>4. /\ SubSeq(frames, 1, m) \in Seq(Calls)
        /\ Len(SubSeq(frames, 1, m)) = IF 1 <= m THEN m - 1 + 1 ELSE 0
        /\ \A i \in 1..(m - 1 + 1) : SubSeq(frames, 1, m)[i] = frames[1 + i - 1]
    BY ONLY <2>2, <2>3, SubSeqProperties
  <2>5. m - 1 + 1 = m /\ \A i \in 1..m : 1 + i - 1 = i
    BY <2>3
  <2>6. /\ SubSeq(frames, 1, m) \in Seq(Calls) /\ Len(SubSeq(frames, 1, m)) = m
        /\ \A i \in 1..m : SubSeq(frames, 1, m)[i] = frames[i]
    BY <2>3, <2>4, <2>5
  <2> QED
    BY <2>1, <2>6 DEF m
<1>19. /\ d \notin 1..(d - 1) /\ d \in 1..d
       /\ \A i \in 1..d : i = d \/ i \in 1..(d - 1)
       /\ \A i \in 1..(d - 1) : i \in 1..d
  BY <1>1
<1>20. Len(frames) = d
  OBVIOUS
<1> DEFINE e == d - 1
<1> HIDE DEF d, e
<1>21. ASSUME NEW g \in Handles, NEW s \in Slots \ {0}
       PROVE  <<g, s>> \in Naming' <=> <<g, s>> \in N
  <2>1. /\ <<g, s>> \in Naming' <=> Names(g, s)'
        /\ <<g, s>> \in Naming <=> Names(g, s)
    BY DEF Naming
  <2>2. <<g, s>> \in A <=>
          /\ g[1] = "argument" /\ g[2] = d
          /\ g[3] \in 1..Len(f.args) /\ f.args[g[3]] = s
    BY DEF A, Arguments
  <2>3. <<g, s>> \in N <=>
          \/ <<g, s>> \in Naming /\ <<g, s>> \notin A /\ ~(g = this /\ s = f.this)
          \/ throws /\ r # 0 /\ g = thrown /\ s = r
    <3>1. <<thrown, r>> \notin Naming
      BY <1>6, <1>7 DEF Used
    <3>2. thrown # this
      BY DEF thrown, this
    <3> HIDE DEF thrown, this
    <3> QED
      BY <1>11, <3>1, <3>2 DEF R2
  <2>4. g = <<g[1], g[2], g[3]>>
    BY DEF Handles
  <2>5. /\ g = this <=> g[1] = "this" /\ g[2] = d /\ g[3] = 0
        /\ g = thrown <=> g[1] = "lost" /\ g[2] = r /\ g[3] = 0
    BY <2>4 DEF this, thrown
  <2> HIDE DEF N, this, thrown
  <2>6. CASE g[1] = "argument"
    <3>1. Names(g, s)' <=> /\ g[2] \in 1..Len(frames')
                           /\ g[3] \in 1..Len(frames'[g[2]].args)
                           /\ frames'[g[2]].args[g[3]] = s
      BY <2>4, <2>6 DEF Names
    <3>2. Names(g, s) <=> /\ g[2] \in 1..Len(frames)
                          /\ g[3] \in 1..Len(frames[g[2]].args)
                          /\ frames[g[2]].args[g[3]] = s
      BY <2>4, <2>6 DEF Names
    <3>3. CASE g[2] = d
      BY <1>2, <1>18, <1>19, <1>20, <2>1, <2>2, <2>3, <2>5, <2>6, <3>1, <3>2, <3>3
    <3>4. CASE g[2] # d
      BY <1>18, <1>19, <1>20, <2>1, <2>2, <2>3, <2>5, <2>6, <3>1, <3>2, <3>4
    <3> QED
      BY <3>3, <3>4
  <2>7. CASE g[1] = "this"
    <3>1. Names(g, s)' <=> g[2] \in 1..Len(frames') /\ g[3] = 0 /\ frames'[g[2]].this = s
      BY <2>4, <2>7 DEF Names
    <3>2. Names(g, s) <=> g[2] \in 1..Len(frames) /\ g[3] = 0 /\ frames[g[2]].this = s
      BY <2>4, <2>7 DEF Names
    <3>3. CASE g[2] = d
      BY <1>2, <1>18, <1>19, <1>20, <2>1, <2>2, <2>3, <2>5, <2>7, <3>1, <3>2, <3>3
    <3>4. CASE g[2] # d
      BY <1>18, <1>19, <1>20, <2>1, <2>2, <2>3, <2>5, <2>7, <3>1, <3>2, <3>4
    <3> QED
      BY <3>3, <3>4
  <2>8. CASE g[1] = "lost"
    <3>1. Names(g, s)' <=> g[2] = s /\ g[3] = 0 /\ s \in lostSlots'
      BY <2>4, <2>8 DEF Names
    <3>2. Names(g, s) <=> g[2] = s /\ g[3] = 0 /\ s \in lostSlots
      BY <2>4, <2>8 DEF Names
    <3> QED
      BY <1>17, <2>1, <2>2, <2>3, <2>5, <2>8, <3>1, <3>2
  <2>9. CASE g[1] \notin {"argument", "this", "lost"}
    <3>1. Names(g, s)' <=> Names(g, s)
      BY <1>3, <2>9 DEF Names
    <3> QED
      BY <2>1, <2>2, <2>3, <2>5, <2>9, <3>1
  <2> QED
    BY <2>6, <2>7, <2>8, <2>9
<1>22. Naming' \subseteq Handles \X (Slots \ {0})
  BY DEF Naming
<1>23. N \subseteq Handles \X (Slots \ {0})
  BY <1>16 DEF Kept
<1> HIDE DEF N
<1>24. Naming' = N
  BY <1>21, <1>22, <1>23, SamePairs
<1>25. Len(frames') <= MaxDepth
  BY <1>1, <1>18
<1>26. Throws(Last(frames), cut) /\ ~ranOut' => unwinding'
  BY <1>3, <1>15 DEF throws, f
<1> QED
  BY <1>1, <1>3, <1>6, <1>16, <1>17, <1>18, <1>24, <1>25, <1>26 DEF Accounted

\* qjs_eval stores the result of the script.
LEMMA EvalReturnsKeeps ==
    ASSUME BridgeAssumption, BridgeTypeOK, Accounted, val = 0,
           NEW failed \in BOOLEAN, EvalReturns(failed)
    PROVE  /\ Accounted' /\ table' \in Tables /\ val' \in Slots /\ ranOut' \in BOOLEAN
           /\ failed /\ ~ranOut' => Load(table, val)' = "exception"
<1> DEFINE v == IF failed THEN "exception" ELSE "value"
           s == Store(table, v).slot
           h == <<"result", 0, 0>>
           N == IF s = 0 THEN Naming ELSE Naming \cup {<<h, s>>}
<1>1. /\ table' = Store(table, v).table /\ val' = s
      /\ ranOut' = (ranOut \/ s = 0) /\ UNCHANGED <<frames, lostSlots>>
  BY DEF EvalReturns
<1>2. v \in Values /\ h \in Handles /\ ranOut \in BOOLEAN
  BY DEF Values, Handles, BridgeTypeOK
<1>3. Kept(table, Naming)
  BY DEF Accounted
<1> HIDE DEF v
<1>4. /\ s \in Slots /\ table' \in Tables /\ Kept(table', N)
      /\ s # 0 => table'.value[s] = v
  <2> HIDE DEF h, s
  <2>0. s = Store(table, v).slot
    BY DEF s
  <2>1. /\ s \in Slots /\ table' \in Tables
        /\ s = 0 => Kept(table', Naming)
        /\ s # 0 => Kept(table', Naming \cup {<<h, s>>})
        /\ \A r \in Slots : table'.value[r] = IF r = s /\ s # 0 THEN v ELSE table.value[r]
    BY ONLY BridgeAssumption, <1>1, <1>2, <1>3, <2>0, KeptStore
  <2> QED
    BY <2>1
<1> HIDE DEF s
<1>5. ASSUME NEW g \in Handles, NEW r \in Slots \ {0}
      PROVE  <<g, r>> \in Naming' <=> <<g, r>> \in N
  <2>1. /\ <<g, r>> \in Naming' <=> Names(g, r)'
        /\ <<g, r>> \in Naming <=> Names(g, r)
    BY DEF Naming
  <2>2. Names(g, r)' <=> Names(g, r) \/ (g = h /\ r = s)
    BY <1>1 DEF Names
  <2> HIDE DEF h
  <2> QED
    BY <2>1, <2>2
<1>6. Naming' \subseteq Handles \X (Slots \ {0})
  BY DEF Naming
<1>7. N \subseteq Handles \X (Slots \ {0})
  BY <1>4 DEF Kept
<1> HIDE DEF N
<1>8. Naming' = N
  BY <1>5, <1>6, <1>7, SamePairs
<1>9. failed /\ ~ranOut' => Load(table, val)' = "exception"
  BY <1>1, <1>2, <1>4 DEF Load, v
<1> QED
  BY <1>1, <1>2, <1>4, <1>8, <1>9 DEF Accounted

\* The result is freed (GetErrorMessage and ToStringFull, then Free).
LEMMA ResultFreed ==
    ASSUME BridgeAssumption, BridgeTypeOK, Accounted, val' = 0, UNCHANGED <<frames, lostSlots>>,
           table' = FreeValue(table, val)
    PROVE  Accounted' /\ table' \in Tables
<1> DEFINE h == <<"result", 0, 0>>
           N == Naming \ {<<h, val>>}
<1>1. h \in Handles /\ val \in Slots /\ Kept(table, Naming)
  BY DEF Handles, BridgeTypeOK, Accounted
<1>2. val # 0 => <<h, val>> \in Naming
  BY <1>1 DEF Naming, Names
<1>3. Kept(table', N) /\ table' \in Tables
  <2> HIDE DEF h
  <2> QED
    BY <1>1, <1>2, KeptFree
<1>4. ASSUME NEW g \in Handles, NEW r \in Slots \ {0}
      PROVE  <<g, r>> \in Naming' <=> <<g, r>> \in N
  <2>1. /\ <<g, r>> \in Naming' <=> Names(g, r)'
        /\ <<g, r>> \in Naming <=> Names(g, r)
    BY DEF Naming
  <2>2. Names(g, r)' <=> Names(g, r) /\ ~(g = h /\ r = val)
    BY DEF Names
  <2> HIDE DEF h
  <2> QED
    BY <2>1, <2>2
<1>5. Naming' \subseteq Handles \X (Slots \ {0}) /\ N \subseteq Handles \X (Slots \ {0})
  BY DEF Naming
<1> HIDE DEF N
<1>6. Naming' = N
  BY <1>4, <1>5, SamePairs
<1> QED
  BY <1>3, <1>6 DEF Accounted

\* The error is fetched into a slot of its own and that slot is freed.
LEMMA FailKeeps ==
    ASSUME BridgeAssumption, BridgeTypeOK, Accounted, Fail
    PROVE  Accounted' /\ table' \in Tables /\ ranOut' \in BOOLEAN
<1> DEFINE s == Store(table, "value").slot
           t == Store(table, "value").table
           u == FreeValue(t, s)
           h == <<"result", 0, 0>>
           k == <<"result", 1, 0>>
           N == Naming \ {<<h, val>>}
<1>1. /\ table' = FreeValue(u, val) /\ val' = 0 /\ UNCHANGED <<frames, lostSlots>>
      /\ ranOut' = (ranOut \/ s = 0)
  BY DEF Fail
<1>2. /\ "value" \in Values /\ h \in Handles /\ k \in Handles
      /\ ranOut \in BOOLEAN /\ val \in Slots /\ Kept(table, Naming)
  BY DEF Values, Handles, BridgeTypeOK, Accounted
<1>3. val # 0 => <<h, val>> \in Naming
  BY <1>2 DEF Naming, Names
<1>4. \A r \in Slots : <<k, r>> \notin Naming
  BY DEF Naming, Names
<1> HIDE DEF h, k
<1>5. /\ s \in Slots
      /\ s = 0 => Kept(t, Naming)
      /\ s # 0 => Kept(t, Naming \cup {<<k, s>>})
  BY <1>2, KeptStore
<1> HIDE DEF s, t
<1>6. Kept(u, Naming)
  <2>1. CASE s = 0
    BY <1>5, <2>1 DEF FreeValue
  <2>2. CASE s # 0
    <3> DEFINE R == Naming \cup {<<k, s>>}
    <3>1. Kept(t, R) /\ <<k, s>> \in R
      BY <1>5, <2>2
    <3>2. R \ {<<k, s>>} = Naming
      BY <1>4, <1>5
    <3> HIDE DEF R
    <3>3. Kept(u, R \ {<<k, s>>})
      BY <1>2, <1>5, <3>1, KeptFree
    <3> QED
      BY <3>2, <3>3
  <2> QED
    BY <2>1, <2>2
<1> HIDE DEF u
<1>7. Kept(table', N) /\ table' \in Tables
  BY <1>1, <1>2, <1>3, <1>6, KeptFree
<1>8. ASSUME NEW g \in Handles, NEW r \in Slots \ {0}
      PROVE  <<g, r>> \in Naming' <=> <<g, r>> \in N
  <2>1. /\ <<g, r>> \in Naming' <=> Names(g, r)'
        /\ <<g, r>> \in Naming <=> Names(g, r)
    BY DEF Naming
  <2>2. Names(g, r)' <=> Names(g, r) /\ ~(g = h /\ r = val)
    BY <1>1 DEF Names, h
  <2> QED
    BY <2>1, <2>2
<1>9. Naming' \subseteq Handles \X (Slots \ {0}) /\ N \subseteq Handles \X (Slots \ {0})
  BY DEF Naming
<1> HIDE DEF N
<1>10. Naming' = N
  BY <1>8, <1>9, SamePairs
<1> QED
  BY <1>1, <1>2, <1>7, <1>10 DEF Accounted

\* A fresh instance, now and in the next state.
LEMMA Fresh ==
    ASSUME BridgeAssumption
    PROVE  /\ /\ table = Built /\ frames = <<>> /\ val = 0 /\ lostSlots = {}
              => Accounted
           /\ /\ table' = Built /\ frames' = <<>> /\ val' = 0 /\ lostSlots' = {}
              => Accounted'
<1>1. Forever \subseteq Handles \X (Slots \ {0}) /\ Naming \subseteq Handles \X (Slots \ {0})
      /\ Naming' \subseteq Handles \X (Slots \ {0})
  BY DEF Forever, Naming
<1>2. \A h \in Handles, s \in Slots \ {0} :
         <<h, s>> \in Forever <=> s \in Permanent /\ h = <<"permanent", s, 0>>
  BY DEF Forever
<1>3. ASSUME frames = <<>>, val = 0, lostSlots = {}
      PROVE  Naming = Forever
  <2>1. ASSUME NEW h \in Handles, NEW s \in Slots \ {0}
        PROVE  <<h, s>> \in Naming <=> s \in Permanent /\ h = <<"permanent", s, 0>>
    <3>1. 1..Len(frames) = {}
      BY <1>3
    <3>2. Names(h, s) <=> s \in Permanent /\ h = <<"permanent", s, 0>>
      BY <1>3, <3>1 DEF Names
    <3>3. <<h, s>> \in Naming <=> Names(h, s)
      BY DEF Naming
    <3> QED
      BY <3>2, <3>3
  <2> QED
    BY <1>1, <1>2, <2>1, SamePairs
<1>4. ASSUME frames' = <<>>, val' = 0, lostSlots' = {}
      PROVE  Naming' = Forever
  <2>1. ASSUME NEW h \in Handles, NEW s \in Slots \ {0}
        PROVE  <<h, s>> \in Naming' <=> s \in Permanent /\ h = <<"permanent", s, 0>>
    <3>1. 1..Len(frames') = {}
      BY <1>4
    <3>2. Names(h, s)' <=> s \in Permanent /\ h = <<"permanent", s, 0>>
      BY <1>4, <3>1 DEF Names
    <3>3. <<h, s>> \in Naming' <=> Names(h, s)'
      BY DEF Naming
    <3> QED
      BY <3>2, <3>3
  <2> QED
    BY <1>1, <1>2, <2>1, SamePairs
<1> QED
  BY <1>3, <1>4, BuiltKept DEF Accounted

\* Strings are in the arena only between the calls that write them and the one
\* that reads them; in between, the arena pointer is behind the script, and no
\* host call is in progress that could move it.
Written ==
    /\ arenaPtr \in 0..Arena
    /\ pc \in {"idle", "written", "named", "running", "returned"}
    /\ pc # "running" => frames = <<>>
    /\ pc \in {"idle", "running", "returned"} =>
          code = Nowhere /\ file = Nowhere
    /\ pc = "written" =>
          /\ code \in [at: 0..Arena, size: 1..Arena]
          /\ arenaPtr = code.at + code.size
          /\ file = Nowhere
    /\ pc = "named" => ArenaIntact

\* Placing a string that fits leaves it within the arena, and the pointer
\* behind it (arena_alloc).
LEMMA Allocated ==
    ASSUME NEW p \in 0..Arena, NEW n \in 1..Arena, Arena \in Nat
    PROVE  /\ Place(p, n) \in 0..Arena
           /\ Place(p, n) \in {0, p}
           /\ Advance(p, n) = Place(p, n) + n
           /\ Advance(p, n) \in 0..Arena
  BY DEF Place, Advance

LEMMA WrittenStep ==
    ASSUME BridgeAssumption, Written, [BridgeNext]_bridgeVars
    PROVE  Written'
<1>1. /\ Arena \in Nat /\ CodeSizes \subseteq Nat \ {0}
      /\ NameSize \in 1..Arena /\ MessageSize \in 1..Arena
      /\ BufferSize \in 1..Arena /\ 1 \in 1..Arena
  BY DEF BridgeAssumption
<1>2. /\ arenaPtr \in 0..Arena
      /\ \A n \in 1..Arena : Advance(arenaPtr, n) \in 0..Arena
  BY <1>1, Allocated DEF Written
<1>3. ASSUME NEW n \in CodeSizes, WriteCode(n)
      PROVE  Written'
  <2>1. CASE n > Arena
    BY <1>1, <1>3, <2>1 DEF WriteCode, Fits, Written
  <2>2. CASE n <= Arena
    <3>1. n \in 1..Arena
      BY <1>1, <2>2
    <3>2. /\ code' = [at |-> Place(arenaPtr, n), size |-> n]
          /\ arenaPtr' = Place(arenaPtr, n) + n
          /\ pc' = "written" /\ file' = Nowhere /\ frames' = <<>>
      BY <1>2, <1>3, <2>2, <3>1, Allocated, <1>1
         DEF WriteCode, Fits, Written
    <3> QED
      BY <1>1, <1>2, <3>1, <3>2, Allocated DEF Written
  <2> QED
    BY <1>1, <2>1, <2>2
<1>4. CASE WriteName
  <2>1. /\ pc = "written" /\ pc' = "named" /\ code' = code
        /\ file' = [at |-> Place(arenaPtr, NameSize), size |-> NameSize]
        /\ arenaPtr' = Place(arenaPtr, NameSize) + NameSize
    BY <1>1, <1>2, <1>4, Allocated DEF WriteName
  <2>2. /\ code.at \in Nat /\ code.size \in Nat
        /\ arenaPtr = code.at + code.size
    BY <1>1, <2>1 DEF Written
  <2>3. ArenaIntact'
    <3>1. PICK p \in 0..Arena :
            /\ file'.at = p /\ file'.size = NameSize /\ p + NameSize <= Arena
            /\ \/ p = arenaPtr
               \/ p = 0 /\ arenaPtr + NameSize > Arena
      BY <1>1, <1>2, <2>1, Allocated DEF Place, Advance
    <3>2. code.at + code.size <= Arena
      BY <1>2, <1>1, <2>2
    <3>3. code.size + 2 * NameSize <= Arena =>
            \/ code.at + code.size <= p
            \/ p + NameSize <= code.at
      BY <1>1, <1>2, <2>2, <3>1
    <3> QED
      BY <2>1, <3>1, <3>2, <3>3 DEF ArenaIntact
  <2>4. arenaPtr' \in 0..Arena /\ frames' = frames /\ frames = <<>>
    BY <1>1, <1>2, <1>4, <2>1, Allocated DEF WriteName, Written
  <2> QED
    BY <2>1, <2>3, <2>4 DEF Written
<1>5. CASE Eval
  BY <1>5 DEF Eval, Written
<1>6. ASSUME pc \in {"running", "returned"},
             pc' \in {"idle", "running", "returned"},
             pc' = "running" \/ frames' = <<>>,
             UNCHANGED <<code, file>>, arenaPtr' \in 0..Arena
      PROVE  Written'
  BY <1>6 DEF Written
<1>7. ASSUME NEW n \in 0..MaxArgs, CallGo(n)
      PROVE  Written'
  <2>1. /\ pc = "running" /\ UNCHANGED <<pc, code, file>>
        /\ arenaPtr' = arenaPtr \/ arenaPtr' = Advance(arenaPtr, 1)
    BY <1>7 DEF CallGo
  <2> QED
    BY <1>1, <1>2, <1>6, <2>1
<1>8. ASSUME NEW cut \in BOOLEAN, ReturnGo(cut)
      PROVE  Written'
  <2>1. /\ frames # <<>> /\ UNCHANGED <<pc, code, file>>
        /\ \/ arenaPtr' = arenaPtr
           \/ arenaPtr' = Advance(arenaPtr, MessageSize)
    BY <1>8 DEF ReturnGo
  <2>2. pc = "running"
    BY <2>1 DEF Written
  <2> QED
    BY <1>1, <1>2, <1>6, <2>1, <2>2
<1>9. ASSUME NEW failed \in BOOLEAN, EvalReturns(failed)
      PROVE  Written'
  BY <1>2, <1>6, <1>9 DEF EvalReturns
<1>10. CASE Fail \/ Succeed
  <2>1. /\ pc = "returned" /\ pc' = "idle" /\ UNCHANGED <<code, file, frames>>
        /\ \/ arenaPtr' = Advance(arenaPtr, BufferSize)
           \/ arenaPtr' = Advance(arenaPtr, 1)
    BY <1>10 DEF Fail, Succeed
  <2>2. frames' = <<>>
    BY <2>1 DEF Written
  <2> QED
    BY <1>1, <1>2, <1>6, <2>1, <2>2
<1>11. CASE Replace
  BY <1>6, <1>11 DEF Replace
<1>12. CASE UNCHANGED bridgeVars
  BY <1>12 DEF bridgeVars, Written, ArenaIntact
<1> QED
  BY <1>3, <1>4, <1>5, <1>7, <1>8, <1>9, <1>10, <1>11, <1>12 DEF BridgeNext

\* Where EvalToString is, and what goes with it.
Phases ==
    /\ pc # "returned" => val = 0
    /\ unwinding => pc = "running"
    /\ pc # "idle" => answer = "none"

\* Once the directives of a render are cut off, and while every value has had a slot,
\* an error is on its way to the answer.
Cut ==
    truncated /\ ~ranOut =>
        \/ pc = "running" /\ unwinding
        \/ pc = "returned" /\ Load(table, val) = "exception"
        \/ pc = "idle" /\ answer = "error"

BridgeInv == BridgeTypeOK /\ Written /\ Phases /\ Accounted /\ Cut

LEMMA BridgeInitInv ==
    ASSUME BridgeAssumption, BridgeInit
    PROVE  BridgeInv
<1>1. 0 \in Slots /\ Arena \in Nat /\ MaxDepth \in Nat
  BY DEF BridgeAssumption, Slots
<1>2. Accounted
  BY Fresh DEF BridgeInit
<1>3. BridgeTypeOK
  <2>1. table \in Tables
    BY BuiltStores DEF BridgeInit
  <2>2. frames \in Seq([args: Seq(Slots), this: Slots]) /\ Len(frames) = 0
    BY DEF BridgeInit
  <2>3. code \in Regions /\ file \in Regions
    BY <1>1 DEF Nowhere, Regions, BridgeInit
  <2>4. Len(frames) <= MaxDepth /\ val \in Slots
    BY <1>1, <2>2 DEF BridgeInit
  <2>5. /\ arenaPtr \in 0..Arena /\ pc = "idle" /\ answer = "none" /\ lostSlots = {}
        /\ {unwinding, truncated, ranOut} \subseteq BOOLEAN
    BY DEF BridgeInit
  <2> QED
    BY <2>1, <2>2, <2>3, <2>4, <2>5 DEF BridgeTypeOK
<1>4. Written /\ Phases /\ Cut
  BY DEF BridgeInit, Written, Phases, Cut
<1> QED
  BY <1>2, <1>3, <1>4 DEF BridgeInv

LEMMA BridgeStep ==
    ASSUME BridgeAssumption, BridgeInv, [BridgeNext]_bridgeVars
    PROVE  BridgeInv'
<1>1. /\ BridgeTypeOK /\ Written /\ Phases /\ Accounted /\ Cut /\ Written'
      /\ Arena \in Nat /\ CodeSizes \subseteq Nat \ {0} /\ NameSize \in 1..Arena
      /\ MaxDepth \in Nat /\ 0 \in Slots
  <2>1. Written'
    BY WrittenStep DEF BridgeInv
  <2> QED
    BY <2>1 DEF BridgeInv, BridgeAssumption, Slots
\* The parts of the type that an action does not see to by itself.
<1> DEFINE Rest == /\ table' \in Tables /\ val' \in Slots
                   /\ frames' \in Seq(Calls) /\ Len(frames') <= MaxDepth
                   /\ {unwinding', truncated', ranOut'} \subseteq BOOLEAN
                   /\ answer' \in {"none", "html", "error", "garbled"}
                   /\ lostSlots' \subseteq Slots \ {0}
<1>2. Nowhere \in Regions
  BY <1>1 DEF Nowhere, Regions
<1>3. /\ table \in Tables /\ val \in Slots /\ frames \in Seq(Calls) /\ Len(frames) <= MaxDepth
      /\ {unwinding, truncated, ranOut} \subseteq BOOLEAN
      /\ answer \in {"none", "html", "error", "garbled"} /\ lostSlots \subseteq Slots \ {0}
      /\ code \in Regions /\ file \in Regions
  BY <1>1 DEF BridgeTypeOK, Calls
<1>4. ASSUME Rest, code' \in Regions, file' \in Regions
      PROVE  BridgeTypeOK'
  <2>1. /\ arenaPtr' \in 0..Arena
        /\ pc' \in {"idle", "written", "named", "running", "returned"}
    BY <1>1 DEF Written
  <2> QED
    BY <1>4, <2>1 DEF BridgeTypeOK, Calls
<1>5. ASSUME UNCHANGED <<table, val, frames, lostSlots>>
      PROVE  Accounted'
  <2>1. \A h, s : Names(h, s)' <=> Names(h, s)
    BY <1>5 DEF Names
  <2>2. Naming' = Naming
    BY <2>1 DEF Naming
  <2> QED
    BY <1>1, <1>5, <2>2 DEF Accounted
<1>6. ASSUME NEW n \in CodeSizes, WriteCode(n)
      PROVE  BridgeInv'
  <2>1. /\ UNCHANGED <<table, file, val, frames, unwinding, lostSlots, ranOut>>
        /\ truncated' = FALSE /\ pc = "idle"
        /\ \/ /\ n <= Arena /\ code' = [at |-> Place(arenaPtr, n), size |-> n]
              /\ pc' = "written" /\ answer' = "none"
           \/ pc' = "idle" /\ answer' = "error" /\ code' = code
    BY <1>6 DEF WriteCode, Fits
  <2>2. code' \in Regions
    <3>1. CASE n <= Arena /\ code' = [at |-> Place(arenaPtr, n), size |-> n]
      <4>1. n \in 1..Arena /\ arenaPtr \in 0..Arena
        BY <1>1, <3>1 DEF Written
      <4> QED
        BY <1>1, <3>1, <4>1, Allocated DEF Regions
    <3> QED
      BY <1>3, <2>1, <3>1
  <2>3. BridgeTypeOK'
    BY <1>3, <1>4, <2>1, <2>2
  <2>4. Accounted'
    BY <1>5, <2>1
  <2>5. Phases' /\ Cut'
    BY <1>1, <2>1 DEF Phases, Cut
  <2> QED
    BY <1>1, <2>3, <2>4, <2>5 DEF BridgeInv
<1>7. CASE WriteName
  <2>1. /\ UNCHANGED <<table, code, val, frames, unwinding, truncated, answer, lostSlots, ranOut>>
        /\ pc = "written" /\ pc' = "named"
        /\ file' = [at |-> Place(arenaPtr, NameSize), size |-> NameSize]
    BY <1>7 DEF WriteName
  <2>2. file' \in Regions
    <3>1. arenaPtr \in 0..Arena
      BY <1>1 DEF Written
    <3> QED
      BY <1>1, <2>1, <3>1, Allocated DEF Regions
  <2>3. BridgeTypeOK'
    BY <1>3, <1>4, <2>1, <2>2
  <2>4. Accounted'
    BY <1>5, <2>1
  <2>5. Phases' /\ Cut'
    BY <1>1, <2>1 DEF Phases, Cut
  <2> QED
    BY <1>1, <2>3, <2>4, <2>5 DEF BridgeInv
<1>8. CASE Eval
  <2>1. /\ UNCHANGED <<table, val, frames, unwinding, truncated, answer, lostSlots, ranOut>>
        /\ pc = "named" /\ pc' = "running" /\ code' = Nowhere /\ file' = Nowhere
    BY <1>8 DEF Eval
  <2>2. BridgeTypeOK'
    BY <1>2, <1>3, <1>4, <2>1
  <2>3. Accounted'
    BY <1>5, <2>1
  <2>4. Phases' /\ Cut'
    BY <1>1, <2>1 DEF Phases, Cut
  <2> QED
    BY <1>1, <2>2, <2>3, <2>4 DEF BridgeInv
<1>9. ASSUME NEW n \in 0..MaxArgs, CallGo(n)
      PROVE  BridgeInv'
  <2>1. /\ pc = "running" /\ ~unwinding /\ Len(frames) < MaxDepth
        /\ UNCHANGED <<pc, code, file, val, unwinding, truncated, answer, lostSlots>>
        /\ ranOut' \in BOOLEAN /\ (ranOut => ranOut')
        /\ Len(frames') = Len(frames) + 1
    <3>1. \E f : frames' = Append(frames, f)
      BY <1>9 DEF CallGo
    <3>2. \E b \in BOOLEAN : ranOut' = (ranOut \/ b)
      BY <1>9 DEF CallGo
    <3>3. Len(frames') = Len(frames) + 1
      BY <1>3, <3>1
    <3> QED
      BY <1>9, <3>2, <3>3 DEF CallGo
  <2>2. Accounted' /\ table' \in Tables /\ frames' \in Seq(Calls)
    BY <1>1, <1>9, CallGoKeeps
  <2>3. Len(frames') <= MaxDepth
    BY <1>1, <1>3, <2>1
  <2>4. BridgeTypeOK'
    BY <1>3, <1>4, <2>1, <2>2, <2>3
  <2>5. Phases' /\ Cut'
    BY <1>1, <2>1 DEF Phases, Cut
  <2> QED
    BY <1>1, <2>2, <2>4, <2>5 DEF BridgeInv
<1>10. ASSUME NEW cut \in BOOLEAN, ReturnGo(cut)
       PROVE  BridgeInv'
  <2>1. /\ frames # <<>> /\ (truncated => cut) /\ truncated' = cut
        /\ UNCHANGED <<pc, code, file, val, answer>>
        /\ ranOut => ranOut'
    <3>1. \E b \in BOOLEAN : ranOut' = (ranOut \/ b)
      BY <1>10 DEF ReturnGo
    <3> QED
      BY <1>10, <3>1 DEF ReturnGo
  <2>2. pc = "running"
    BY <1>1, <2>1 DEF Written
  <2>3. /\ Accounted' /\ table' \in Tables
        /\ frames' \in Seq(Calls) /\ Len(frames') <= MaxDepth
        /\ unwinding' \in BOOLEAN /\ ranOut' \in BOOLEAN
        /\ lostSlots' \subseteq Slots \ {0}
        /\ Throws(Last(frames), cut) /\ ~ranOut' => unwinding'
    BY <1>1, <1>10, ReturnGoKeeps
  <2>4. BridgeTypeOK'
    BY <1>3, <1>4, <2>1, <2>3
  <2>5. Phases'
    BY <1>1, <2>1, <2>2 DEF Phases
  <2>6. Cut'
    BY <2>1, <2>2, <2>3 DEF Cut, Throws
  <2> QED
    BY <1>1, <2>3, <2>4, <2>5, <2>6 DEF BridgeInv
<1>11. ASSUME NEW failed \in BOOLEAN, EvalReturns(failed)
       PROVE  BridgeInv'
  <2>1. /\ pc = "running" /\ pc' = "returned" /\ (unwinding => failed) /\ unwinding' = FALSE
        /\ UNCHANGED <<code, file, frames, truncated, answer, lostSlots>>
        /\ ranOut => ranOut'
    <3>1. \E b \in BOOLEAN : ranOut' = (ranOut \/ b)
      BY <1>11 DEF EvalReturns
    <3> QED
      BY <1>11, <3>1 DEF EvalReturns
  <2>2. val = 0
    BY <1>1, <2>1 DEF Phases
  <2>3. /\ Accounted' /\ table' \in Tables /\ val' \in Slots /\ ranOut' \in BOOLEAN
        /\ failed /\ ~ranOut' => Load(table, val)' = "exception"
    BY <1>1, <1>11, <2>2, EvalReturnsKeeps
  <2>4. BridgeTypeOK'
    BY <1>3, <1>4, <2>1, <2>3
  <2>5. Phases'
    BY <1>1, <2>1 DEF Phases
  <2>6. Cut'
    BY <1>1, <2>1, <2>3 DEF Cut
  <2> QED
    BY <1>1, <2>3, <2>4, <2>5, <2>6 DEF BridgeInv
<1>12. CASE Fail
  <2>1. /\ pc = "returned" /\ pc' = "idle" /\ val' = 0 /\ answer' = "error"
        /\ UNCHANGED <<code, file, frames, unwinding, truncated, lostSlots>>
    BY <1>12 DEF Fail
  <2>2. Accounted' /\ table' \in Tables /\ ranOut' \in BOOLEAN
    BY <1>1, <1>12, FailKeeps
  <2>3. BridgeTypeOK'
    BY <1>1, <1>3, <1>4, <2>1, <2>2
  <2>4. Phases' /\ Cut'
    BY <1>1, <2>1 DEF Phases, Cut
  <2> QED
    BY <1>1, <2>2, <2>3, <2>4 DEF BridgeInv
<1>13. CASE Succeed
  <2>1. /\ pc = "returned" /\ pc' = "idle" /\ val' = 0 /\ answer' \in {"html", "garbled"}
        /\ UNCHANGED <<code, file, frames, unwinding, truncated, lostSlots, ranOut>>
        /\ table' = FreeValue(table, val) /\ Load(table, val) # "exception"
    BY <1>13 DEF Succeed
  <2>2. Accounted' /\ table' \in Tables
    BY <1>1, <2>1, ResultFreed
  <2>3. BridgeTypeOK'
    BY <1>1, <1>3, <1>4, <2>1, <2>2
  <2>4. Phases' /\ Cut'
    BY <1>1, <2>1 DEF Phases, Cut
  <2> QED
    BY <1>1, <2>2, <2>3, <2>4 DEF BridgeInv
<1>14. CASE Replace
  <2>1. /\ pc = "running" /\ pc' = "idle" /\ answer' = "error" /\ table' = Built
        /\ frames' = <<>> /\ unwinding' = FALSE /\ lostSlots' = {} /\ ranOut' = FALSE
        /\ UNCHANGED <<code, file, val, truncated>>
    BY <1>14 DEF Replace
  <2>2. val' = 0
    BY <1>1, <2>1 DEF Phases
  <2>3. Accounted' /\ table' \in Tables
    BY <2>1, <2>2, Fresh, BuiltStores
  <2>4. frames' \in Seq(Calls) /\ Len(frames') <= MaxDepth
    <3>1. frames' \in Seq(Calls) /\ Len(frames') = 0
      BY <2>1
    <3> QED
      BY <1>1, <3>1
  <2>5. BridgeTypeOK'
    <3>1. Rest
      BY <1>1, <1>3, <2>1, <2>2, <2>3, <2>4
    <3> QED
      BY <1>3, <1>4, <2>1, <3>1
  <2>6. Phases' /\ Cut'
    BY <2>1, <2>2 DEF Phases, Cut
  <2> QED
    BY <1>1, <2>3, <2>5, <2>6 DEF BridgeInv
<1>15. CASE UNCHANGED bridgeVars
  <2>1. /\ UNCHANGED <<table, pc, code, file, val, frames, unwinding>>
        /\ UNCHANGED <<truncated, answer, lostSlots, ranOut>>
    BY <1>15 DEF bridgeVars
  <2>2. BridgeTypeOK'
    BY <1>3, <1>4, <2>1
  <2>3. Accounted'
    BY <1>5, <2>1
  <2>4. Phases' /\ Cut'
    BY <1>1, <2>1 DEF Phases, Cut
  <2> QED
    BY <1>1, <2>2, <2>3, <2>4 DEF BridgeInv
<1> QED
  BY <1>6, <1>7, <1>8, <1>9, <1>10, <1>11, <1>12, <1>13, <1>14, <1>15 DEF BridgeNext

LEMMA BridgeInvHolds == BridgeSpec => []BridgeInv
<1>1. BridgeInit => BridgeInv
  BY BridgeAssumption, BridgeInitInv
<1>2. BridgeInv /\ [BridgeNext]_bridgeVars => BridgeInv'
  BY BridgeAssumption, BridgeStep
<1> QED
  BY <1>1, <1>2, PTL DEF BridgeSpec

\* The state of an instance keeps its shape for any size of the table and the arena,
\* any number of arguments and any depth of host calls (jsvalue_slots, arena_ptr).
THEOREM BridgeTypeCorrect == BridgeSpec => []BridgeTypeOK
  BY BridgeInvHolds, PTL DEF BridgeInv

\* No slot of the table is freed twice, handed out twice or leaked but for those of
\* errors that the host function threw (store_jsvalue, free_jsvalue_slot and their
\* callers), for a table of any size.
THEOREM EverySlotAccounted == BridgeSpec => []SlotsAccounted
<1>1. BridgeInv => SlotsAccounted
  BY BridgeAssumption, AccountedAtMentions DEF BridgeInv
<1> QED
  BY <1>1, BridgeInvHolds, PTL

\* The script and its file name, which EvalToString writes into the arena one
\* after the other, both lie within it and apart until qjs_eval has read them,
\* wherever the arena pointer starts and whatever earlier renders have left,
\* unless the script leaves no room for the name on either side.
THEOREM StringsApart == BridgeSpec => []ArenaIntact
<1>1. Written => ArenaIntact
  BY BridgeAssumption DEF Written, ArenaIntact, Nowhere, BridgeAssumption
<1> QED
  BY <1>1, BridgeInvHolds, PTL DEF BridgeInv

\* A render whose directives were cut off (DirectiveSink) answers with an error while
\* the table has a slot for every value: nothing between the host function that throws
\* and EvalToString forgets it.
THEOREM OverflowReaches == BridgeSpec => []OverflowIsReported
<1>1. BridgeInv => OverflowIsReported
  BY DEF BridgeInv, BridgeTypeOK, Phases, Cut, OverflowIsReported
<1> QED
  BY <1>1, BridgeInvHolds, PTL
=============================================================================
