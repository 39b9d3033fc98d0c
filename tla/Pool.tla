-------------------------------- MODULE Pool --------------------------------
(***************************************************************************)
(* The pool of QuickJS engines that renders pages (platform/renderx,       *)
(* EnginePool).  An engine instance has one goroutine that owns it and     *)
(* takes requests from an unbuffered channel.  A caller checks an instance *)
(* out of the channel idle, hands it a request, waits for the answer under *)
(* the timer of the watchdog, and gives the instance back.  A wedged       *)
(* instance is killed and replaced, and so is one whose engine trapped.    *)
(*                                                                         *)
(* Processes are the callers, the goroutines of the instances and the      *)
(* calls of replaceInstance; a step is one select, one access to the flag  *)
(* dead, or what runs under the lock of the pool.                          *)
(***************************************************************************)
EXTENDS Integers, Sequences, FiniteSets

CONSTANTS
    Callers,        \* goroutines in Render or Routes
    Impatient,      \* those whose context may end
    Nobody,
    Size,           \* PoolOptions.Size
    MaxBuilt,       \* bound: engines ever built
    MaxFaults       \* bound: slow renders and traps together

ASSUME PoolAssumption ==
    /\ Impatient \subseteq Callers /\ Nobody \notin Callers
    /\ Size \in Nat \ {0} /\ MaxFaults \in Nat
    /\ MaxBuilt \in Nat /\ MaxBuilt >= Size + MaxFaults
    /\ Callers \cap ((1..MaxBuilt) \X {"kill", "run"}) = {}

VARIABLES
    instances,      \* EnginePool.instances
    idle,           \* the channel idle
    dead,           \* instances whose flag dead is set
    killed,         \* instances whose deadCh is closed
    runner,         \* the goroutine of each instance
    proc,           \* callers, and the calls of replaceInstance
    closed,         \* whether the channel closed is closed
    closer,         \* the call of Close
    built,          \* engines built so far; the next one is built + 1
    lost,           \* slots given up because no engine could be built
    faults

vars == <<instances, idle, dead, killed, runner, proc, closed, closer, built,
          lost, faults>>

-----------------------------------------------------------------------------
(* Instances, callers and replacements *)

Ids == 1..MaxBuilt

\* replaceInstance is called by killInstance, in a goroutine of its own, and by
\* the goroutine of an instance that retires; both may happen to one instance.
Jobs == Ids \X {"kill", "run"}
Procs == Callers \cup Jobs

Kinds == {"quick", "slow"}
Runners == [pc: {"none", "ready", "render", "retire", "replace", "exited"},
            for: Callers \cup {Nobody}, kind: Kinds]
Holding == {"ask", "send", "wait", "answered", "release", "push"}
Out == [pc |-> "out", inst |-> 0]
ProcStates == [pc: {"out", "acquire", "check", "build"}, inst: {0}]
              \cup [pc: Holding, inst: Ids]

Ready == [pc |-> "ready", for |-> Nobody, kind |-> "quick"]

At(p, pc) == proc[p].pc = pc
Inst(p) == proc[p].inst
Goto(p, pc) == proc' = [proc EXCEPT ![p].pc = pc]

\* p returns; a goroutine that returns from replaceInstance closes exited.
Return(p) ==
    /\ proc' = [proc EXCEPT ![p] = Out]
    /\ runner' = IF p \in Jobs /\ p[2] = "run"
                 THEN [runner EXCEPT ![p[1]].pc = "exited"] ELSE runner

\* killInstance: CompareAndSwap of dead, ForceClose, close(deadCh), and the
\* goroutine that replaces; procs is proc as the caller leaves it.
Kill(i, procs) ==
    IF i \in dead
    THEN proc' = procs /\ UNCHANGED <<dead, killed>>
    ELSE /\ dead' = dead \cup {i}
         /\ killed' = killed \cup {i}
         /\ proc' = [procs EXCEPT ![<<i, "kill">>].pc = "check"]

Init ==
    /\ instances = 1..Size
    /\ idle = [i \in 1..Size |-> i]
    /\ dead = {} /\ killed = {}
    /\ runner = [i \in Ids |-> IF i <= Size THEN Ready
                               ELSE [Ready EXCEPT !.pc = "none"]]
    /\ proc = [p \in Procs |-> Out]
    /\ closed = FALSE
    /\ closer = [pc |-> "none", todo |-> {}]
    /\ built = Size /\ lost = 0 /\ faults = 0

-----------------------------------------------------------------------------
(* Render *)

Render(c) ==
    /\ At(c, "out") /\ ~closed
    /\ Goto(c, "acquire")
    /\ UNCHANGED <<instances, idle, dead, killed, runner, closed, closer,
                   built, lost, faults>>

Acquire(c) ==
    /\ At(c, "acquire") /\ idle # <<>>
    /\ proc' = [proc EXCEPT ![c] = [pc |-> "ask", inst |-> Head(idle)]]
    /\ idle' = Tail(idle)
    /\ UNCHANGED <<instances, dead, killed, runner, closed, closer, built,
                   lost, faults>>

Ask(c) ==
    /\ At(c, "ask") /\ ~closed
    /\ Goto(c, "send")
    /\ UNCHANGED <<instances, idle, dead, killed, runner, closed, closer,
                   built, lost, faults>>

\* The request is handed over in the select of the goroutine, which may choose
\* it although closed or deadCh is closed as well.  The timer starts here.  A
\* slow render may outlast it, and may never end; their number is bounded.
Send(c, kind) ==
    /\ At(c, "send") /\ runner[Inst(c)].pc = "ready"
    /\ kind = "slow" => faults < MaxFaults
    /\ runner' = [runner EXCEPT ![Inst(c)] =
                    [pc |-> "render", for |-> c, kind |-> kind]]
    /\ faults' = IF kind = "slow" THEN faults + 1 ELSE faults
    /\ Goto(c, "wait")
    /\ UNCHANGED <<instances, idle, dead, killed, closed, closer, built, lost>>

Receive(c) ==
    /\ At(c, "answered")
    /\ Goto(c, "release")
    /\ UNCHANGED <<instances, idle, dead, killed, runner, closed, closer,
                   built, lost, faults>>

\* The caller no longer listens to the request it made.
Unheard(c) ==
    runner' = [runner EXCEPT ![Inst(c)].for = IF @ = c THEN Nobody ELSE @]

\* Mutant: it leaves the caller waiting when somebody else has
\* killed the instance.
TimeoutIfAlive(c) ==
    /\ proc[c].pc \in {"wait", "answered"} /\ runner[Inst(c)].kind = "slow"
    /\ Inst(c) \notin dead
    /\ Kill(Inst(c), [proc EXCEPT ![c].pc = "release"])
    /\ Unheard(c)
    /\ UNCHANGED <<instances, idle, closed, closer, built, lost, faults>>

\* The watchdog: only the caller that made the request has the timer.
Timeout(c) ==
    /\ proc[c].pc \in {"wait", "answered"} /\ runner[Inst(c)].kind = "slow"
    /\ Kill(Inst(c), [proc EXCEPT ![c].pc = "release"])
    /\ Unheard(c)
    /\ UNCHANGED <<instances, idle, closed, closer, built, lost, faults>>

\* Mutant: a caller that could not send does not give back.
GiveUpKeeping(c) ==
    /\ c \in Impatient
    /\ \/ proc[c].pc \in {"acquire", "send"} /\ Return(c)
       \/ proc[c].pc \in {"wait", "answered"} /\ Goto(c, "release") /\ Unheard(c)
    /\ UNCHANGED <<instances, idle, dead, killed, closed, closer, built, lost,
                   faults>>

\* ctx.Done in acquire, and in the two selects of ask: the instance goes back
\* to the pool although it may still be rendering, and nothing times it.
GiveUp(c) ==
    /\ c \in Impatient
    /\ \/ At(c, "acquire") /\ Return(c)
       \/ At(c, "send") /\ Goto(c, "release") /\ UNCHANGED runner
       \/ proc[c].pc \in {"wait", "answered"} /\ Goto(c, "release") /\ Unheard(c)
    /\ UNCHANGED <<instances, idle, dead, killed, closed, closer, built, lost,
                   faults>>

\* ErrPoolClosed in acquire and ask; a caller that waits does not look.
Refused(c) ==
    /\ closed
    /\ \/ At(c, "acquire") /\ Return(c)
       \/ proc[c].pc \in {"ask", "send"} /\ Goto(c, "release") /\ UNCHANGED runner
    /\ UNCHANGED <<instances, idle, dead, killed, closed, closer, built, lost,
                   faults>>

-----------------------------------------------------------------------------
(* release, by callers and by replaceInstance *)

\* dead and closed are read before the send and not again.
Release(p) ==
    /\ At(p, "release")
    /\ IF Inst(p) \in dead \/ closed
       THEN Return(p)
       ELSE Goto(p, "push") /\ UNCHANGED runner
    /\ UNCHANGED <<instances, idle, dead, killed, closed, closer, built, lost,
                   faults>>

\* Mutant: the send has no case for closed.
PushBlocking(p) ==
    /\ At(p, "push")
    /\ Len(idle) < Size /\ idle' = Append(idle, Inst(p))
    /\ Return(p)
    /\ UNCHANGED <<instances, dead, killed, closed, closer, built, lost, faults>>

Push(p) ==
    /\ At(p, "push")
    /\ \/ Len(idle) < Size /\ idle' = Append(idle, Inst(p))
       \/ closed /\ UNCHANGED idle
    /\ Return(p)
    /\ UNCHANGED <<instances, dead, killed, closed, closer, built, lost, faults>>

-----------------------------------------------------------------------------
(* The goroutine of an instance: run and handle *)

\* done is buffered: the answer to a caller that left is dropped.
Answered(i) ==
    LET c == runner[i].for IN
    IF c = Nobody THEN UNCHANGED proc ELSE Goto(c, "answered")

Finish(i) ==
    /\ runner[i].pc = "render"
    /\ Answered(i)
    /\ runner' = [runner EXCEPT ![i].pc = "ready", ![i].for = Nobody]
    /\ UNCHANGED <<instances, idle, dead, killed, closed, closer, built, lost,
                   faults>>

\* A panic or an out of bounds access: the answer is sent first.
Trap(i) ==
    /\ runner[i].pc = "render" /\ faults < MaxFaults
    /\ faults' = faults + 1
    /\ Answered(i)
    /\ runner' = [runner EXCEPT ![i].pc = "retire", ![i].for = Nobody]
    /\ UNCHANGED <<instances, idle, dead, killed, closed, closer, built, lost>>

\* Mutant: the instance is replaced without being marked dead.
RetireUnmarked(i) ==
    /\ runner[i].pc = "retire"
    /\ runner' = [runner EXCEPT ![i].pc = "replace"]
    /\ Goto(<<i, "run">>, "check")
    /\ UNCHANGED <<instances, idle, dead, killed, closed, closer, built, lost,
                   faults>>

\* Only then is the instance marked dead, and run replaces it.
Retire(i) ==
    /\ runner[i].pc = "retire"
    /\ dead' = dead \cup {i}
    /\ runner' = [runner EXCEPT ![i].pc = "replace"]
    /\ Goto(<<i, "run">>, "check")
    /\ UNCHANGED <<instances, idle, killed, closed, closer, built, lost, faults>>

Exit(i) ==
    /\ runner[i].pc = "ready" /\ (closed \/ i \in killed)
    /\ runner' = [runner EXCEPT ![i].pc = "exited"]
    /\ UNCHANGED <<instances, idle, dead, killed, proc, closed, closer, built,
                   lost, faults>>

-----------------------------------------------------------------------------
(* replaceInstance *)

Check(j) ==
    /\ At(j, "check")
    /\ IF closed THEN Return(j) ELSE Goto(j, "build") /\ UNCHANGED runner
    /\ UNCHANGED <<instances, idle, dead, killed, closed, closer, built, lost,
                   faults>>

\* Mutant: the new engine joins the pool although the slot of the
\* dead one has been filled.
InstallAnyway(j) ==
    /\ At(j, "build")
    /\ built' = built + 1
    /\ instances' = (instances \ {j[1]}) \cup {built'}
    /\ runner' = [runner EXCEPT ![built'] = Ready]
    /\ proc' = [proc EXCEPT ![j] = [pc |-> "release", inst |-> built']]
    /\ UNCHANGED <<idle, dead, killed, closed, closer, lost, faults>>

\* The engine is built; under the lock it takes the slot of the dead instance,
\* if that is still there, and is started.
Install(j) ==
    /\ At(j, "build") /\ j[1] \in instances
    /\ built' = built + 1
    /\ instances' = (instances \ {j[1]}) \cup {built'}
    /\ runner' = [runner EXCEPT ![built'] = Ready]
    /\ proc' = [proc EXCEPT ![j] = [pc |-> "release", inst |-> built']]
    /\ UNCHANGED <<idle, dead, killed, closed, closer, lost, faults>>

\* The slot was filled by the other call: the new engine is dropped.
Discard(j) ==
    /\ At(j, "build") /\ j[1] \notin instances
    /\ Return(j)
    /\ UNCHANGED <<instances, idle, dead, killed, closed, closer, built, lost,
                   faults>>

\* No engine can be built: the pool shrinks.
Shrink(j) ==
    /\ At(j, "build") /\ j[1] \in instances
    /\ instances' = instances \ {j[1]}
    /\ lost' = lost + 1
    /\ Return(j)
    /\ UNCHANGED <<idle, dead, killed, closed, closer, built, faults>>

-----------------------------------------------------------------------------
(* Close *)

Close ==
    /\ ~closed
    /\ closed' = TRUE
    /\ closer' = [pc |-> "wait", todo |-> instances]
    /\ UNCHANGED <<instances, idle, dead, killed, runner, proc, built, lost,
                   faults>>

\* An instance that is dead is not waited for.
CloseNext(i) ==
    /\ i \in closer.todo
    /\ \/ i \in dead
       \/ closer.pc = "wait" /\ runner[i].pc = "exited"
    /\ closer' = [closer EXCEPT !.todo = @ \ {i}]
    /\ UNCHANGED <<instances, idle, dead, killed, runner, proc, closed, built,
                   lost, faults>>

\* After RenderTimeout and a second what is left is killed.
CloseKill(i) ==
    /\ i \in closer.todo \ dead
    /\ closer.pc = "wait" => runner[i].pc = "render" /\ runner[i].kind = "slow"
    /\ closer' = [pc |-> "kill", todo |-> closer.todo \ {i}]
    /\ Kill(i, proc)
    /\ UNCHANGED <<instances, idle, runner, closed, built, lost, faults>>

-----------------------------------------------------------------------------

CallerNext(c) ==
    \/ Render(c) \/ Acquire(c) \/ Ask(c) \/ Receive(c) \/ Timeout(c)
    \/ GiveUp(c) \/ Refused(c)
    \/ \E kind \in Kinds : Send(c, kind)

JobNext(j) == Check(j) \/ Install(j) \/ Discard(j) \/ Shrink(j)

InstanceNext(i) == Finish(i) \/ Trap(i) \/ Retire(i) \/ Exit(i)

Next ==
    \/ \E c \in Callers : CallerNext(c)
    \/ \E p \in Procs : Release(p) \/ Push(p)
    \/ \E j \in Jobs : JobNext(j)
    \/ \E i \in Ids : InstanceNext(i)
    \/ Close
    \/ \E i \in Ids : CloseNext(i) \/ CloseKill(i)

Spec == Init /\ [][Next]_vars

-----------------------------------------------------------------------------
(* Fairness *)

\* Go schedules every goroutine that can run, and a timer fires.  Nobody has to
\* call Render or Close, no context has to end, and a slow render need not.
Fairness ==
    /\ \A c \in Callers :
          WF_vars(\/ Acquire(c) \/ Ask(c) \/ (\E kind \in Kinds : Send(c, kind))
                  \/ Receive(c) \/ Timeout(c) \/ Refused(c)
                  \/ Release(c) \/ Push(c))
    /\ \A j \in Jobs : WF_vars(JobNext(j) \/ Release(j) \/ Push(j))
    /\ \A i \in Ids :
          WF_vars(\/ runner[i].kind = "quick" /\ Finish(i)
                  \/ Retire(i) \/ Exit(i))
    /\ WF_vars(\E i \in Ids : CloseNext(i) \/ CloseKill(i))

FairSpec == Spec /\ Fairness

-----------------------------------------------------------------------------
(* Properties *)

TypeOK ==
    /\ instances \subseteq 1..built /\ built \in Size..MaxBuilt
    /\ idle \in Seq(Ids) /\ Len(idle) <= Size
    /\ killed \subseteq dead /\ dead \subseteq 1..built
    /\ runner \in [Ids -> Runners]
    /\ proc \in [Procs -> ProcStates]
    /\ closed \in BOOLEAN
    /\ closer \in [pc: {"none", "wait", "kill"}, todo: SUBSET Ids]
    /\ lost \in 0..Size /\ faults \in 0..MaxFaults

Holders(i) == {p \in Procs : Inst(p) = i}
Places(i) == Cardinality(Holders(i)) + Cardinality({n \in DOMAIN idle : idle[n] = i})

\* An instance is in one place: in the channel idle once, or with one caller or
\* one replacement that will put it there.  Given back twice, by a caller that
\* gave up and by the watchdog, it would serve two callers, of whom one waits
\* for the other without a timer; given back never, the pool is one smaller.
OneHolder ==
    \A i \in 1..built :
       /\ Places(i) <= 1
       /\ i \in instances \ dead /\ ~closed => Places(i) = 1

\* However the watchdog, a trap and Close meet on one instance, which two calls
\* of replaceInstance may then replace, the pool has Size slots but for those
\* that could not be filled, and until it is closed a slot with a dead instance
\* has somebody who is about to replace it.
CapacityKept ==
    /\ Cardinality(instances) + lost = Size
    /\ ~closed => \A i \in instances \cap dead :
                     \E j \in Jobs : j[1] = i /\ proc[j].pc \in {"check", "build"}

\* A caller whose request was accepted stops waiting, also when the engine never
\* answers: its own timer ends the wait, before Close and after it.
AcceptedReturns ==
    \A c \in Callers : At(c, "wait") ~> proc[c].pc \in {"release", "out"}

\* The engine of c's instance is gone, or renders for a caller that left: the
\* two ways in which a caller may find nobody to take its request.
Abandoned(c) ==
    \/ Inst(c) \in dead
    \/ /\ runner[Inst(c)].pc = "render" /\ runner[Inst(c)].kind = "slow"
       /\ runner[Inst(c)].for = Nobody

\* A caller that checked an instance out hands its request over or leaves, and if
\* it does not, the instance died in the channel or was given back by a caller
\* that left in the middle of a slow render.
HandedOver ==
    \A c \in Callers : At(c, "send") ~> (At(c, "send") => Abandoned(c))

\* Close returns, and so does every caller that is anywhere in Render, also one
\* that waits for an instance nobody will ever give back.
CloseReturns ==
    closed ~> (closer.todo = {} /\ \A p \in Procs : At(p, "out"))
=============================================================================
