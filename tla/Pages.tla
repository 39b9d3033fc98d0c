-------------------------------- MODULE Pages --------------------------------
(***************************************************************************)
(* One page served by the handler of platform/renderx: the embedded        *)
(* snapshot, the layered cache (memory, then disk), the render that        *)
(* requests share, the copy of any age when it fails, and the              *)
(* invalidation that follows a change of the page's data.                  *)
(*                                                                         *)
(* What a page shows is the version of the data it was rendered from.      *)
(* Processes are requests and publishers; a step is one lookup, one write  *)
(* of one layer, one load of the data or one render.  Time is the number   *)
(* of ticks since something happened, and no call spans a tick: a tick is  *)
(* a good part of an hour, a call at most some seconds.                    *)
(***************************************************************************)
EXTENDS Integers, FiniteSets

CONSTANTS
    Requests,       \* goroutines in ServeHTTP for this page
    Publishers,     \* callers of Invalidate and Refresh
    Nobody,
    TTL,            \* CacheConfig.TTL, in ticks
    PoisonTTL,      \* HandlerDeps.PoisonTTL, in ticks
    MaxVersion,     \* bound: changes of the data
    MaxFaults       \* bound: failures and restarts together

ASSUME PagesAssumption ==
    /\ Requests \cap Publishers = {} /\ Nobody \notin Requests \cup Publishers
    /\ {TTL, PoisonTTL, MaxVersion} \subseteq Nat \ {0} /\ MaxFaults \in Nat

VARIABLES
    data,           \* version of the data the loader reads
    outdated,       \* ticks since each version was superseded
    mem, disk,      \* the two layers of the cache
    embed,          \* the embedded snapshot: none, live or tombstoned
    poison,         \* ticks the page stays on the poison list
    flight,         \* leader of the singleflight call under way
    proc,           \* requests and publishers
    floor,          \* history: latest version whose Invalidate has returned
    revived,        \* history: a restart has brought the snapshot back
    faults

vars == <<data, outdated, mem, disk, embed, poison, flight, proc, floor,
          revived, faults>>

-----------------------------------------------------------------------------
(* Entries and processes *)

Versions == 0..MaxVersion
Ages == 0..(TTL + 1)
None == [version |-> -1, age |-> 0, stray |-> FALSE]
\* stray, a history: whoever held the entry was overtaken by an Invalidate of
\* newer data, which cannot take out of its hands what it has yet to write.
Entries == [version: Versions, age: Ages, stray: BOOLEAN]
New(v) == [version |-> v, age |-> 0, stray |-> FALSE]
Stray(e) == [version |-> e.version, age |-> e.age, stray |-> TRUE]
Procs == Requests \cup Publishers

Tiers == {"none", "embed", "cache", "render", "stale", "missing", "error"}
Places == {"out", "poison", "mem", "disk", "fill", "join", "wait", "load",
           "render", "put", "store", "failed", "peek", "peekDisk",
           "bury", "drop", "dropDisk"}

\* carry is the entry at hand; that of a publisher that invalidates is the
\* version it is about.  since is the floor when the request began.  Of an
\* answer we keep the tier, whether its data is older than since without being
\* a stray, and whether it had been outdated for longer than the TTL.
Idle == [pc |-> "out", carry |-> None, leads |-> FALSE, slow |-> FALSE,
         refresh |-> FALSE, since |-> 0,
         tier |-> "none", behind |-> FALSE, late |-> FALSE]

Min2(a, b) == IF a < b THEN a ELSE b
Max2(a, b) == IF a < b THEN b ELSE a

At(p, pc) == proc[p].pc = pc
Goto(p, pc) == proc' = [proc EXCEPT ![p].pc = pc]
Carry(p, pc, e) == proc' = [proc EXCEPT ![p].pc = pc, ![p].carry = e]

Leave(p) == proc' = [proc EXCEPT ![p] = Idle]

Expired(e) == e.age > TTL
Fresh(e) == e # None /\ ~Expired(e)

Answer(rec, tier, e) ==
    [Idle EXCEPT !.tier = tier,
                 !.behind = e # None /\ e.version < rec.since /\ ~e.stray,
                 !.late = e # None /\ outdated[e.version] > TTL]

Init ==
    /\ data = 0 /\ outdated = [v \in Versions |-> 0]
    /\ mem = None /\ disk = None
    /\ embed \in {"none", "live"} /\ poison = 0 /\ flight = Nobody
    /\ proc = [p \in Procs |-> Idle]
    /\ floor = 0 /\ revived = FALSE
    /\ faults = 0

Cache == <<mem, disk>>
World == <<data, outdated, floor, revived>>

-----------------------------------------------------------------------------
(* The history of overtaken entries *)

\* Where a process holds an entry that it will serve or write.
Writing(p) == proc[p].pc \in {"fill", "render", "put", "store"}

\* The deletion of p overtakes those that hold older data.
Overtaken(p, q) ==
    q # p /\ Writing(q) /\ proc[q].carry.version < proc[p].carry.version

\* An entry read from disk while an Invalidate of newer data has emptied memory
\* and not yet the disk.
Read(e) ==
    IF \E p \in Publishers :
           At(p, "dropDisk") /\ e.version < proc[p].carry.version
    THEN Stray(e) ELSE e

-----------------------------------------------------------------------------
(* The handler: ServeHTTP, serveStatic, serveStaleOrError *)

\* embedPage: the snapshot is of the data at build time.
Snapshot == [version |-> 0, age |-> 0, stray |-> revived]

Begin(r) ==
    /\ At(r, "out")
    /\ LET rec == [Idle EXCEPT !.since = floor]
       IN  proc' = [proc EXCEPT ![r] =
               IF embed = "live"
               THEN Answer(rec, "embed", Snapshot)
               ELSE [rec EXCEPT !.pc = "poison"]]
    /\ UNCHANGED <<World, Cache, embed, poison, flight, faults>>

Poisoned(r) ==
    /\ At(r, "poison")
    /\ Goto(r, IF poison > 0 THEN "peek" ELSE "mem")
    /\ UNCHANGED <<World, Cache, embed, poison, flight, faults>>

\* Do returns to r, and if it leads, to those that wait for it: p becomes to[p].
Land(r, to) ==
    /\ proc' = [p \in Procs |->
                  IF p = r \/ (proc[r].leads /\ At(p, "wait"))
                  THEN [to[p] EXCEPT !.leads = FALSE]
                  ELSE proc[p]]
    /\ flight' = IF proc[r].leads THEN Nobody ELSE flight

\* Get, the memory layer: an entry that has expired stays where it is.
GetMem(r) ==
    /\ At(r, "mem")
    /\ IF Fresh(mem)
       THEN Land(r, [p \in Procs |-> Answer(proc[p], "cache", mem)])
       ELSE Goto(r, "disk") /\ UNCHANGED flight
    /\ UNCHANGED <<World, Cache, embed, poison, faults>>

\* Get, the disk layer: the file is read, then copied into memory.
GetDisk(r) ==
    /\ At(r, "disk")
    /\ IF Fresh(disk) THEN Carry(r, "fill", Read(disk))
       ELSE Goto(r, IF proc[r].leads THEN "load" ELSE "join")
    /\ UNCHANGED <<World, Cache, embed, poison, flight, faults>>

\* Mutant: the copy in memory starts a life of its own.
FillAsNew(r) ==
    /\ At(r, "fill")
    /\ mem' = [proc[r].carry EXCEPT !.age = 0]
    /\ Land(r, [p \in Procs |-> Answer(proc[p], "cache", proc[r].carry)])
    /\ UNCHANGED <<World, disk, embed, poison, faults>>

Fill(r) ==
    /\ At(r, "fill")
    /\ mem' = proc[r].carry
    /\ Land(r, [p \in Procs |-> Answer(proc[p], "cache", proc[r].carry)])
    /\ UNCHANGED <<World, disk, embed, poison, faults>>

\* singleflight: the first becomes the leader and looks again.
Join(r) ==
    /\ At(r, "join")
    /\ IF flight = Nobody
       THEN /\ flight' = r
            /\ proc' = [proc EXCEPT ![r].pc = "mem", ![r].leads = TRUE]
       ELSE Goto(r, "wait") /\ UNCHANGED flight
    /\ UNCHANGED <<World, Cache, embed, poison, faults>>

Failed(rec) == [rec EXCEPT !.pc = "failed"]
TimedOut(rec) == [rec EXCEPT !.pc = "failed", !.slow = TRUE]

\* serveStatic after any other error: a page that timed out is put on the poison
\* list.
Fallback(r) ==
    /\ At(r, "failed")
    /\ poison' = IF proc[r].slow THEN PoisonTTL ELSE poison
    /\ Goto(r, "peek")
    /\ UNCHANGED <<World, Cache, embed, flight, faults>>

\* GetStale, the memory layer
PeekMem(r) ==
    /\ At(r, "peek")
    /\ proc' = [proc EXCEPT ![r] = IF mem # None THEN Answer(@, "stale", mem)
                                   ELSE [@ EXCEPT !.pc = "peekDisk"]]
    /\ UNCHANGED <<World, Cache, embed, poison, flight, faults>>

\* GetStale, the disk layer; without a copy the answer is the error page.
PeekDisk(r) ==
    /\ At(r, "peekDisk")
    /\ proc' = [proc EXCEPT ![r] =
           Answer(@, IF disk # None THEN "stale" ELSE "error", disk)]
    /\ UNCHANGED <<World, Cache, embed, poison, flight, faults>>

-----------------------------------------------------------------------------
(* Loads: propsForRoute, RenderOnce and Put, by leaders and by Refresh *)

Load(p) ==
    /\ At(p, "load")
    /\ Carry(p, "render", New(data))
    /\ UNCHANGED <<World, Cache, embed, poison, flight, faults>>

Render(p) ==
    /\ At(p, "render")
    /\ Goto(p, "put")
    /\ UNCHANGED <<World, Cache, embed, poison, flight, faults>>

\* The loader has no such page: serveNotFound, with no copy of any age and no
\* entry on the poison list, to the leader and to those that wait for it.
NotFound(p) ==
    /\ At(p, "load")
    /\ \/ p \in Requests
          /\ Land(p, [q \in Procs |-> Answer(proc[q], "missing", None)])
       \/ p \in Publishers /\ Leave(p) /\ UNCHANGED flight
    /\ UNCHANGED <<World, Cache, embed, poison, faults>>

\* The loader or the render returns another error; only a render can time out.
Fail(p) ==
    /\ proc[p].pc \in {"load", "render"}
    /\ faults < MaxFaults /\ faults' = faults + 1
    /\ \/ p \in Requests /\ Land(p, [q \in Procs |-> Failed(proc[q])])
       \/ /\ p \in Requests /\ At(p, "render")
          /\ Land(p, [q \in Procs |-> TimedOut(proc[q])])
       \/ p \in Publishers /\ Leave(p) /\ UNCHANGED flight
    /\ UNCHANGED <<World, Cache, embed, poison>>

PutMem(p) ==
    /\ At(p, "put")
    /\ mem' = proc[p].carry
    /\ Goto(p, "store")
    /\ UNCHANGED <<World, disk, embed, poison, flight, faults>>

\* The write to disk may fail: a request ignores it, rerender logs it.
PutDisk(p) ==
    /\ At(p, "store")
    /\ \/ disk' = proc[p].carry /\ UNCHANGED faults
       \/ faults < MaxFaults /\ faults' = faults + 1 /\ UNCHANGED disk
    /\ IF p \in Requests
       THEN Land(p, [q \in Procs |-> Answer(proc[q], "render", proc[p].carry)])
       ELSE Leave(p) /\ UNCHANGED flight
    /\ UNCHANGED <<World, mem, embed, poison>>

-----------------------------------------------------------------------------
(* A change of the data, and Service.Invalidate and Refresh after it *)

Publish(p, kind) ==
    /\ At(p, "out") /\ data < MaxVersion
    /\ data' = data + 1
    /\ proc' = [proc EXCEPT ![p] = [Idle EXCEPT
           !.pc = IF kind = "silent" THEN "out" ELSE "bury",
           !.carry = IF kind = "silent" THEN None
                     ELSE New(data + 1),
           !.refresh = kind = "refresh"]]
    /\ UNCHANGED <<outdated, floor, revived, Cache, embed, poison, flight,
                   faults>>

\* Mutant: the snapshot stays.
BuryNothing(p) ==
    /\ At(p, "bury")
    /\ Goto(p, "drop")
    /\ UNCHANGED <<World, Cache, embed, poison, flight, faults>>

\* invalidatePattern: the tombstone, then Delete layer by layer.
Bury(p) ==
    /\ At(p, "bury")
    /\ embed' = IF embed = "live" THEN "dead" ELSE embed
    /\ revived' = FALSE
    /\ Goto(p, "drop")
    /\ UNCHANGED <<data, outdated, floor, Cache, poison, flight, faults>>

DropMem(p) ==
    /\ At(p, "drop")
    /\ mem' = None
    /\ proc' = [q \in Procs |->
                  IF Overtaken(p, q)
                  THEN [proc[q] EXCEPT !.carry = Stray(@)]
                  ELSE IF q = p THEN [proc[q] EXCEPT !.pc = "dropDisk"]
                  ELSE proc[q]]
    /\ UNCHANGED <<World, disk, embed, poison, flight, faults>>

DropDisk(p) ==
    /\ At(p, "dropDisk")
    /\ disk' = None
    /\ floor' = Max2(floor, proc[p].carry.version)
    /\ IF proc[p].refresh THEN Carry(p, "load", None) ELSE Leave(p)
    /\ UNCHANGED <<data, outdated, revived, mem, embed, poison, flight, faults>>

\* Delete of the file fails; Invalidate and Refresh return the error.
DropFails(p) ==
    /\ At(p, "dropDisk") /\ faults < MaxFaults
    /\ faults' = faults + 1
    /\ Leave(p)
    /\ UNCHANGED <<World, Cache, embed, poison, flight>>

-----------------------------------------------------------------------------
(* The environment *)

\* Other pages push this one out of memory.
Evict ==
    /\ mem # None
    /\ mem' = None
    /\ UNCHANGED <<World, disk, embed, poison, flight, proc, faults>>

\* The process ends and starts again on the same build: the disk layer and the
\* poison list are read back, memory and the tombstones are gone, so that a
\* snapshot that had been invalidated is served again.
Restart ==
    /\ faults < MaxFaults /\ faults' = faults + 1
    /\ mem' = None
    /\ embed' = IF embed = "dead" THEN "live" ELSE embed
    /\ flight' = Nobody
    /\ proc' = [p \in Procs |-> Idle]
    /\ revived' = (revived \/ embed = "dead")
    /\ UNCHANGED <<data, outdated, floor, disk, poison>>

Older(e) == IF e = None THEN None ELSE [e EXCEPT !.age = Min2(@ + 1, TTL + 1)]

Tick ==
    /\ \A p \in Procs : At(p, "out")
    /\ mem' = Older(mem) /\ disk' = Older(disk)
    /\ outdated' = [v \in Versions |->
           IF v < data THEN Min2(outdated[v] + 1, TTL + 1) ELSE 0]
    /\ poison' = IF poison > 0 THEN poison - 1 ELSE 0
    /\ UNCHANGED <<data, floor, revived, embed, flight, proc, faults>>

-----------------------------------------------------------------------------
(* The specification *)

Handle(r) == Poisoned(r) \/ GetMem(r) \/ GetDisk(r) \/ Fill(r) \/ Join(r)
             \/ Load(r) \/ NotFound(r) \/ Render(r) \/ Fail(r) \/ PutMem(r)
             \/ PutDisk(r) \/ Fallback(r) \/ PeekMem(r) \/ PeekDisk(r)
Advance(p) == Bury(p) \/ DropMem(p) \/ DropDisk(p) \/ DropFails(p)
              \/ Load(p) \/ NotFound(p) \/ Render(p) \/ Fail(p) \/ PutMem(p)
              \/ PutDisk(p)

Next ==
    \/ \E r \in Requests : Begin(r) \/ Handle(r)
    \/ \E p \in Publishers :
           \/ \E kind \in {"silent", "invalidate", "refresh"} :
                  Publish(p, kind)
           \/ Advance(p)
    \/ Evict \/ Restart \/ Tick

Spec == Init /\ [][Next]_vars

-----------------------------------------------------------------------------
(* Properties *)

TypeOK ==
    /\ data \in Versions /\ floor \in Versions
    /\ outdated \in [Versions -> Ages]
    /\ mem \in Entries \cup {None} /\ disk \in Entries \cup {None}
    /\ embed \in {"none", "live", "dead"} /\ poison \in 0..PoisonTTL
    /\ flight \in Requests \cup {Nobody}
    /\ \A p \in Procs : /\ proc[p].pc \in Places
                        /\ proc[p].carry \in Entries \cup {None}
                        /\ proc[p].tier \in Tiers
                        /\ proc[p].since \in Versions
                        /\ p \in Requests =>
                               (proc[p].leads <=> flight = p)
    /\ revived \in BOOLEAN

Answered(r, tiers) == At(r, "out") /\ proc[r].tier \in tiers

\* A request that begins after an Invalidate has returned (whichever Invalidate,
\* and whatever ran beside it) shows the data that it was about or newer, from
\* every tier, but for the two ways in which the code brings older data back:
\*  - a stray: a request or Refresh had loaded the data, or read the file, when
\*    the Invalidate deleted the layers, and wrote or served it afterwards
\*    (cache.go:134, :211); TTLBacksUp bounds how long the cache serves it;
\*  - a restart on the same build, which forgets the tombstones and serves the
\*    snapshot again until the next Invalidate.
\* docs/rendering.md:703 promises the next request without either exception, and
\* invalidate.go:58-60 has only the next build clear the tombstones.
InvalidatedIsGone ==
    \A r \in Requests :
        Answered(r, {"embed", "cache", "render", "stale"})
            => ~proc[r].behind

\* The TTL bounds a missed invalidation: what is served from the cache or from
\* a shared render was the current data at most TTL ago, however often the page
\* moved from disk to memory, across renders that overtake each other, failed
\* writes and restarts.
TTLBacksUp ==
    \A r \in Requests : Answered(r, {"cache", "render"}) => ~proc[r].late
=============================================================================
