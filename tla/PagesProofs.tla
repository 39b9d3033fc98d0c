---------------------------- MODULE PagesProofs ----------------------------
(***************************************************************************)
(* Proofs about Pages, for any requests, publishers, lifetimes and bounds. *)
(***************************************************************************)
EXTENDS Pages, TLAPS

-----------------------------------------------------------------------------
(* The inductive invariant *)

ProcRecs ==
    [pc: Places, carry: Entries \cup {None}, leads: BOOLEAN, slow: BOOLEAN,
     refresh: BOOLEAN, since: Versions, tier: Tiers, behind: BOOLEAN,
     late: BOOLEAN]

\* Where a publisher is in its Invalidate.
Invalidating(p) == proc[p].pc \in {"bury", "drop", "dropDisk"}

\* What a process carries is an entry where it needs one; only the leader of
\* the shared render leads, and only between its two looks at the cache and
\* the end of the render.
Carrying ==
    /\ proc \in [Procs -> ProcRecs]
    /\ \A p \in Procs :
         /\ Writing(p) \/ Invalidating(p) => proc[p].carry \in Entries
         /\ Invalidating(p) => proc[p].carry.version <= data
    /\ \A r \in Requests :
         proc[r].pc \in {"out", "poison", "peek", "peekDisk", "failed",
                         "join", "wait"}
           => ~proc[r].leads

\* An entry is as old as its data has been outdated, at least.
Aged(e) == e # None => outdated[e.version] <= e.age

Timely ==
    /\ \A v \in Versions : v >= data => outdated[v] = 0
    /\ Aged(mem) /\ Aged(disk)
    /\ \A p \in Procs : Writing(p) => /\ Aged(proc[p].carry)
                                      /\ proc[p].carry.age <= TTL

\* An entry is of version v or newer, or a stray.
Past(e, v) == e # None => e.version >= v \/ e.stray
Above(e) == Past(e, floor)

\* Nothing older than the floor is in the cache or about to be, but strays.
Recent ==
    /\ floor <= data
    /\ Above(mem) /\ Above(disk)
    /\ \A p \in Procs : Writing(p) => Above(proc[p].carry)

\* A live snapshot is older than any Invalidate that ran to its end, unless a
\* restart has brought it back.
Buried ==
    /\ embed = "live" => floor = 0 \/ revived
    /\ \A p \in Publishers :
         proc[p].pc \in {"drop", "dropDisk"} => embed # "live"

\* Once an Invalidate has emptied memory, what is written there is what it was
\* about, newer or a stray, and so is what a process holds.
Cleaning ==
    \A p \in Publishers : At(p, "dropDisk") =>
       /\ Past(mem, proc[p].carry.version)
       /\ \A q \in Procs :
             Writing(q) => Past(proc[q].carry, proc[p].carry.version)

Honest(rec) ==
    /\ rec.since <= floor
    /\ rec.pc = "out" =>
         /\ rec.tier \in {"embed", "cache", "render", "stale"} => ~rec.behind
         /\ rec.tier \in {"cache", "render"} => ~rec.late

IInv ==
    /\ TypeOK /\ Carrying /\ Timely /\ Recent /\ Buried /\ Cleaning
    /\ \A r \in Requests : Honest(proc[r])

-----------------------------------------------------------------------------
(* Values *)

LEMMA Values ==
    /\ TTL \in Nat /\ PoisonTTL \in Nat /\ MaxVersion \in Nat
    /\ 0 \in Versions /\ 0 \in Ages /\ 0 <= TTL
    /\ Versions \subseteq Nat /\ Ages \subseteq Nat
    /\ None \notin Entries /\ Idle \in ProcRecs
    /\ Requests \subseteq Procs /\ Publishers \subseteq Procs
    /\ \A v \in Versions : New(v) \in Entries /\ New(v).version = v
                          /\ New(v).age = 0 /\ ~New(v).stray
    /\ \A e \in Entries : /\ e.version \in Versions /\ e.age \in Ages
                          /\ e.version \in Nat /\ e.age \in Nat
<1>1. TTL \in Nat /\ PoisonTTL \in Nat /\ MaxVersion \in Nat
  BY PagesAssumption
<1>2. /\ 0 \in Versions /\ 0 \in Ages /\ 0 <= TTL
      /\ Versions \subseteq Nat /\ Ages \subseteq Nat
  BY <1>1 DEF Versions, Ages
<1>3. None \notin Entries /\ Idle \in ProcRecs
  BY <1>2 DEF None, Entries, Idle, ProcRecs, Places, Tiers
<1>4. /\ \A v \in Versions : New(v) \in Entries /\ New(v).version = v
                            /\ New(v).age = 0 /\ ~New(v).stray
      /\ \A e \in Entries : /\ e.version \in Versions /\ e.age \in Ages
                            /\ e.version \in Nat /\ e.age \in Nat
  BY <1>2 DEF Entries, New
<1> QED
  BY <1>1, <1>2, <1>3, <1>4 DEF Procs

\* A stray is an entry of the same version and age.
LEMMA StrayEntry ==
    ASSUME NEW e \in Entries
    PROVE  /\ Stray(e) \in Entries
           /\ Stray(e).version = e.version
           /\ Stray(e).age = e.age
           /\ Stray(e).stray
  BY Values DEF Stray, Entries

\* What is read from disk is the entry of the file, a stray if an Invalidate of
\* newer data has yet to delete the file.
LEMMA ReadEntry ==
    ASSUME NEW e \in Entries
    PROVE  /\ Read(e) \in Entries
           /\ Read(e).version = e.version
           /\ Read(e).age = e.age
           /\ e.stray => Read(e).stray
           /\ \A p \in Publishers : At(p, "dropDisk") =>
                 \/ ~(e.version < proc[p].carry.version)
                 \/ Read(e).stray
  BY StrayEntry DEF Read

\* An answer ends the handling of a request and keeps nothing of it but the
\* tier and how old its data is.
LEMMA AnswerType ==
    ASSUME NEW rec \in ProcRecs, NEW tier \in Tiers,
           NEW e \in Entries \cup {None}
    PROVE  /\ Answer(rec, tier, e) \in ProcRecs
           /\ Answer(rec, tier, e).pc = "out"
           /\ Answer(rec, tier, e).tier = tier
           /\ Answer(rec, tier, e).since = 0
           /\ ~Answer(rec, tier, e).leads
           /\ Answer(rec, tier, e).behind
                <=> (e # None /\ e.version < rec.since /\ ~e.stray)
           /\ Answer(rec, tier, e).late
                <=> (e # None /\ outdated[e.version] > TTL)
<1>1. (e # None /\ e.version < rec.since /\ ~e.stray) \in BOOLEAN
  OBVIOUS
<1>2. (e # None /\ outdated[e.version] > TTL) \in BOOLEAN
  OBVIOUS
<1>3. Idle \in ProcRecs
  BY Values
<1> QED
  BY <1>1, <1>2, <1>3, ZenonT(60) DEF Answer, Idle, ProcRecs

\* An answer that shows nothing older than the floor, and nothing that has
\* been outdated for longer than the TTL, is an honest one.
LEMMA AnswerHonest ==
    ASSUME NEW rec \in ProcRecs, NEW tier \in Tiers,
           NEW e \in Entries \cup {None}, floor \in Versions,
           rec.since <= floor, Above(e),
           tier \in {"cache", "render"} =>
             outdated[e.version] \in Nat /\ outdated[e.version] <= TTL
    PROVE  Honest(Answer(rec, tier, e))
<1>1. rec.since \in Nat /\ floor \in Nat /\ TTL \in Nat
  BY Values DEF ProcRecs
<1>2. ~(e # None /\ e.version < rec.since /\ ~e.stray)
  <2>1. CASE e \in Entries
    BY <1>1, <2>1, Values DEF Above, Past
  <2> QED
    BY <2>1
<1>3. tier \in {"cache", "render"}
        => ~(e # None /\ outdated[e.version] > TTL)
  BY <1>1
<1>4. Answer(rec, tier, e).since <= floor
  BY <1>1, AnswerType
<1>5. ~Answer(rec, tier, e).behind
  BY <1>2, AnswerType
<1>6. Answer(rec, tier, e).tier \in {"cache", "render"}
        => ~Answer(rec, tier, e).late
  BY <1>3, AnswerType
<1> QED
  BY <1>4, <1>5, <1>6 DEF Honest

-----------------------------------------------------------------------------
(* What a step does to the processes and the cache *)

\* Where the entry a process holds after a step comes from.
CarryFrom(p, e) ==
    \/ Writing(p) /\ (e = proc[p].carry \/ e = Stray(proc[p].carry))
    \/ e = New(data)
    \/ Fresh(disk) /\ e = Read(disk)

\* A layer is left alone, emptied or written by a process.
Layer(old, new) ==
    new = old \/ new = None \/ \E p \in Procs : Writing(p) /\ new = proc[p].carry

Moves ==
    /\ \A p \in Procs : Writing(p)' => CarryFrom(p, proc'[p].carry)
    /\ Layer(mem, mem') /\ Layer(disk, disk')

\* A layer that a process writes holds what the process held.
LEMMA LayerEntry ==
    ASSUME Carrying, NEW old \in Entries \cup {None}, NEW new,
           Layer(old, new)
    PROVE  new \in Entries \cup {None}
  BY DEF Layer, Carrying

LEMMA CarryEntry ==
    ASSUME TypeOK, Carrying, NEW p \in Procs, NEW e,
           CarryFrom(p, e)
    PROVE  e \in Entries
  BY Values, StrayEntry, ReadEntry DEF TypeOK, Carrying, CarryFrom, Fresh

LEMMA TimelyKept ==
    ASSUME TypeOK, Carrying, Timely, Moves, UNCHANGED outdated,
           data' \in Versions, data <= data'
    PROVE  Timely'
<1>1. data \in Nat /\ data' \in Nat /\ data \in Versions
  BY Values DEF TypeOK
<1>2. \A v \in Versions : v >= data' => outdated'[v] = 0
  BY <1>1, Values DEF Timely
<1>3. \A p \in Procs : Writing(p) => Aged(proc[p].carry)
  BY DEF Timely
<1>4. Aged(mem)' /\ Aged(disk)'
  BY <1>3 DEF Timely, Moves, Layer, Aged
<1>5. ASSUME NEW p \in Procs, Writing(p)'
      PROVE  Aged(proc[p].carry)' /\ proc'[p].carry.age <= TTL
  <2>1. CASE /\ Writing(p)
             /\ \/ proc'[p].carry = proc[p].carry
                \/ proc'[p].carry = Stray(proc[p].carry)
    <3>1. /\ proc[p].carry \in Entries
          /\ Aged(proc[p].carry) /\ proc[p].carry.age <= TTL
      BY <2>1 DEF Timely, Carrying
    <3> QED
      BY <2>1, <3>1, StrayEntry, Values DEF Aged
  <2>2. CASE proc'[p].carry = New(data)
    <3>1. outdated'[data] = 0
      BY <1>1 DEF Timely
    <3>2. /\ New(data) # None /\ New(data).version = data
          /\ New(data).age = 0 /\ 0 <= TTL
      BY <1>1, Values
    <3> HIDE DEF Aged
    <3>3. outdated'[New(data).version] <= New(data).age
      BY <3>1, <3>2
    <3> QED
      BY <2>2, <3>2, <3>3 DEF Aged
  <2>3. CASE Fresh(disk) /\ proc'[p].carry = Read(disk)
    <3>1. disk \in Entries /\ ~(disk.age > TTL)
      BY <2>3 DEF Fresh, Expired, TypeOK
    <3>2. disk.age \in Nat /\ TTL \in Nat
      BY <3>1, Values
    <3> QED
      BY <2>3, <3>1, <3>2, ReadEntry, Values DEF Timely, Aged
  <2> QED
    BY <1>5, <2>1, <2>2, <2>3 DEF Moves, CarryFrom
<1> QED
  BY <1>2, <1>4, <1>5 DEF Timely

\* If the layers and the processes hold nothing older than v but strays, neither
\* does a process after a step.
LEMMA CarryPast ==
    ASSUME TypeOK, Carrying, NEW p \in Procs, NEW v \in Nat, v <= data,
           NEW e, CarryFrom(p, e), Past(disk, v),
           Writing(p) => Past(proc[p].carry, v)
    PROVE  Past(e, v)
<1>1. data \in Nat /\ data \in Versions
  BY Values DEF TypeOK
<1>2. CASE Writing(p) /\ (e = proc[p].carry \/ e = Stray(proc[p].carry))
  <2>1. proc[p].carry \in Entries
    BY <1>2 DEF Carrying
  <2> QED
    BY <1>2, <2>1, StrayEntry DEF Past
<1>3. CASE e = New(data)
  BY <1>1, <1>3, Values DEF Past
<1>4. CASE Fresh(disk) /\ e = Read(disk)
  <2>1. disk \in Entries
    BY <1>4 DEF Fresh, TypeOK
  <2> QED
    BY <1>4, <2>1, ReadEntry, Values DEF Past
<1> QED
  BY <1>2, <1>3, <1>4 DEF CarryFrom

LEMMA RecentKept ==
    ASSUME TypeOK, Carrying, Recent, Moves, UNCHANGED floor,
           data' \in Versions, data <= data'
    PROVE  Recent'
<1>1. data \in Nat /\ data' \in Nat /\ floor \in Nat
  BY Values DEF TypeOK
<1>2. floor' <= data'
  BY <1>1 DEF Recent
<1>3. Above(mem)' /\ Above(disk)'
  BY DEF Recent, Moves, Layer, Above, Past
<1>4. ASSUME NEW p \in Procs, Writing(p)'
      PROVE  Above(proc[p].carry)'
  <2>1. Past(proc'[p].carry, floor)
    BY <1>1, <1>4, CarryPast DEF Recent, Above, Moves
  <2> QED
    BY <2>1 DEF Above
<1> QED
  BY <1>2, <1>3, <1>4 DEF Recent

\* Between the two deletions of an Invalidate, strays apart, nothing older comes
\* into memory or into the hands of a process.
LEMMA CleaningKept ==
    ASSUME TypeOK, Carrying, Cleaning, Moves,
           \A p \in Publishers : At(p, "dropDisk")' =>
              /\ proc'[p].carry = proc[p].carry
              /\ \/ At(p, "dropDisk")
                 \/ /\ mem' = None
                    /\ \A q \in Procs : Writing(q)' =>
                          Past(proc'[q].carry, proc[p].carry.version)
    PROVE  Cleaning'
<1> SUFFICES ASSUME NEW p \in Publishers, At(p, "dropDisk")'
             PROVE  /\ Past(mem', proc[p].carry.version)
                    /\ \A q \in Procs : Writing(q)' =>
                          Past(proc'[q].carry, proc[p].carry.version)
  BY DEF Cleaning, Past
<1>1. CASE /\ mem' = None
           /\ \A q \in Procs : Writing(q)' =>
                 Past(proc'[q].carry, proc[p].carry.version)
  BY <1>1 DEF Past
<1>2. CASE At(p, "dropDisk")
  <2> DEFINE v == proc[p].carry.version
  <2>1. /\ v \in Nat /\ v <= data
        /\ Past(mem, v)
        /\ \A q \in Procs : Writing(q) => Past(proc[q].carry, v)
    BY <1>2, Values DEF Cleaning, Carrying, Invalidating, At
  <2>2. ASSUME NEW q \in Procs, Writing(q)'
        PROVE  Past(proc'[q].carry, v)
    <3>1. CarryFrom(q, proc'[q].carry)
      BY <2>2 DEF Moves
    <3>2. CASE Fresh(disk) /\ proc'[q].carry = Read(disk)
      <4>1. disk \in Entries /\ disk.version \in Nat
        BY <3>2, Values DEF Fresh, TypeOK
      <4> QED
        BY <1>2, <2>1, <3>2, <4>1, ReadEntry DEF Past
    <3>3. CASE /\ Writing(q)
               /\ \/ proc'[q].carry = proc[q].carry
                  \/ proc'[q].carry = Stray(proc[q].carry)
      <4>1. proc[q].carry \in Entries
        BY <3>3 DEF Carrying
      <4> QED
        BY <2>1, <3>3, <4>1, StrayEntry DEF Past
    <3>4. CASE proc'[q].carry = New(data)
      <4>1. data \in Versions /\ data \in Nat
        BY Values DEF TypeOK
      <4> QED
        BY <2>1, <3>4, <4>1, Values DEF Past
    <3> QED
      BY <3>1, <3>2, <3>3, <3>4 DEF CarryFrom
  <2>3. Past(mem', v)
    BY <2>1 DEF Moves, Layer, Past
  <2> QED
    BY <2>2, <2>3
<1> QED
  BY <1>1, <1>2

\* The places from which a request does not lead.
Apart == {"out", "poison", "peek", "peekDisk", "failed", "join", "wait"}

\* A process moves to a record that is neither in an Invalidate nor at a place
\* of a leader it is not, and what it holds there is from somewhere.
Proper(p, rec) ==
    /\ rec.pc \in {"fill", "render", "put", "store"} => CarryFrom(p, rec.carry)
    /\ rec.pc \notin {"bury", "drop", "dropDisk"}
    /\ p \in Requests => /\ Honest(rec)
                         /\ rec.pc \in Apart => ~rec.leads

\* The steps of the handler and of the loads of Refresh.
LEMMA Handled ==
    ASSUME IInv, UNCHANGED <<data, outdated, floor, revived, embed>>,
           proc' \in [Procs -> ProcRecs],
           poison' \in 0..PoisonTTL, flight' \in Requests \cup {Nobody},
           \A r \in Requests : proc'[r].leads <=> flight' = r,
           Layer(mem, mem'), Layer(disk, disk'),
           \A p \in Procs : proc'[p] = proc[p] \/ Proper(p, proc'[p])
    PROVE  IInv'
<1>1. /\ TypeOK /\ Carrying /\ Timely /\ Recent /\ Buried /\ Cleaning
      /\ \A r \in Requests : Honest(proc[r])
  BY DEF IInv
<1>2. Moves
  BY <1>1 DEF Moves, Proper, Writing, CarryFrom
<1>3. \A p \in Procs : Invalidating(p)' => proc'[p] = proc[p]
  BY DEF Proper, Invalidating
<1>4. mem' \in Entries \cup {None} /\ disk' \in Entries \cup {None}
  BY <1>1, LayerEntry DEF TypeOK
<1>5. data' \in Versions /\ data <= data'
  BY <1>1, Values DEF TypeOK
<1>6. \A p \in Procs : Writing(p)' => proc'[p].carry \in Entries
  BY <1>1, <1>2, CarryEntry DEF Moves
<1>7. TypeOK'
  <2>1. revived' \in BOOLEAN
    BY <1>1 DEF TypeOK
  <2>2. \A p \in Procs : /\ proc'[p].pc \in Places
                         /\ proc'[p].carry \in Entries \cup {None}
                         /\ proc'[p].tier \in Tiers
                         /\ proc'[p].since \in Versions
    BY DEF ProcRecs
  <2> QED
    BY <1>1, <1>4, <2>1, <2>2, Values DEF TypeOK
<1>8. Carrying'
  <2>1. ASSUME NEW p \in Procs, Invalidating(p)'
        PROVE  proc'[p].carry \in Entries /\ proc'[p].carry.version <= data'
    BY <1>1, <1>3, <2>1 DEF Carrying, Invalidating
  <2>2. ASSUME NEW r \in Requests, proc'[r].pc \in Apart
        PROVE  ~proc'[r].leads
    BY <1>1, <2>2, Values DEF Carrying, Proper, Apart
  <2> QED
    BY <1>6, <2>1, <2>2 DEF Carrying, Apart
<1>9. Timely' /\ Recent'
  BY <1>1, <1>2, <1>5, TimelyKept, RecentKept
<1>10. Buried'
  BY <1>1, <1>3, Values DEF Buried, Invalidating
<1>11. Cleaning'
  <2>1. \A p \in Publishers : At(p, "dropDisk")' =>
           proc'[p] = proc[p] /\ At(p, "dropDisk")
    BY <1>3, Values DEF At, Invalidating
  <2> QED
    BY <1>1, <1>2, <2>1, CleaningKept
<1>12. \A r \in Requests : Honest(proc[r])'
  BY <1>1, Values DEF Proper, Honest
<1> QED
  BY <1>7, <1>8, <1>9, <1>10, <1>11, <1>12 DEF IInv

\* The steps that move one process and no flight.
LEMMA OneHandled ==
    ASSUME IInv, UNCHANGED <<data, outdated, floor, revived, embed, flight>>,
           poison' \in 0..PoisonTTL, Layer(mem, mem'), Layer(disk, disk'),
           NEW p \in Procs, NEW rec \in ProcRecs,
           proc' = [proc EXCEPT ![p] = rec],
           p \in Requests => rec.leads = proc[p].leads,
           Proper(p, rec)
    PROVE  IInv'
<1>1. /\ proc' \in [Procs -> ProcRecs]
      /\ proc'[p] = rec
      /\ \A q \in Procs \ {p} : proc'[q] = proc[q]
  BY DEF IInv, Carrying
<1>2. /\ flight' \in Requests \cup {Nobody}
      /\ \A r \in Requests : proc'[r].leads <=> flight' = r
  BY <1>1, Values DEF IInv, TypeOK
<1> QED
  BY <1>1, <1>2, Handled

\* A process goes on to another place and keeps what it carries.
LEMMA GotoRec ==
    ASSUME IInv, NEW p \in Procs, NEW pc \in Places
    PROVE  LET rec == [proc[p] EXCEPT !.pc = pc]
           IN  /\ rec \in ProcRecs
               /\ rec.pc = pc
               /\ rec.carry = proc[p].carry
               /\ rec.leads = proc[p].leads
               /\ p \in Requests /\ pc # "out" => Honest(rec)
<1>1. proc[p] \in ProcRecs
  BY DEF IInv, Carrying
<1>2. p \in Requests => proc[p].since <= floor
  BY DEF IInv, Honest
<1> QED
  BY <1>1, <1>2 DEF ProcRecs, Honest

-----------------------------------------------------------------------------
(* The handler *)

LEMMA BeginKeeps ==
    ASSUME IInv, NEW r \in Requests, Begin(r)
    PROVE  IInv'
<1> DEFINE rec == [Idle EXCEPT !.since = floor]
           e == Snapshot
           new == IF embed = "live" THEN Answer(rec, "embed", e)
                  ELSE [rec EXCEPT !.pc = "poison"]
<1>1. TypeOK /\ floor \in Versions /\ floor \in Nat /\ r \in Procs
  BY Values DEF IInv, TypeOK
<1>2. /\ rec \in ProcRecs /\ rec.since = floor
      /\ e \in Entries /\ e # None /\ e.version = 0 /\ e.stray = revived
  <2>1. rec \in ProcRecs /\ rec.since = floor
    BY <1>1, Values DEF ProcRecs, Idle
  <2>2. e \in Entries /\ e.version = 0 /\ e.stray = revived
    BY <1>1, Values DEF Snapshot, Entries, TypeOK
  <2> QED
    BY <2>1, <2>2, Values
<1>3. /\ proc' = [proc EXCEPT ![r] = new]
      /\ UNCHANGED <<data, outdated, floor, revived, embed, flight, mem, disk,
                     poison>>
  BY DEF Begin, World, Cache
<1>4. ~proc[r].leads
  BY DEF Begin, IInv, Carrying, At
<1>5. new \in ProcRecs /\ Proper(r, new) /\ ~new.leads
  <2>1. CASE embed = "live"
    <3>1. floor = 0 \/ revived
      BY <2>1 DEF IInv, Buried
    <3>2. Honest(Answer(rec, "embed", e))
      <4> HIDE DEF rec, e
      <4>1. Above(e)
        BY <1>1, <1>2, <3>1 DEF Above, Past
      <4> QED
        BY <1>1, <1>2, <4>1, AnswerHonest DEF Tiers
    <3>3. /\ new = Answer(rec, "embed", e)
          /\ "embed" \in Tiers
      BY <2>1 DEF Tiers
    <3> HIDE DEF rec, e, new
    <3> QED
      BY <1>2, <3>2, <3>3, AnswerType DEF Proper
  <2>2. CASE embed # "live"
    <3>1. new = [rec EXCEPT !.pc = "poison"]
      BY <2>2
    <3>2. new \in ProcRecs /\ new.pc = "poison" /\ new.since = floor
          /\ ~new.leads
      BY <1>1, <3>1, Values DEF ProcRecs, Places, Idle
    <3> QED
      BY <1>1, <3>2 DEF Proper, Honest
  <2> QED
    BY <2>1, <2>2
<1>6. poison' \in 0..PoisonTTL /\ Layer(mem, mem') /\ Layer(disk, disk')
  BY <1>1, <1>3 DEF TypeOK, Layer
<1>7. new.leads = proc[r].leads
  <2>1. new.leads \in BOOLEAN /\ proc[r].leads \in BOOLEAN
    BY <1>1, <1>5 DEF ProcRecs, IInv, Carrying
  <2> QED
    BY <1>4, <1>5, <2>1
<1> HIDE DEF rec, e, new
<1> QED
  BY <1>1, <1>3, <1>5, <1>6, <1>7, OneHandled

\* A step that moves a process to another place of the handler or of the loads,
\* carrying what it has.
LEMMA GotoKeeps ==
    ASSUME IInv, NEW p \in Procs, NEW pc \in Places,
           UNCHANGED <<data, outdated, floor, revived, embed, flight>>,
           poison' \in 0..PoisonTTL, Layer(mem, mem'), Layer(disk, disk'),
           Goto(p, pc), pc \notin {"out", "bury", "drop", "dropDisk"},
           pc \in {"fill", "render", "put", "store"} => Writing(p),
           p \in Requests /\ pc \in Apart => ~proc[p].leads
    PROVE  IInv'
<1> DEFINE rec == [proc[p] EXCEPT !.pc = pc]
<1>1. proc' = [proc EXCEPT ![p] = rec]
  BY DEF Goto, IInv, Carrying
<1>2. /\ rec \in ProcRecs
      /\ rec.pc = pc
      /\ rec.carry = proc[p].carry
      /\ rec.leads = proc[p].leads
      /\ p \in Requests => Honest(rec)
  BY GotoRec
<1> HIDE DEF rec
<1>3. Proper(p, rec)
  BY <1>2 DEF Proper, CarryFrom
<1> QED
  BY <1>1, <1>2, <1>3, OneHandled

LEMMA CarryKeeps ==
    ASSUME IInv, NEW p \in Procs,
           NEW pc \in {"fill", "render"}, NEW e,
           UNCHANGED <<data, outdated, floor, revived, embed, flight, poison,
                       mem, disk>>,
           Carry(p, pc, e), CarryFrom(p, e)
    PROVE  IInv'
<1> DEFINE rec == [proc[p] EXCEPT !.pc = pc, !.carry = e]
<1>1. proc' = [proc EXCEPT ![p] = rec]
  BY DEF Carry, IInv, Carrying
<1>2. proc[p] \in ProcRecs /\ e \in Entries /\ pc \in Places
  BY CarryEntry DEF IInv, Carrying, Places
<1>3. /\ rec \in ProcRecs
      /\ rec.pc = pc
      /\ rec.carry = e
      /\ rec.leads = proc[p].leads
      /\ rec.since = proc[p].since
  BY <1>2 DEF ProcRecs
<1> HIDE DEF rec
<1>4. p \in Requests => Honest(rec)
  BY <1>3 DEF IInv, Honest
<1>5. Proper(p, rec)
  BY <1>3, <1>4 DEF Proper, Apart
<1>6. poison' \in 0..PoisonTTL /\ Layer(mem, mem') /\ Layer(disk, disk')
  BY DEF IInv, TypeOK, Layer
<1> QED
  BY <1>1, <1>3, <1>5, <1>6, OneHandled

\* Do returns: the caller and, if it leads, those who wait move to proper places.
LEMMA LandKeeps ==
    ASSUME IInv, NEW r \in Requests, NEW to \in [Procs -> ProcRecs],
           UNCHANGED <<data, outdated, floor, revived, embed>>,
           poison' \in 0..PoisonTTL, Layer(mem, mem'), Layer(disk, disk'),
           Land(r, to),
           \A p \in Procs : p = r \/ At(p, "wait") =>
              /\ to[p].pc \in {"out", "failed"}
              /\ p \in Requests => Honest(to[p])
    PROVE  IInv'
<1>1. ASSUME NEW p \in Procs
      PROVE  \/ /\ proc'[p] = proc[p]
                /\ ~(p = r \/ (proc[r].leads /\ At(p, "wait")))
             \/ /\ p = r \/ (proc[r].leads /\ At(p, "wait"))
                /\ proc'[p] = [to[p] EXCEPT !.leads = FALSE]
  BY DEF Land
<1>2. ASSUME NEW p \in Procs
      PROVE  LET rec == [to[p] EXCEPT !.leads = FALSE]
             IN  /\ rec \in ProcRecs
                 /\ rec.pc = to[p].pc
                 /\ ~rec.leads
                 /\ Honest(to[p]) => Honest(rec)
  BY DEF ProcRecs, Honest
<1>3. \A p \in Procs : proc[p] \in ProcRecs
  BY DEF IInv, Carrying
<1>4. proc' \in [Procs -> ProcRecs]
  BY <1>1, <1>2, <1>3 DEF Land
<1>5. \A p \in Procs : proc'[p] = proc[p] \/ Proper(p, proc'[p])
  BY <1>1, <1>2 DEF Proper
<1>6. r \in Procs /\ ~proc'[r].leads
  BY <1>1, <1>2, Values
<1>7. flight' \in Requests \cup {Nobody}
  BY DEF Land, IInv, TypeOK
<1>8. ASSUME NEW q \in Requests
      PROVE  proc'[q].leads <=> flight' = q
  <2>1. q \in Procs /\ q # Nobody /\ r # Nobody
    BY Values, PagesAssumption
  <2>2. /\ proc[q].leads <=> flight = q
        /\ proc[r].leads <=> flight = r
    BY Values DEF IInv, TypeOK
  <2>3. CASE q = r
    BY <1>6, <2>1, <2>2, <2>3 DEF Land
  <2>4. CASE q # r
    <3>1. proc[q].pc = "wait" => ~proc[q].leads
      BY DEF IInv, Carrying
    <3>2. proc'[q].leads <=> proc[q].leads
      BY <1>1, <1>2, <2>1, <2>2, <2>4, <3>1 DEF At
    <3> QED
      BY <2>1, <2>2, <2>4, <3>2 DEF Land
  <2> QED
    BY <2>3, <2>4
<1> QED
  BY <1>4, <1>5, <1>7, <1>8, Handled

\* What an answer shows when it comes from a layer or from a process.
LEMMA ShownAge ==
    ASSUME IInv, NEW e \in Entries, Aged(e), e.age <= TTL
    PROVE  outdated[e.version] \in Nat /\ outdated[e.version] <= TTL
<1>1. outdated[e.version] \in Nat /\ e.age \in Nat /\ TTL \in Nat
  BY Values DEF IInv, TypeOK
<1>2. outdated[e.version] <= e.age
  BY Values DEF Aged
<1> QED
  BY <1>1, <1>2

LEMMA AnswersAll ==
    ASSUME IInv, NEW tier \in Tiers, NEW e \in Entries \cup {None}, Above(e),
           tier \in {"cache", "render"} =>
              outdated[e.version] \in Nat /\ outdated[e.version] <= TTL
    PROVE  /\ [p \in Procs |-> Answer(proc[p], tier, e)] \in [Procs -> ProcRecs]
           /\ \A p \in Procs : /\ Answer(proc[p], tier, e).pc = "out"
                               /\ ~Answer(proc[p], tier, e).leads
           /\ \A r \in Requests : Honest(Answer(proc[r], tier, e))
<1>1. floor \in Versions /\ \A p \in Procs : proc[p] \in ProcRecs
  BY DEF IInv, TypeOK, Carrying
<1>2. \A r \in Requests : r \in Procs /\ proc[r].since <= floor
  BY Values DEF IInv, Honest
<1> QED
  BY <1>1, <1>2, AnswerType, AnswerHonest

LEMMA FreshShown ==
    ASSUME IInv, NEW e, e \in {mem, disk}, Fresh(e)
    PROVE  /\ e \in Entries
           /\ Above(e)
           /\ outdated[e.version] \in Nat /\ outdated[e.version] <= TTL
<1>1. e \in Entries /\ Above(e) /\ Aged(e) /\ ~(e.age > TTL)
  BY DEF Fresh, Expired, IInv, TypeOK, Recent, Timely
<1>2. e.age \in Nat /\ TTL \in Nat
  BY <1>1, Values
<1> QED
  BY <1>1, <1>2, ShownAge

LEMMA HeldShown ==
    ASSUME IInv, NEW p \in Procs, Writing(p)
    PROVE  LET e == proc[p].carry
           IN  /\ e \in Entries
               /\ Above(e)
               /\ outdated[e.version] \in Nat /\ outdated[e.version] <= TTL
<1>1. /\ proc[p].carry \in Entries /\ Above(proc[p].carry)
      /\ Aged(proc[p].carry) /\ proc[p].carry.age <= TTL
  BY DEF IInv, Carrying, Recent, Timely
<1> QED
  BY <1>1, ShownAge

\* All that the handler and the loads of Refresh do keeps the invariant.
LEMMA LooksKeep ==
    ASSUME IInv, NEW r \in Requests,
           GetMem(r) \/ GetDisk(r) \/ Fill(r) \/ Join(r)
    PROVE  IInv'
<1>1. r \in Procs /\ TypeOK /\ poison \in 0..PoisonTTL
  BY Values DEF IInv, TypeOK
<1>2. CASE GetMem(r)
  <2>1. /\ UNCHANGED <<data, outdated, floor, revived, embed, mem, disk,
                       poison>>
        /\ At(r, "mem")
    BY <1>2 DEF GetMem, World, Cache
  <2>2. poison' \in 0..PoisonTTL /\ Layer(mem, mem') /\ Layer(disk, disk')
    BY <1>1, <2>1 DEF Layer
  <2>3. CASE Fresh(mem)
    <3> DEFINE to == [p \in Procs |-> Answer(proc[p], "cache", mem)]
    <3>1. /\ mem \in Entries \cup {None} /\ Above(mem) /\ "cache" \in Tiers
          /\ outdated[mem.version] \in Nat /\ outdated[mem.version] <= TTL
      BY <2>3, FreshShown DEF Tiers
    <3>2. /\ to \in [Procs -> ProcRecs]
          /\ \A p \in Procs : to[p].pc = "out"
          /\ \A p \in Requests : Honest(to[p])
      BY <3>1, AnswersAll, Values
    <3>3. Land(r, to)
      BY <1>2, <2>3 DEF GetMem
    <3> HIDE DEF to
    <3> QED
      BY <2>1, <2>2, <3>2, <3>3, LandKeeps
  <2>4. CASE ~Fresh(mem)
    <3>1. Goto(r, "disk") /\ UNCHANGED flight
      BY <1>2, <2>4 DEF GetMem
    <3> QED
      BY <1>1, <2>1, <2>2, <3>1, GotoKeeps DEF Places, Apart
  <2> QED
    BY <2>3, <2>4
<1>3. CASE GetDisk(r)
  <2>1. /\ UNCHANGED <<data, outdated, floor, revived, embed, mem, disk,
                       poison, flight>>
    BY <1>3 DEF GetDisk, World, Cache
  <2>2. poison' \in 0..PoisonTTL /\ Layer(mem, mem') /\ Layer(disk, disk')
    BY <1>1, <2>1 DEF Layer
  <2>3. CASE Fresh(disk)
    <3>1. Carry(r, "fill", Read(disk)) /\ CarryFrom(r, Read(disk))
      BY <1>3, <2>3 DEF GetDisk, CarryFrom
    <3> QED
      BY <1>1, <2>1, <3>1, CarryKeeps
  <2>4. CASE ~Fresh(disk) /\ proc[r].leads
    <3>1. Goto(r, "load")
      BY <1>3, <2>4 DEF GetDisk
    <3> QED
      BY <1>1, <2>1, <2>2, <3>1, GotoKeeps DEF Places, Apart
  <2>5. CASE ~Fresh(disk) /\ ~proc[r].leads
    <3>1. Goto(r, "join")
      BY <1>3, <2>5 DEF GetDisk
    <3> QED
      BY <1>1, <2>1, <2>2, <2>5, <3>1, GotoKeeps DEF Places, Apart
  <2> QED
    BY <2>3, <2>4, <2>5
<1>4. CASE Fill(r)
  <2> DEFINE e == proc[r].carry
             to == [p \in Procs |-> Answer(proc[p], "cache", e)]
  <2>1. /\ UNCHANGED <<data, outdated, floor, revived, embed, disk, poison>>
        /\ mem' = e
        /\ Land(r, to)
        /\ Writing(r)
    BY <1>4 DEF Fill, World, At, Writing
  <2>2. poison' \in 0..PoisonTTL /\ Layer(mem, mem') /\ Layer(disk, disk')
    BY <1>1, <2>1 DEF Layer
  <2>3. /\ e \in Entries \cup {None} /\ Above(e) /\ "cache" \in Tiers
        /\ outdated[e.version] \in Nat /\ outdated[e.version] <= TTL
    BY <1>1, <2>1, HeldShown DEF Tiers
  <2> HIDE DEF e
  <2>4. /\ to \in [Procs -> ProcRecs]
        /\ \A p \in Procs : to[p].pc = "out"
        /\ \A p \in Requests : Honest(to[p])
    BY <2>3, AnswersAll, Values
  <2> HIDE DEF to
  <2> QED
    BY <2>1, <2>2, <2>4, LandKeeps
<1>5. CASE Join(r)
  <2>1. /\ UNCHANGED <<data, outdated, floor, revived, embed, mem, disk,
                       poison>>
        /\ At(r, "join") /\ ~proc[r].leads
    BY <1>1, <1>5 DEF Join, World, Cache, At, IInv, Carrying
  <2>2. poison' \in 0..PoisonTTL /\ Layer(mem, mem') /\ Layer(disk, disk')
    BY <1>1, <2>1 DEF Layer
  <2>3. CASE flight = Nobody
    <3> DEFINE rec == [proc[r] EXCEPT !.pc = "mem", !.leads = TRUE]
    <3>1. proc[r] \in ProcRecs /\ Honest(proc[r])
      BY <1>1 DEF IInv, Carrying
    <3>2. /\ flight' = r
          /\ proc' = [proc EXCEPT ![r] = rec]
      BY <1>5, <2>3 DEF Join, IInv, Carrying
    <3>3. rec \in ProcRecs /\ rec.pc = "mem" /\ rec.leads
          /\ rec.since = proc[r].since
      BY <3>1 DEF ProcRecs, Places
    <3> HIDE DEF rec
    <3>4. /\ proc' \in [Procs -> ProcRecs]
          /\ proc'[r] = rec
          /\ \A q \in Procs \ {r} : proc'[q] = proc[q]
      BY <1>1, <3>2, <3>3 DEF IInv, Carrying
    <3>5. Proper(r, rec)
      BY <3>1, <3>3 DEF Proper, Honest, Apart
    <3>6. \A q \in Requests : proc'[q].leads <=> flight' = q
      <4>1. \A q \in Requests : q \in Procs /\ q # Nobody
        BY Values, PagesAssumption
      <4>2. \A q \in Requests : ~proc[q].leads
        BY <2>3, <4>1 DEF IInv, TypeOK
      <4> QED
        BY <3>2, <3>3, <3>4, <4>1, <4>2
    <3> QED
      BY <1>1, <2>1, <2>2, <3>2, <3>4, <3>5, <3>6, Handled
  <2>4. CASE flight # Nobody
    <3>1. Goto(r, "wait") /\ UNCHANGED flight
      BY <1>5, <2>4 DEF Join
    <3> QED
      BY <1>1, <2>1, <2>2, <3>1, GotoKeeps DEF Places, Apart
  <2> QED
    BY <2>3, <2>4
<1> QED
  BY <1>2, <1>3, <1>4, <1>5

LEMMA FallbackKeeps ==
    ASSUME IInv, NEW r \in Requests,
           Poisoned(r) \/ Fallback(r) \/ PeekMem(r) \/ PeekDisk(r)
    PROVE  IInv'
<1>1. r \in Procs /\ TypeOK /\ poison \in 0..PoisonTTL /\ proc[r] \in ProcRecs
  BY Values DEF IInv, TypeOK, Carrying
<1>2. /\ UNCHANGED <<data, outdated, floor, revived, embed, mem, disk, flight>>
      /\ ~proc[r].leads
  BY <1>1 DEF Poisoned, Fallback, PeekMem, PeekDisk, World, Cache, At, IInv,
              Carrying
<1>3. Layer(mem, mem') /\ Layer(disk, disk')
  BY <1>2 DEF Layer
<1>4. CASE Poisoned(r)
  <2>1. poison' \in 0..PoisonTTL
    BY <1>1, <1>4 DEF Poisoned
  <2>2. Goto(r, "peek") \/ Goto(r, "mem")
    BY <1>4 DEF Poisoned
  <2> QED
    BY <1>1, <1>2, <1>3, <2>1, <2>2, GotoKeeps DEF Places
<1>5. CASE Fallback(r)
  <2>1. PoisonTTL \in Nat
    BY Values
  <2>2. poison' \in 0..PoisonTTL
    BY <1>1, <1>5, <2>1 DEF Fallback
  <2>3. Goto(r, "peek")
    BY <1>5 DEF Fallback
  <2> QED
    BY <1>1, <1>2, <1>3, <2>2, <2>3, GotoKeeps DEF Places
<1>6. ASSUME NEW tier \in {"stale", "error"}, NEW e \in {mem, disk},
             proc' = [proc EXCEPT ![r] = Answer(proc[r], tier, e)],
             UNCHANGED poison
      PROVE  IInv'
  <2> DEFINE rec == Answer(proc[r], tier, e)
  <2>1. e \in Entries \cup {None} /\ Above(e) /\ tier \in Tiers
    BY DEF IInv, TypeOK, Recent, Tiers
  <2>2. /\ rec \in ProcRecs /\ rec.pc = "out"
        /\ ~rec.leads
        /\ Honest(rec)
    BY <1>1, <2>1, AnswerType, AnswersAll
  <2>3. proc' = [proc EXCEPT ![r] = rec]
    BY <1>6
  <2> HIDE DEF rec
  <2>4. rec.leads = proc[r].leads
    BY <1>1, <1>2, <2>2 DEF ProcRecs
  <2>5. Proper(r, rec)
    BY <2>2 DEF Proper
  <2>6. poison' \in 0..PoisonTTL
    BY <1>1, <1>6
  <2> QED
    BY <1>1, <1>2, <1>3, <2>2, <2>3, <2>4, <2>5, <2>6, OneHandled
<1>7. CASE PeekMem(r)
  <2>1. UNCHANGED poison
    BY <1>7 DEF PeekMem
  <2>2. CASE mem # None
    <3>1. proc' = [proc EXCEPT ![r] = Answer(proc[r], "stale", mem)]
      BY <1>7, <2>2 DEF PeekMem, IInv, Carrying
    <3> QED
      BY <1>6, <2>1, <3>1
  <2>3. CASE mem = None
    <3>1. Goto(r, "peekDisk")
      BY <1>7, <2>3 DEF PeekMem, Goto, IInv, Carrying
    <3> QED
      BY <1>1, <1>2, <1>3, <2>1, <3>1, GotoKeeps DEF Places
  <2> QED
    BY <2>2, <2>3
<1>8. CASE PeekDisk(r)
  <2>1. UNCHANGED poison
    BY <1>8 DEF PeekDisk
  <2>2. PICK tier \in {"stale", "error"} :
           proc' = [proc EXCEPT ![r] = Answer(proc[r], tier, disk)]
    <3>1. proc' = [proc EXCEPT ![r] =
                     Answer(proc[r], IF disk # None THEN "stale" ELSE "error",
                            disk)]
      BY <1>8 DEF PeekDisk, IInv, Carrying
    <3> QED
      BY <3>1
  <2> QED
    BY <1>6, <2>1, <2>2
<1> QED
  BY <1>4, <1>5, <1>7, <1>8

-----------------------------------------------------------------------------
(* Loads *)

LEMMA LoadsKeep ==
    ASSUME IInv, NEW p \in Procs, Load(p) \/ Render(p) \/ PutMem(p)
    PROVE  IInv'
<1>1. TypeOK /\ poison \in 0..PoisonTTL /\ proc[p] \in ProcRecs
  BY DEF IInv, TypeOK, Carrying
<1>2. /\ UNCHANGED <<data, outdated, floor, revived, embed, poison, disk,
                     flight>>
  BY DEF Load, Render, PutMem, World, Cache
<1>3. poison' \in 0..PoisonTTL /\ Layer(disk, disk')
  BY <1>1, <1>2 DEF Layer
<1>4. CASE Load(p)
  <2>1. UNCHANGED mem
    BY <1>4 DEF Load, Cache
  <2>2. /\ Carry(p, "render", New(data))
        /\ CarryFrom(p, New(data))
    BY <1>4 DEF Load, CarryFrom
  <2> QED
    BY <1>2, <2>1, <2>2, CarryKeeps
<1>5. CASE Render(p)
  <2>1. Layer(mem, mem')
    BY <1>5 DEF Render, Cache, Layer
  <2>2. Goto(p, "put") /\ Writing(p)
    BY <1>5 DEF Render, At, Writing
  <2> QED
    BY <1>2, <1>3, <2>1, <2>2, GotoKeeps DEF Places, Apart
<1>6. CASE PutMem(p)
  <2>1. Goto(p, "store") /\ Writing(p)
    BY <1>6 DEF PutMem, At, Writing
  <2>2. Layer(mem, mem')
    BY <1>6, <2>1 DEF PutMem, Layer
  <2> QED
    BY <1>2, <1>3, <2>1, <2>2, GotoKeeps DEF Places, Apart
<1> QED
  BY <1>4, <1>5, <1>6

\* A publisher gives up, or is done.
LEMMA LeaveKeeps ==
    ASSUME IInv, NEW p \in Publishers, Leave(p),
           UNCHANGED <<data, outdated, floor, revived, embed, flight, poison>>,
           Layer(mem, mem'), Layer(disk, disk')
    PROVE  IInv'
<1>1. p \in Procs /\ p \notin Requests /\ Idle \in ProcRecs
  BY Values, PagesAssumption
<1>2. proc' = [proc EXCEPT ![p] = Idle]
  BY DEF Leave
<1>3. Proper(p, Idle)
  BY <1>1 DEF Proper, Idle
<1>4. poison' \in 0..PoisonTTL
  BY DEF IInv, TypeOK
<1> QED
  BY <1>1, <1>2, <1>3, <1>4, OneHandled

LEMMA FailKeeps ==
    ASSUME IInv, NEW p \in Procs, Fail(p)
    PROVE  IInv'
<1>1. /\ UNCHANGED <<data, outdated, floor, revived, embed, mem, disk, poison>>
  BY DEF Fail, World, Cache
<1>2. poison' \in 0..PoisonTTL /\ Layer(mem, mem') /\ Layer(disk, disk')
  BY <1>1 DEF IInv, TypeOK, Layer
<1>3. ASSUME NEW q \in Procs
      PROVE  /\ Failed(proc[q]) \in ProcRecs /\ Failed(proc[q]).pc = "failed"
             /\ TimedOut(proc[q]) \in ProcRecs
             /\ TimedOut(proc[q]).pc = "failed"
             /\ q \in Requests => /\ Honest(Failed(proc[q]))
                                  /\ Honest(TimedOut(proc[q]))
  <2>1. proc[q] \in ProcRecs
    BY DEF IInv, Carrying
  <2>2. q \in Requests => proc[q].since <= floor
    BY DEF IInv, Honest
  <2>3. "failed" \in Places
    BY DEF Places
  <2>4. /\ Failed(proc[q]) \in ProcRecs /\ Failed(proc[q]).pc = "failed"
        /\ Failed(proc[q]).since = proc[q].since
    BY <2>1, <2>3 DEF Failed, ProcRecs
  <2>5. /\ TimedOut(proc[q]) \in ProcRecs /\ TimedOut(proc[q]).pc = "failed"
        /\ TimedOut(proc[q]).since = proc[q].since
    BY <2>1, <2>3 DEF TimedOut, ProcRecs
  <2> QED
    BY <2>2, <2>4, <2>5 DEF Honest
<1>4. CASE p \in Requests /\ Land(p, [q \in Procs |-> Failed(proc[q])])
  <2> DEFINE to == [q \in Procs |-> Failed(proc[q])]
  <2>1. /\ to \in [Procs -> ProcRecs]
        /\ \A q \in Procs : /\ to[q].pc = "failed"
                            /\ q \in Requests => Honest(to[q])
    BY <1>3
  <2>2. Land(p, to)
    BY <1>4
  <2> HIDE DEF to
  <2> QED
    BY <1>1, <1>2, <1>4, <2>1, <2>2, LandKeeps
<1>5. CASE p \in Requests /\ Land(p, [q \in Procs |-> TimedOut(proc[q])])
  <2> DEFINE to == [q \in Procs |-> TimedOut(proc[q])]
  <2>1. /\ to \in [Procs -> ProcRecs]
        /\ \A q \in Procs : /\ to[q].pc = "failed"
                            /\ q \in Requests => Honest(to[q])
    BY <1>3
  <2>2. Land(p, to)
    BY <1>5
  <2> HIDE DEF to
  <2> QED
    BY <1>1, <1>2, <1>5, <2>1, <2>2, LandKeeps
<1>6. CASE p \in Publishers /\ Leave(p) /\ UNCHANGED flight
  BY <1>1, <1>2, <1>6, LeaveKeeps
<1> QED
  BY <1>4, <1>5, <1>6 DEF Fail

LEMMA NotFoundKeeps ==
    ASSUME IInv, NEW p \in Procs, NotFound(p)
    PROVE  IInv'
<1>1. UNCHANGED <<data, outdated, floor, revived, embed, mem, disk, poison>>
  BY DEF NotFound, World, Cache
<1>2. poison' \in 0..PoisonTTL /\ Layer(mem, mem') /\ Layer(disk, disk')
  BY <1>1 DEF IInv, TypeOK, Layer
<1>3. CASE p \in Requests
           /\ Land(p, [q \in Procs |-> Answer(proc[q], "missing", None)])
  <2> DEFINE to == [q \in Procs |-> Answer(proc[q], "missing", None)]
  <2>1. /\ None \in Entries \cup {None} /\ Above(None) /\ "missing" \in Tiers
    BY DEF Above, Past, Tiers
  <2>2. /\ to \in [Procs -> ProcRecs]
        /\ \A q \in Procs : to[q].pc = "out"
        /\ \A q \in Requests : Honest(to[q])
    BY <2>1, AnswersAll, Values
  <2>3. Land(p, to)
    BY <1>3
  <2> HIDE DEF to
  <2> QED
    BY <1>1, <1>2, <1>3, <2>2, <2>3, LandKeeps
<1>4. CASE p \in Publishers /\ Leave(p) /\ UNCHANGED flight
  BY <1>1, <1>2, <1>4, LeaveKeeps
<1> QED
  BY <1>3, <1>4 DEF NotFound

LEMMA PutDiskKeeps ==
    ASSUME IInv, NEW p \in Procs, PutDisk(p)
    PROVE  IInv'
<1> DEFINE e == proc[p].carry
           to == [q \in Procs |-> Answer(proc[q], "render", e)]
<1>1. /\ UNCHANGED <<data, outdated, floor, revived, embed, mem, poison>>
      /\ Writing(p)
  BY DEF PutDisk, World, At, Writing
<1>2. poison' \in 0..PoisonTTL /\ Layer(mem, mem') /\ Layer(disk, disk')
  BY <1>1 DEF IInv, TypeOK, Layer, PutDisk
<1>3. CASE p \in Requests
  <2>1. Land(p, to)
    BY <1>3 DEF PutDisk
  <2>2. /\ e \in Entries \cup {None} /\ Above(e) /\ "render" \in Tiers
        /\ outdated[e.version] \in Nat /\ outdated[e.version] <= TTL
    BY <1>1, HeldShown DEF Tiers
  <2> HIDE DEF e
  <2>3. /\ to \in [Procs -> ProcRecs]
        /\ \A q \in Procs : to[q].pc = "out"
        /\ \A q \in Requests : Honest(to[q])
    BY <2>2, AnswersAll, Values
  <2> HIDE DEF to
  <2> QED
    BY <1>1, <1>2, <1>3, <2>1, <2>3, LandKeeps
<1>4. CASE p \notin Requests
  <2>1. p \in Publishers /\ Leave(p) /\ UNCHANGED flight
    BY <1>4 DEF PutDisk, Procs
  <2> QED
    BY <1>1, <1>2, <2>1, LeaveKeeps
<1> QED
  BY <1>3, <1>4

-----------------------------------------------------------------------------
(* Invalidate *)

\* The steps of a publisher that begin an Invalidate or take it further.
LEMMA Invalidates ==
    ASSUME IInv, NEW p \in Publishers, NEW rec \in ProcRecs,
           proc' = [proc EXCEPT ![p] = rec],
           UNCHANGED <<outdated, floor, flight, poison, mem, disk>>,
           data' \in Versions, data <= data',
           embed' = embed \/ embed' = "dead",
           revived' \in BOOLEAN, embed' = "live" => revived' = revived,
           rec.pc \in {"out", "bury", "drop"},
           rec.pc # "out" => /\ rec.carry \in Entries
                             /\ rec.carry.version <= data',
           rec.pc = "drop" => embed' # "live"
    PROVE  IInv'
<1>1. /\ TypeOK /\ Carrying /\ Timely /\ Recent /\ Buried /\ Cleaning
      /\ \A r \in Requests : Honest(proc[r])
      /\ p \in Procs /\ p \notin Requests
  BY Values, PagesAssumption DEF IInv
<1>2. /\ proc' \in [Procs -> ProcRecs]
      /\ proc'[p] = rec
      /\ \A q \in Procs \ {p} : proc'[q] = proc[q]
  BY <1>1 DEF Carrying
<1>3. Moves
  BY <1>2 DEF Moves, Layer, Writing, CarryFrom
<1>4. mem' \in Entries \cup {None} /\ disk' \in Entries \cup {None}
  BY <1>1 DEF TypeOK
<1>5. data \in Nat /\ data' \in Nat
  BY <1>1, Values DEF TypeOK
<1>6. TypeOK'
  <2>1. revived' \in BOOLEAN
    OBVIOUS
  <2>2. \A q \in Procs : /\ proc'[q].pc \in Places
                         /\ proc'[q].carry \in Entries \cup {None}
                         /\ proc'[q].tier \in Tiers
                         /\ proc'[q].since \in Versions
    BY <1>2 DEF ProcRecs
  <2>3. \A r \in Requests : proc'[r].leads <=> flight' = r
    BY <1>1, <1>2, Values DEF TypeOK
  <2>4. embed' \in {"none", "live", "dead"}
    BY <1>1 DEF TypeOK
  <2> QED
    BY <1>1, <1>4, <2>1, <2>2, <2>3, <2>4 DEF TypeOK
<1>7. Carrying'
  <2>1. ASSUME NEW q \in Procs
        PROVE  /\ Writing(q)' \/ Invalidating(q)' => proc'[q].carry \in Entries
               /\ Invalidating(q)' => proc'[q].carry.version <= data'
    <3>1. CASE q = p
      BY <1>2, <3>1 DEF Writing, Invalidating
    <3>2. CASE q # p
      <4>1. /\ Writing(q) \/ Invalidating(q) => proc[q].carry \in Entries
            /\ Invalidating(q) => proc[q].carry.version <= data
        BY <1>1 DEF Carrying
      <4>2. Invalidating(q) => proc[q].carry.version \in Nat
        BY <4>1, Values
      <4> QED
        BY <1>2, <1>5, <3>2, <4>1, <4>2 DEF Writing, Invalidating
    <3> QED
      BY <3>1, <3>2
  <2>2. \A r \in Requests : proc'[r] = proc[r]
    BY <1>1, <1>2, Values
  <2> QED
    BY <1>1, <1>2, <2>1, <2>2 DEF Carrying
<1>8. Timely' /\ Recent'
  BY <1>1, <1>3, TimelyKept, RecentKept
<1>9. Buried'
  <2>1. embed' = "live" => embed = "live"
    OBVIOUS
  <2> QED
    BY <1>1, <1>2, <2>1, Values DEF Buried
<1>10. Cleaning'
  <2>1. \A q \in Publishers : At(q, "dropDisk")' =>
           proc'[q] = proc[q] /\ At(q, "dropDisk")
    BY <1>1, <1>2, Values DEF At
  <2> QED
    BY <1>1, <1>3, <2>1, CleaningKept
<1>11. \A r \in Requests : Honest(proc[r])'
  BY <1>1, <1>2, Values DEF Honest
<1> QED
  BY <1>6, <1>7, <1>8, <1>9, <1>10, <1>11 DEF IInv

LEMMA PublishKeeps ==
    ASSUME IInv, NEW p \in Publishers,
           NEW kind \in {"silent", "invalidate", "refresh"}, Publish(p, kind)
    PROVE  IInv'
<1> DEFINE rec == [Idle EXCEPT
                     !.pc = IF kind = "silent" THEN "out" ELSE "bury",
                     !.carry = IF kind = "silent" THEN None
                               ELSE New(data + 1),
                     !.refresh = kind = "refresh"]
<1>1. /\ data \in Nat /\ data < MaxVersion /\ MaxVersion \in Nat
      /\ data + 1 \in Versions
  BY Values DEF Publish, IInv, TypeOK, Versions
<1>2. New(data + 1) \in Entries /\ New(data + 1).version = data + 1
  BY <1>1, Values
<1>3. rec \in ProcRecs
  BY <1>2, Values DEF ProcRecs, Places
<1>4. /\ rec.pc = IF kind = "silent" THEN "out" ELSE "bury"
      /\ rec.carry = IF kind = "silent" THEN None
                     ELSE New(data + 1)
  BY DEF Idle
<1>5. /\ proc' = [proc EXCEPT ![p] = rec]
      /\ data' = data + 1
      /\ UNCHANGED <<outdated, floor, revived, mem, disk, embed, poison,
                     flight>>
  BY DEF Publish, Cache
<1>6. revived' \in BOOLEAN
  BY <1>5 DEF IInv, TypeOK
<1> HIDE DEF rec
<1>7. /\ rec.pc \in {"out", "bury"}
      /\ rec.pc # "out" => rec.carry \in Entries /\ rec.carry.version <= data'
  BY <1>1, <1>2, <1>4, <1>5
<1>8. data' \in Versions /\ data <= data'
  BY <1>1, <1>5
<1> QED
  BY <1>3, <1>5, <1>6, <1>7, <1>8, Invalidates

LEMMA BuryKeeps ==
    ASSUME IInv, NEW p \in Publishers, Bury(p)
    PROVE  IInv'
<1> DEFINE rec == [proc[p] EXCEPT !.pc = "drop"]
<1>1. p \in Procs /\ proc[p] \in ProcRecs /\ "drop" \in Places
  BY Values DEF IInv, Carrying, Places
<1>2. /\ proc' = [proc EXCEPT ![p] = rec]
      /\ rec \in ProcRecs
      /\ rec.pc = "drop"
      /\ rec.carry = proc[p].carry
  BY <1>1, GotoRec DEF Bury, Goto, IInv, Carrying
<1>3. /\ UNCHANGED <<data, outdated, floor, flight, poison, mem, disk>>
      /\ Invalidating(p)
      /\ revived' = FALSE
      /\ embed' = embed \/ embed' = "dead"
      /\ embed' # "live"
  BY DEF Bury, Cache, At, Invalidating
<1>4. /\ proc[p].carry \in Entries
      /\ proc[p].carry.version <= data
  BY <1>1, <1>3 DEF IInv, Carrying
<1>5. data' \in Versions /\ data <= data'
  BY <1>3, Values DEF IInv, TypeOK
<1> HIDE DEF rec
<1> QED
  BY <1>2, <1>3, <1>4, <1>5, Invalidates

\* The deletion from memory overtakes whoever holds older data: after it, those
\* hold strays, and memory is empty.
LEMMA DropMemKeeps ==
    ASSUME IInv, NEW p \in Publishers, DropMem(p)
    PROVE  IInv'
<1>1. /\ TypeOK /\ Carrying /\ Timely /\ Recent /\ Buried /\ Cleaning
      /\ \A r \in Requests : Honest(proc[r])
      /\ p \in Procs /\ p \notin Requests
      /\ data \in Nat
  BY Values, PagesAssumption DEF IInv, TypeOK
<1>2. /\ UNCHANGED <<data, outdated, floor, revived, embed, flight, poison,
                     disk>>
      /\ mem' = None
      /\ At(p, "drop") /\ Invalidating(p)
  BY DEF DropMem, World, At, Invalidating
<1>3. /\ proc[p].carry \in Entries /\ proc[p].carry.version <= data
      /\ proc[p].carry.version \in Nat
  BY <1>1, <1>2, Values DEF Carrying
<1>4. ASSUME NEW q \in Procs
      PROVE  proc'[q] = IF Overtaken(p, q)
                        THEN [proc[q] EXCEPT !.carry = Stray(proc[q].carry)]
                        ELSE IF q = p THEN [proc[q] EXCEPT !.pc = "dropDisk"]
                        ELSE proc[q]
  BY <1>1 DEF DropMem, Carrying
<1>5. proc'[p] = [proc[p] EXCEPT !.pc = "dropDisk"]
  BY <1>1, <1>4 DEF Overtaken
<1>6. ASSUME NEW q \in Procs
      PROVE  /\ proc'[q] \in ProcRecs
             /\ q # p => proc'[q].pc = proc[q].pc
             /\ \/ proc'[q].carry = proc[q].carry
                \/ Writing(q) /\ proc'[q].carry = Stray(proc[q].carry)
             /\ proc'[q].leads = proc[q].leads
             /\ proc'[q].since = proc[q].since
             /\ proc'[q].tier = proc[q].tier
             /\ proc'[q].behind = proc[q].behind
             /\ proc'[q].late = proc[q].late
  <2>1. proc[q] \in ProcRecs
    BY <1>1 DEF Carrying
  <2>2. CASE Overtaken(p, q)
    <3>1. Writing(q) /\ q # p /\ Stray(proc[q].carry) \in Entries
      BY <1>1, <2>2, StrayEntry DEF Overtaken, Carrying
    <3>2. proc'[q] = [proc[q] EXCEPT !.carry = Stray(proc[q].carry)]
      BY <1>4, <2>2
    <3> QED
      BY <2>1, <3>1, <3>2 DEF ProcRecs
  <2>3. CASE ~Overtaken(p, q) /\ q = p
    <3>1. "dropDisk" \in Places
      BY DEF Places
    <3> QED
      BY <1>5, <2>1, <2>3, <3>1 DEF ProcRecs
  <2>4. CASE ~Overtaken(p, q) /\ q # p
    BY <1>4, <2>1, <2>4
  <2> QED
    BY <2>2, <2>3, <2>4
<1>7. proc' \in [Procs -> ProcRecs]
  <2>1. DOMAIN proc' = Procs /\ proc' = [q \in Procs |-> proc'[q]]
    BY DEF DropMem
  <2> QED
    BY <1>6, <2>1
<1>8. /\ proc'[p].pc = "dropDisk" /\ proc'[p].carry = proc[p].carry
      /\ ~Writing(p)
  <2>1. proc[p] \in ProcRecs
    BY <1>1 DEF Carrying
  <2> QED
    BY <1>2, <1>5, <2>1 DEF ProcRecs, At, Writing
<1>9. \A q \in Procs : Writing(q)' => q # p /\ Writing(q)
  BY <1>6, <1>8 DEF Writing
<1>10. Moves
  BY <1>2, <1>6, <1>9 DEF Moves, Layer, CarryFrom
<1>11. TypeOK'
  <2>1. \A q \in Procs : /\ proc'[q].pc \in Places
                         /\ proc'[q].carry \in Entries \cup {None}
                         /\ proc'[q].tier \in Tiers
                         /\ proc'[q].since \in Versions
    BY <1>7 DEF ProcRecs
  <2>2. \A r \in Requests : proc'[r].leads <=> flight' = r
    BY <1>1, <1>2, <1>6, Values DEF TypeOK
  <2> QED
    BY <1>1, <1>2, <2>1, <2>2 DEF TypeOK
<1>12. Carrying'
  <2>1. ASSUME NEW q \in Procs
        PROVE  /\ Writing(q)' \/ Invalidating(q)' => proc'[q].carry \in Entries
               /\ Invalidating(q)' => proc'[q].carry.version <= data'
    <3>1. CASE q = p
      BY <1>2, <1>3, <1>8, <3>1
    <3>2. CASE q # p
      <4>1. /\ Writing(q)' <=> Writing(q)
            /\ Invalidating(q)' <=> Invalidating(q)
        BY <1>6, <3>2 DEF Writing, Invalidating
      <4>2. /\ Writing(q) \/ Invalidating(q) => proc[q].carry \in Entries
            /\ Invalidating(q) => proc[q].carry.version <= data
        BY <1>1 DEF Carrying
      <4>3. Writing(q) => ~Invalidating(q)
        BY DEF Writing, Invalidating
      <4> QED
        BY <1>2, <1>6, <4>1, <4>2, <4>3, StrayEntry
    <3> QED
      BY <3>1, <3>2
  <2>2. ASSUME NEW r \in Requests, proc'[r].pc \in Apart
        PROVE  ~proc'[r].leads
    <3>1. r \in Procs /\ r # p
      BY <1>1, Values
    <3> QED
      BY <1>1, <1>6, <2>2, <3>1 DEF Carrying, Apart
  <2> QED
    BY <1>7, <2>1, <2>2 DEF Carrying, Apart
<1>13. Timely' /\ Recent'
  BY <1>1, <1>2, <1>10, TimelyKept, RecentKept DEF TypeOK
<1>14. Buried'
  <2>1. embed # "live"
    BY <1>1, <1>2 DEF Buried, At
  <2> QED
    BY <1>2, <2>1 DEF Buried
<1>15. Cleaning'
  <2>1. ASSUME NEW q \in Procs, Writing(q)'
        PROVE  Past(proc'[q].carry, proc[p].carry.version)
    <3>1. q # p /\ Writing(q) /\ proc[q].carry \in Entries
      BY <1>1, <1>9, <2>1 DEF Carrying
    <3>2. proc[q].carry.version \in Nat /\ proc[q] \in ProcRecs
      BY <1>1, <3>1, Values DEF Carrying
    <3>3. CASE Overtaken(p, q)
      <4>1. proc'[q].carry = Stray(proc[q].carry)
        BY <1>4, <3>2, <3>3 DEF ProcRecs
      <4> QED
        BY <3>1, <4>1, StrayEntry DEF Past
    <3>4. CASE ~Overtaken(p, q)
      <4>1. proc'[q] = proc[q]
        BY <1>4, <3>1, <3>4
      <4>2. ~(proc[q].carry.version < proc[p].carry.version)
        BY <3>1, <3>4 DEF Overtaken
      <4> QED
        BY <1>3, <3>2, <4>1, <4>2 DEF Past
    <3> QED
      BY <3>3, <3>4
  <2>2. ASSUME NEW q \in Publishers, At(q, "dropDisk")'
        PROVE  /\ proc'[q].carry = proc[q].carry
               /\ q = p \/ At(q, "dropDisk")
    <3>1. CASE q = p
      BY <1>8, <3>1
    <3>2. CASE q # p
      <4>1. q \in Procs /\ At(q, "dropDisk")
        BY <1>6, <2>2, <3>2, Values DEF At
      <4> QED
        BY <1>6, <4>1 DEF At, Writing
    <3> QED
      BY <3>1, <3>2
  <2> QED
    BY <1>1, <1>2, <1>10, <2>1, <2>2, CleaningKept
<1>16. \A r \in Requests : Honest(proc[r])'
  BY <1>1, <1>2, <1>6, Values DEF Honest
<1> QED
  BY <1>11, <1>12, <1>13, <1>14, <1>15, <1>16 DEF IInv

\* The end of an Invalidate raises the floor: nothing older but strays is left
\* in a layer or in the hands of a process.
LEMMA DropDiskKeeps ==
    ASSUME IInv, NEW p \in Publishers, DropDisk(p)
    PROVE  IInv'
<1> DEFINE rec == IF proc[p].refresh
                  THEN [proc[p] EXCEPT !.pc = "load", !.carry = None]
                  ELSE Idle
<1>1. /\ TypeOK /\ Carrying /\ Timely /\ Recent /\ Buried /\ Cleaning
      /\ \A r \in Requests : Honest(proc[r])
      /\ p \in Procs /\ p \notin Requests /\ proc[p] \in ProcRecs
      /\ floor \in Nat /\ data \in Nat
  BY Values, PagesAssumption DEF IInv, Carrying, TypeOK
<1>2. /\ proc' = [proc EXCEPT ![p] = rec]
      /\ UNCHANGED <<data, outdated, revived, mem, embed, poison, flight>>
      /\ disk' = None
      /\ At(p, "dropDisk") /\ Invalidating(p)
  BY DEF DropDisk, Carry, Leave, IInv, Carrying, At, Invalidating
<1>3. rec \in ProcRecs /\ rec.pc \in {"load", "out"}
  <2>1. CASE proc[p].refresh
    <3>1. rec = [proc[p] EXCEPT !.pc = "load", !.carry = None]
      BY <2>1
    <3> QED
      BY <1>1, <3>1 DEF ProcRecs, Places
  <2>2. CASE ~proc[p].refresh
    BY <2>2, Values DEF Idle
  <2> QED
    BY <2>1, <2>2
<1> HIDE DEF rec
<1>4. /\ proc' \in [Procs -> ProcRecs]
      /\ proc'[p] = rec
      /\ \A q \in Procs \ {p} : proc'[q] = proc[q]
  BY <1>1, <1>2, <1>3 DEF Carrying
<1>5. /\ Layer(mem, mem') /\ Layer(disk, disk')
  BY <1>2 DEF Layer
<1>6. Moves
  BY <1>3, <1>4, <1>5 DEF Moves, Writing, CarryFrom
<1>7. PICK v \in Versions : v = proc[p].carry.version /\ v <= data /\ v \in Nat
  BY <1>1, <1>2, Values DEF Carrying
<1>8. floor' \in Versions /\ floor' \in Nat /\ floor <= floor' /\ floor' <= data
  BY <1>1, <1>2, <1>7, Values DEF DropDisk, Max2, TypeOK, Recent, Carrying
<1>9. floor' = floor \/ floor' = v
  BY <1>7 DEF DropDisk, Max2
<1>10. TypeOK'
  <2>1. revived' \in BOOLEAN
    BY <1>1, <1>2 DEF TypeOK
  <2>2. \A q \in Procs : /\ proc'[q].pc \in Places
                         /\ proc'[q].carry \in Entries \cup {None}
                         /\ proc'[q].tier \in Tiers
                         /\ proc'[q].since \in Versions
    BY <1>4 DEF ProcRecs
  <2>3. \A r \in Requests : proc'[r].leads <=> flight' = r
    BY <1>1, <1>2, <1>4, Values DEF TypeOK
  <2> QED
    BY <1>1, <1>2, <1>8, <2>1, <2>2, <2>3 DEF TypeOK
<1>11. Carrying'
  <2>1. ASSUME NEW q \in Procs
        PROVE  /\ Writing(q)' \/ Invalidating(q)' => proc'[q].carry \in Entries
               /\ Invalidating(q)' => proc'[q].carry.version <= data'
    BY <1>1, <1>2, <1>3, <1>4 DEF Carrying, Writing, Invalidating
  <2>2. \A r \in Requests : proc'[r] = proc[r]
    BY <1>1, <1>4, Values
  <2> QED
    BY <1>1, <1>4, <2>1, <2>2 DEF Carrying
<1>12. Timely'
  BY <1>1, <1>2, <1>6, TimelyKept DEF TypeOK
<1>13. Recent'
  <2>1. ASSUME NEW q \in Procs, Writing(q)'
        PROVE  Above(proc[q].carry)'
    <3>1. q # p /\ Writing(q) /\ proc'[q] = proc[q]
      BY <1>3, <1>4, <2>1 DEF Writing
    <3>2. CASE floor' = floor
      BY <1>1, <3>1, <3>2 DEF Recent, Above
    <3>3. CASE floor' = v
      BY <1>1, <1>2, <1>7, <3>1, <3>3 DEF Cleaning, Above
    <3> QED
      BY <1>9, <3>2, <3>3
  <2>2. Above(mem)'
    <3>1. CASE floor' = floor
      BY <1>1, <1>2, <3>1 DEF Recent, Above
    <3>2. CASE floor' = v
      BY <1>1, <1>2, <1>7, <3>2 DEF Cleaning, Above
    <3> QED
      BY <1>9, <3>1, <3>2
  <2> QED
    BY <1>2, <1>8, <2>1, <2>2 DEF Recent, Above, Past
<1>14. Buried'
  <2>1. embed # "live"
    BY <1>1, <1>2 DEF Buried, At
  <2> QED
    BY <1>2, <2>1 DEF Buried
<1>15. Cleaning'
  <2>1. \A q \in Publishers : At(q, "dropDisk")' =>
           proc'[q] = proc[q] /\ At(q, "dropDisk")
    BY <1>3, <1>4, Values DEF At
  <2> QED
    BY <1>1, <1>6, <2>1, CleaningKept
<1>16. ASSUME NEW r \in Requests
       PROVE  Honest(proc[r])'
  <2>1. proc'[r] = proc[r] /\ proc[r].since \in Nat
    BY <1>1, <1>4, Values DEF Carrying, ProcRecs
  <2> QED
    BY <1>1, <1>8, <2>1 DEF Honest
<1> QED
  BY <1>10, <1>11, <1>12, <1>13, <1>14, <1>15, <1>16 DEF IInv

LEMMA DropFailsKeeps ==
    ASSUME IInv, NEW p \in Publishers, DropFails(p)
    PROVE  IInv'
<1>1. /\ UNCHANGED <<data, outdated, floor, revived, embed, flight, poison,
                     mem, disk>>
      /\ Leave(p)
  BY DEF DropFails, World, Cache
<1>2. Layer(mem, mem') /\ Layer(disk, disk')
  BY <1>1 DEF Layer
<1> QED
  BY <1>1, <1>2, LeaveKeeps

-----------------------------------------------------------------------------
(* The environment *)

LEMMA EvictKeeps ==
    ASSUME IInv, Evict
    PROVE  IInv'
<1>1. /\ UNCHANGED <<data, outdated, floor, revived, embed, flight, poison,
                     disk, proc>>
      /\ mem' = None
  BY DEF Evict, World
<1>2. /\ Layer(mem, mem') /\ Layer(disk, disk')
      /\ \A p \in Procs : proc'[p] = proc[p]
  BY <1>1 DEF Layer
<1>3. /\ proc' \in [Procs -> ProcRecs]
      /\ poison' \in 0..PoisonTTL /\ flight' \in Requests \cup {Nobody}
      /\ \A r \in Requests : proc'[r].leads <=> flight' = r
  BY <1>1, Values DEF IInv, Carrying, TypeOK
<1> QED
  BY <1>1, <1>2, <1>3, Handled

LEMMA RestartKeeps ==
    ASSUME IInv, Restart
    PROVE  IInv'
<1>1. /\ TypeOK /\ Carrying /\ Timely /\ Recent /\ Buried
      /\ floor \in Nat /\ data \in Nat /\ 0 <= floor
  BY Values DEF IInv, TypeOK
<1>2. /\ proc' = [p \in Procs |-> Idle]
      /\ UNCHANGED <<data, outdated, floor, disk, poison>>
      /\ mem' = None /\ flight' = Nobody
      /\ embed' = IF embed = "dead" THEN "live" ELSE embed
      /\ revived' = (revived \/ embed = "dead")
  BY DEF Restart
<1>3. \A p \in Procs : proc'[p] = Idle
  BY <1>2
<1>4. Idle \in ProcRecs /\ Idle.pc = "out" /\ Idle.since = 0 /\ ~Idle.leads
      /\ Idle.tier = "none"
  BY Values DEF Idle
<1>5. revived' \in BOOLEAN
  BY <1>1, <1>2 DEF TypeOK
<1>6. TypeOK'
  <2>2. \A r \in Requests : proc'[r].leads <=> flight' = r
    BY <1>2, <1>3, <1>4, Values, PagesAssumption
  <2>3. \A q \in Procs : /\ proc'[q].pc \in Places
                         /\ proc'[q].carry \in Entries \cup {None}
                         /\ proc'[q].tier \in Tiers
                         /\ proc'[q].since \in Versions
    BY <1>3, <1>4 DEF ProcRecs
  <2> QED
    BY <1>1, <1>2, <1>5, <2>2, <2>3 DEF TypeOK
<1>7. Carrying'
  <2>1. \A q \in Procs : ~Writing(q)' /\ ~Invalidating(q)'
    BY <1>3, <1>4 DEF Writing, Invalidating
  <2>2. \A r \in Requests : ~proc'[r].leads
    BY <1>3, <1>4, Values
  <2> QED
    BY <1>2, <1>4, <2>1, <2>2 DEF Carrying
<1>8. Timely' /\ Recent'
  <2>1. \A q \in Procs : ~Writing(q)'
    BY <1>3, <1>4 DEF Writing
  <2>3. Recent'
    BY <1>1, <1>2, <2>1 DEF Recent, Above, Past
  <2>4. Timely'
    BY <1>1, <1>2, <2>1 DEF Timely, Aged
  <2> QED
    BY <2>3, <2>4
<1>9. Buried'
  BY <1>1, <1>2, <1>3, <1>4, Values DEF Buried, TypeOK
<1>10. Cleaning'
  <2>1. \A q \in Publishers : ~Invalidating(q)'
    BY <1>3, <1>4, Values DEF Invalidating
  <2> QED
    BY <2>1 DEF Cleaning, Invalidating, At
<1>11. \A r \in Requests : Honest(proc[r])'
  BY <1>1, <1>2, <1>3, <1>4, Values DEF Honest
<1> QED
  BY <1>6, <1>7, <1>8, <1>9, <1>10, <1>11 DEF IInv

\* Time passes between requests: an entry ages as fast as its data.
LEMMA TickKeeps ==
    ASSUME IInv, Tick
    PROVE  IInv'
<1>1. /\ TypeOK /\ Carrying /\ Timely /\ Recent /\ Buried
      /\ \A r \in Requests : Honest(proc[r])
      /\ data \in Versions /\ data \in Nat /\ TTL \in Nat
      /\ outdated \in [Versions -> Ages]
  BY Values DEF IInv, TypeOK
<1>2. /\ UNCHANGED <<data, floor, revived, embed, flight, proc>>
      /\ mem' = Older(mem) /\ disk' = Older(disk)
      /\ outdated' = [v \in Versions |->
             IF v < data THEN Min2(outdated[v] + 1, TTL + 1) ELSE 0]
      /\ poison' = IF poison > 0 THEN poison - 1 ELSE 0
      /\ \A p \in Procs : proc[p].pc = "out"
  BY DEF Tick, At
<1>3. ASSUME NEW n \in Ages
      PROVE  Min2(n + 1, TTL + 1) \in Ages
  BY <1>1 DEF Ages, Min2
<1>4. outdated' \in [Versions -> Ages]
  BY <1>1, <1>2, <1>3, Values
<1>5. ASSUME NEW e \in Entries \cup {None}, Aged(e)
      PROVE  /\ Older(e) \in Entries \cup {None}
             /\ Older(e) # None => /\ Older(e).version = e.version
                               /\ Older(e).stray = e.stray
                               /\ e # None
             /\ Older(e) # None => outdated'[Older(e).version] <= Older(e).age
  <2>1. CASE e = None
    BY <2>1 DEF Older
  <2>2. CASE e \in Entries
    <3>1. /\ e # None /\ e.version \in Versions /\ e.age \in Ages
          /\ e.version \in Nat /\ e.age \in Nat
      BY <2>2, Values
    <3>2. Older(e) = [e EXCEPT !.age = Min2(e.age + 1, TTL + 1)]
      BY <2>2, <3>1 DEF Older, Entries
    <3>3. /\ Older(e) \in Entries
          /\ Older(e).version = e.version /\ Older(e).stray = e.stray
          /\ Older(e).age = Min2(e.age + 1, TTL + 1)
      BY <1>3, <2>2, <3>1, <3>2 DEF Entries
    <3>4. outdated[e.version] <= e.age /\ outdated[e.version] \in Nat
      BY <1>1, <1>5, <3>1, Values DEF Aged
    <3>5. outdated'[e.version] =
             IF e.version < data THEN Min2(outdated[e.version] + 1, TTL + 1)
             ELSE 0
      BY <1>2, <3>1
    <3>6. outdated'[e.version] <= Min2(e.age + 1, TTL + 1)
      BY <1>1, <3>1, <3>4, <3>5 DEF Min2
    <3> QED
      BY <3>1, <3>3, <3>6
  <2> QED
    BY <2>1, <2>2
<1>6. /\ mem' \in Entries \cup {None} /\ disk' \in Entries \cup {None}
      /\ Aged(mem)' /\ Aged(disk)'
      /\ Above(mem)' /\ Above(disk)'
  BY <1>1, <1>2, <1>5 DEF TypeOK, Timely, Recent, Aged, Above, Past
<1>7. poison' \in 0..PoisonTTL
  BY <1>1, <1>2, Values DEF TypeOK
<1>8. \A p \in Procs : ~Writing(p)' /\ ~Invalidating(p)'
  BY <1>2 DEF Writing, Invalidating
<1>10. TypeOK'
  BY <1>1, <1>2, <1>4, <1>6, <1>7 DEF TypeOK
<1>11. Carrying'
  BY <1>1, <1>2, <1>8 DEF Carrying
<1>12. Timely'
  <2>1. \A v \in Versions : v >= data' => outdated'[v] = 0
    BY <1>1, <1>2, Values
  <2> QED
    BY <1>6, <1>8, <2>1 DEF Timely
<1>13. Recent'
  BY <1>1, <1>2, <1>6, <1>8 DEF Recent
<1>14. Buried'
  BY <1>1, <1>2 DEF Buried
<1>15. Cleaning'
  BY <1>8, Values DEF Cleaning, Invalidating, At
<1>16. \A r \in Requests : Honest(proc[r])'
  BY <1>1, <1>2 DEF Honest
<1> QED
  BY <1>10, <1>11, <1>12, <1>13, <1>14, <1>15, <1>16 DEF IInv

-----------------------------------------------------------------------------
(* The theorems *)

LEMMA IInvInit ==
    Init => IInv
<1> SUFFICES ASSUME Init PROVE IInv
  OBVIOUS
<1>1. /\ \A p \in Procs : proc[p] = Idle
      /\ Idle \in ProcRecs /\ Idle.pc = "out" /\ Idle.since = 0
      /\ ~Idle.leads /\ Idle.tier = "none"
  BY Values DEF Init, Idle
<1>2. TypeOK
  <2>1. \A r \in Requests : proc[r].leads <=> flight = r
    BY <1>1, Values, PagesAssumption DEF Init
  <2>2. \A p \in Procs : /\ proc[p].pc \in Places
                         /\ proc[p].carry \in Entries \cup {None}
                         /\ proc[p].tier \in Tiers
                         /\ proc[p].since \in Versions
    BY <1>1 DEF ProcRecs
  <2>3. outdated \in [Versions -> Ages] /\ poison \in 0..PoisonTTL
    BY Values DEF Init
  <2> QED
    BY <2>1, <2>2, <2>3, Values DEF Init, TypeOK
<1>3. \A p \in Procs : ~Writing(p) /\ ~Invalidating(p)
  BY <1>1 DEF Writing, Invalidating
<1>4. Carrying
  BY <1>1, <1>3, Values DEF Init, Carrying
<1>5. Timely /\ Recent /\ Buried /\ Cleaning
  BY <1>1, <1>3, Values
     DEF Init, Timely, Recent, Aged, Above, Past, Buried, Cleaning,
         Invalidating, At
<1>6. \A r \in Requests : Honest(proc[r])
  BY <1>1, Values DEF Init, Honest
<1> QED
  BY <1>2, <1>4, <1>5, <1>6 DEF IInv

LEMMA IInvStep ==
    IInv /\ [Next]_vars => IInv'
<1> SUFFICES ASSUME IInv, [Next]_vars PROVE IInv'
  OBVIOUS
<1>1. ASSUME NEW r \in Requests, Begin(r) \/ Handle(r)
      PROVE  IInv'
  <2>1. r \in Procs
    BY Values
  <2> QED
    BY <1>1, <2>1, BeginKeeps, LooksKeep, FallbackKeeps, LoadsKeep,
       NotFoundKeeps, FailKeeps, PutDiskKeeps DEF Handle
<1>2. ASSUME NEW p \in Publishers, Advance(p)
      PROVE  IInv'
  <2>1. p \in Procs
    BY Values
  <2> QED
    BY <1>2, <2>1, BuryKeeps, DropMemKeeps, DropDiskKeeps, DropFailsKeeps,
       LoadsKeep, NotFoundKeeps, FailKeeps, PutDiskKeeps DEF Advance
<1>3. CASE UNCHANGED vars
  <2>1. /\ TypeOK' /\ Carrying' /\ Timely' /\ Recent' /\ Buried' /\ Cleaning'
    BY <1>3 DEF IInv, vars, TypeOK, Carrying, Timely, Recent, Buried, Cleaning,
                Writing, Invalidating, At, Aged, Above, Past
  <2>2. \A r \in Requests : Honest(proc[r])'
    BY <1>3 DEF IInv, vars, Honest
  <2> QED
    BY <2>1, <2>2 DEF IInv
<1> QED
  BY <1>1, <1>2, <1>3, PublishKeeps, EvictKeeps, RestartKeeps, TickKeeps
     DEF Next

\* Requests, publishers, expiry and restarts keep every entry no younger than
\* its data has been outdated, and nothing older than the last Invalidate but
\* strays in a layer of the cache.
THEOREM InvariantHolds == Spec => []IInv
  BY IInvInit, IInvStep, PTL DEF Spec

\* The layers, the flight and every process hold values of their types, and
\* the flight of the singleflight group is that of the request that leads it.
THEOREM TypeCorrect == Spec => []TypeOK
<1>1. IInv => TypeOK
  BY DEF IInv
<1> QED
  BY <1>1, InvariantHolds, PTL

\* The TTL bounds a missed Invalidate: what ServeHTTP answers from the cache
\* or from a shared render was current at most TTL ago, for any number of
\* requests, publishers, restarts and failed writes.
THEOREM NothingTooOld == Spec => []TTLBacksUp
<1>1. IInv => TTLBacksUp
  BY DEF IInv, Honest, TTLBacksUp, Answered, At
<1> QED
  BY <1>1, InvariantHolds, PTL

\* After an Invalidate, however many requests, loads and other Invalidates ran
\* beside it, a request that begins later is answered with older data only from
\* an entry that some process held before the deletion and wrote or served after
\* it, or from a snapshot that a restart has brought back.
THEOREM InvalidatedStaysGone == Spec => []InvalidatedIsGone
<1>1. IInv => InvalidatedIsGone
  BY DEF IInv, Honest, InvalidatedIsGone, Answered, At
<1> QED
  BY <1>1, InvariantHolds, PTL
=============================================================================
