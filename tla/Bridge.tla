------------------------------- MODULE Bridge -------------------------------
(***************************************************************************)
(* The bridge between Go and the QuickJS engine of one instance            *)
(* (csrc/bridge.c with qjs/quickjs.go): a fixed table of slots that keep   *)
(* JavaScript values alive for Go, linked into a free list, and an arena   *)
(* for the strings Go hands over, which starts again at its beginning when *)
(* it is full.  A render evaluates one script; the page may call the host  *)
(* function that collects directives, and converting the arguments of that *)
(* call to strings may run JavaScript that calls it again.                 *)
(*                                                                         *)
(* One goroutine at a time runs an instance.  A step is what happens       *)
(* between two points where JavaScript and Go call each other.  Arena      *)
(* sizes are in units of its alignment, 8 bytes.                           *)
(***************************************************************************)
EXTENDS Integers, Sequences, FiniteSets, SequencesExt

CONSTANTS
    MaxSlots,       \* MAX_JSVALUE_SLOTS
    Arena,          \* ARENA_SIZE
    CodeSizes,      \* sizes of the scripts evaluated
    NameSize,       \* size of a file name
    MessageSize,    \* size of the text of an error that Go throws
    BufferSize,     \* size of the buffer of GetErrorMessage
    MaxArgs,        \* bound: arguments of a host call
    MaxDepth        \* bound: host calls within host calls

ASSUME BridgeAssumption ==
    /\ MaxSlots \in Nat /\ MaxSlots > 5
    /\ Arena \in Nat /\ CodeSizes \subseteq Nat \ {0}
    /\ {NameSize, MessageSize, BufferSize} \subseteq 1..Arena
    /\ MaxArgs \in Nat /\ MaxDepth \in Nat

VARIABLES
    table,          \* jsvalue_slots and first_free_slot
    arenaPtr,       \* arena_ptr
    pc,             \* where EvalToString is
    code, file,     \* strings in the arena that have not been read yet
    val,            \* the slot of the result
    frames,         \* the host calls in progress, innermost last
    unwinding,      \* whether the innermost script is being left by an error
    truncated,      \* DirectiveSink.truncated of the render
    answer,         \* what the last render answered
    lostSlots,      \* history: slots whose handle Go has dropped
    ranOut          \* history: a value found no slot

bridgeVars == <<table, arenaPtr, pc, code, file, val, frames, unwinding, truncated,
          answer, lostSlots, ranOut>>

-----------------------------------------------------------------------------
(* The slots; slot 0 stands for none *)

Slots == 0..(MaxSlots - 1)
Values == {"undefined", "exception", "value"}
Tables == [first: Slots, next: [Slots -> Slots], value: [Slots -> Values]]

NewTable ==
    [first |-> 1,
     next |-> [s \in Slots |-> IF s = MaxSlots - 1 THEN 0 ELSE s + 1],
     value |-> [s \in Slots |-> "undefined"]]

\* store_jsvalue: the table afterwards, and the slot.
Store(t, v) ==
    IF t.first = 0 THEN [table |-> t, slot |-> 0]
    ELSE [table |-> [first |-> t.next[t.first],
                     next |-> [t.next EXCEPT ![t.first] = 0],
                     value |-> [t.value EXCEPT ![t.first] = v]],
          slot |-> t.first]

\* load_jsvalue
Load(t, s) == IF s = 0 THEN "undefined" ELSE t.value[s]

\* qjs_free_value and free_jsvalue_slot
FreeValue(t, s) ==
    IF s = 0 THEN t
    ELSE [first |-> s,
          next |-> [t.next EXCEPT ![s] = t.first],
          value |-> [t.value EXCEPT ![s] = "undefined"]]

\* The values of vs stored in their order.
StoreAll(t, vs) ==
    LET stored[i \in 0..Len(vs)] ==
          IF i = 0 THEN [table |-> t, slots |-> <<>>]
          ELSE LET s == Store(stored[i - 1].table, vs[i])
               IN  [table |-> s.table,
                    slots |-> Append(stored[i - 1].slots, s.slot)]
    IN  stored[Len(vs)]

\* The slots of ss freed in their order.
FreeAll(t, ss) ==
    LET freed[i \in 0..Len(ss)] ==
          IF i = 0 THEN t ELSE FreeValue(freed[i - 1], ss[i])
    IN  freed[Len(ss)]

\* The free list, followed for as many links as there are slots.
FreeList(t) ==
    LET link[i \in Slots] ==
          IF i = 0 THEN t.first
          ELSE IF link[i - 1] = 0 THEN 0 ELSE t.next[link[i - 1]]
    IN  link

-----------------------------------------------------------------------------
(* The arena *)

Nowhere == [at |-> 0, size |-> 0]
Regions == [at: 0..Arena, size: Nat]

\* Mutant: a string that is too long for the arena starts at its beginning.
AnySize(n) == TRUE

\* arena_alloc returns NULL for what can never fit.
Fits(n) == n <= Arena

\* What does not fit behind arena_ptr starts again at 0.
Place(p, n) == IF p + n > Arena THEN 0 ELSE p
Advance(p, n) == Place(p, n) + n

-----------------------------------------------------------------------------
(* An instance as newInstance leaves it: the host function, the global     *)
(* object, and the results of the prelude and of the bundle are never      *)
(* freed.                                                                  *)

Permanent == 1..4

Built == StoreAll(NewTable, [i \in Permanent |-> "value"]).table

BridgeInit ==
    /\ table = Built
    /\ arenaPtr \in 0..Arena
    /\ pc = "idle"
    /\ code = Nowhere /\ file = Nowhere
    /\ val = 0
    /\ frames = <<>>
    /\ unwinding = FALSE
    /\ truncated = FALSE
    /\ answer = "none"
    /\ lostSlots = {}
    /\ ranOut = FALSE

\* EvalToString writes the script into the arena ...
WriteCode(n) ==
    /\ pc = "idle"
    /\ truncated' = FALSE
    /\ IF Fits(n)
       THEN /\ code' = [at |-> Place(arenaPtr, n), size |-> n]
            /\ arenaPtr' = Advance(arenaPtr, n)
            /\ pc' = "written" /\ answer' = "none"
       ELSE /\ answer' = "error"
            /\ UNCHANGED <<code, arenaPtr, pc>>
    /\ UNCHANGED <<table, file, val, frames, unwinding, lostSlots, ranOut>>

\* ... and then the name of the file.
WriteName ==
    /\ pc = "written"
    /\ file' = [at |-> Place(arenaPtr, NameSize), size |-> NameSize]
    /\ arenaPtr' = Advance(arenaPtr, NameSize)
    /\ pc' = "named"
    /\ UNCHANGED <<table, code, val, frames, unwinding, truncated, answer,
                   lostSlots, ranOut>>

\* qjs_eval reads both while it compiles, and runs the script.
Eval ==
    /\ pc = "named"
    /\ code' = Nowhere /\ file' = Nowhere
    /\ pc' = "running"
    /\ UNCHANGED <<table, arenaPtr, val, frames, unwinding, truncated,
                   answer, lostSlots, ranOut>>

-----------------------------------------------------------------------------
(* A host call *)

\* go_callback_wrapper: the addresses of the arguments go to the arena, their
\* values to slots; hostCallGo reads the addresses at once, and the wrapper
\* that Function installs makes the undefined this.
CallGo(n) ==
    LET args == StoreAll(table, [i \in 1..n |-> "value"])
        this == Store(args.table, "undefined")
    IN  /\ pc = "running" /\ ~unwinding
        /\ Len(frames) < MaxDepth
        /\ frames # <<>> => Len(Last(frames).args) >= 2
        /\ arenaPtr' = IF n = 0 THEN arenaPtr ELSE Advance(arenaPtr, 1)
        /\ table' = this.table
        /\ frames' = Append(frames, [args |-> args.slots, this |-> this.slot])
        /\ ranOut' = (ranOut \/ this.slot = 0)
        /\ UNCHANGED <<pc, code, file, val, unwinding, truncated, answer,
                       lostSlots>>

\* Mutant: the wrapper forgets the arguments.
FreedButArguments(t, f, result) ==
    LET u == FreeValue(t, f.this)
    IN  IF result # 0 /\ Load(u, result) = "undefined"
        THEN FreeValue(u, result) ELSE u

\* The wrapper frees this, the arguments, and a result that is undefined.
Freed(t, f, result) ==
    LET u == FreeAll(FreeValue(t, f.this), f.args)
    IN  IF result # 0 /\ Load(u, result) = "undefined"
        THEN FreeValue(u, result) ELSE u

\* Mutant: the sink is cut off and nobody is told.
ThrowsOnBadCall(f, cut) == Len(f.args) < 2

\* The host function refuses a call without a kind and a payload, and every
\* directive past the limits of the render.
Throws(f, cut) == Len(f.args) < 2 \/ cut

\* The host function returns: cut says whether the sink is truncated by now.
\* An error that finds no slot reaches the script as undefined; one that does
\* keeps its slot, which nobody frees.
ReturnGo(cut) ==
    LET f == Last(frames)
        throws == Throws(f, cut)
        result == Store(table, IF throws THEN "exception" ELSE "undefined")
        after == Freed(result.table, f, result.slot)
        seen == Load(after, result.slot)
    IN  /\ frames # <<>>
        /\ truncated => cut
        /\ Len(f.args) < 2 => cut = truncated
        /\ truncated' = cut
        /\ arenaPtr' = IF throws THEN Advance(arenaPtr, MessageSize)
                                 ELSE arenaPtr
        /\ table' = after
        /\ frames' = Front(frames)
        /\ unwinding' = (seen = "exception")
        /\ lostSlots' = IF seen = "exception"
                        THEN lostSlots \cup {result.slot} ELSE lostSlots
        /\ ranOut' = (ranOut \/ result.slot = 0)
        /\ UNCHANGED <<pc, code, file, val, answer>>

-----------------------------------------------------------------------------
(* The result *)

\* The script ends, by itself or because of an error, and qjs_eval stores
\* what it returned.
EvalReturns(failed) ==
    LET result == Store(table, IF failed THEN "exception" ELSE "value")
    IN  /\ pc = "running" /\ frames = <<>>
        /\ unwinding => failed
        /\ table' = result.table
        /\ val' = result.slot
        /\ pc' = "returned"
        /\ unwinding' = FALSE
        /\ ranOut' = (ranOut \/ result.slot = 0)
        /\ UNCHANGED <<arenaPtr, code, file, frames, truncated, answer, lostSlots>>

\* The error is fetched into a slot of its own, described through a buffer in
\* the arena, and freed; so is the result.
Fail ==
    LET exc == Store(table, "value")
    IN  /\ pc = "returned" /\ Load(table, val) = "exception"
        /\ table' = FreeValue(FreeValue(exc.table, exc.slot), val)
        /\ arenaPtr' = Advance(arenaPtr, BufferSize)
        /\ ranOut' = (ranOut \/ exc.slot = 0)
        /\ pc' = "idle" /\ val' = 0 /\ answer' = "error"
        /\ UNCHANGED <<code, file, frames, unwinding, truncated, lostSlots>>

\* ToStringFull puts the length into the arena.  A result without a slot reads
\* as the string undefined, which the pool cannot parse.
Succeed ==
    /\ pc = "returned" /\ Load(table, val) # "exception"
    /\ table' = FreeValue(table, val)
    /\ arenaPtr' = Advance(arenaPtr, 1)
    /\ pc' = "idle" /\ val' = 0
    /\ answer' = IF Load(table, val) = "value" THEN "html" ELSE "garbled"
    /\ UNCHANGED <<code, file, frames, unwinding, truncated, lostSlots, ranOut>>

\* The engine traps or the watchdog closes it: the pool builds another one.
Replace ==
    /\ pc = "running"
    /\ table' = Built /\ arenaPtr' \in 0..Arena
    /\ pc' = "idle" /\ answer' = "error"
    /\ frames' = <<>> /\ unwinding' = FALSE
    /\ lostSlots' = {} /\ ranOut' = FALSE
    /\ UNCHANGED <<code, file, val, truncated>>

BridgeNext ==
    \/ \E n \in CodeSizes : WriteCode(n)
    \/ WriteName
    \/ Eval
    \/ \E n \in 0..MaxArgs : CallGo(n)
    \/ \E cut \in BOOLEAN : ReturnGo(cut)
    \/ \E failed \in BOOLEAN : EvalReturns(failed)
    \/ Fail
    \/ Succeed
    \/ Replace

BridgeSpec == BridgeInit /\ [][BridgeNext]_bridgeVars

-----------------------------------------------------------------------------
(* Properties *)

\* Where a slot may be named: by a link of the free list, by an argument or the
\* this of a host call, as the result, among the lost ones or the permanent.
Mentions ==
    ({"free"} \X Slots \X {0})
    \cup (UNION {{"argument"} \X {i} \X (1..Len(frames[i].args)) : i \in DOMAIN frames})
    \cup ({"this"} \X (1..Len(frames)) \X {0})
    \cup {<<"result", 0, 0>>}
    \cup ({"lost"} \X lostSlots \X {0})
    \cup ({"permanent"} \X Permanent \X {0})

\* The slot that is named at place p; link is the free list.
SlotAt(p, link) ==
    CASE p[1] = "free" -> link[p[2]]
      [] p[1] = "argument" -> frames[p[2]].args[p[3]]
      [] p[1] = "this" -> frames[p[2]].this
      [] p[1] = "result" -> val
      [] OTHER -> p[2]

BridgeTypeOK ==
    /\ table \in Tables
    /\ arenaPtr \in 0..Arena
    /\ pc \in {"idle", "written", "named", "running", "returned"}
    /\ code \in Regions /\ file \in Regions
    /\ val \in Slots
    /\ frames \in Seq([args: Seq(Slots), this: Slots])
    /\ Len(frames) <= MaxDepth
    /\ {unwinding, truncated, ranOut} \subseteq BOOLEAN
    /\ answer \in {"none", "html", "error", "garbled"}
    /\ lostSlots \subseteq Slots \ {0}

\* Every slot is named at one place: on the free list once, by one handle, kept
\* for good by newInstance, or lost to an error the host function threw.  No
\* slot is freed twice or handed out twice, and a render whose host calls throw
\* nothing gives back every slot it took.
SlotsAccounted ==
    LET link == FreeList(table) IN
    \A s \in Slots \ {0} : Cardinality({p \in Mentions : SlotAt(p, link) = s}) = 1

\* A string handed over is not overwritten before it is read and lies within
\* the arena, unless the script leaves no room for its file name on either
\* side.
ArenaIntact ==
    /\ code.at + code.size <= Arena /\ file.at + file.size <= Arena
    /\ code.size + 2 * NameSize <= Arena =>
         \/ code.size = 0 \/ file.size = 0
         \/ code.at + code.size <= file.at
         \/ file.at + file.size <= code.at

\* A render whose directives were cut off does not answer with a page, as long
\* as the table has had a slot for every value.
OverflowIsReported ==
    answer = "html" /\ truncated => ranOut
=============================================================================
