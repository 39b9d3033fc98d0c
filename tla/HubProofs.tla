------------------------------ MODULE HubProofs ------------------------------
(***************************************************************************)
(* Proofs about Hub: the four safety invariants of the hub hold for any    *)
(* number of connections, rooms, broadcasters and events, any queue and    *)
(* any memory of event ids.                                                *)
(***************************************************************************)
EXTENDS Hub, FiniteSetTheorems, TLAPS

-----------------------------------------------------------------------------
(* The inductive invariant *)

\* What the pumps of a connection are doing tells what has become of it:
\* only one of them runs the rest of drop, and a pump owes no callback
\* where it is about to collect new ones.
Wired(c) ==
    /\ dropped[c] => conn[c] # "none"
    /\ reader[c].pc = "none" <=> conn[c] = "none"
    /\ reader[c].pc \in {"none", "serve"} => writer[c] = "none"
    /\ reader[c].pc \in {"none", "ask"} => hooks[<<c, "reader">>] = {}
    /\ writer[c] \in {"none", "run"} => hooks[<<c, "writer">>] = {}
    /\ reader[c].pc = "drop" => dropped[c] /\ writer[c] # "drop"
    /\ writer[c] = "drop" => dropped[c]

\* Only a connection that was made is in a room or the target of a broadcast.
Served ==
    /\ \A s \in Scopes : \A c \in rooms[s] : conn[c] # "none"
    /\ \A b \in Broadcasters :
          /\ \A c \in cast[b].targets : conn[c] # "none"
          /\ cast[b].to # "nobody" => conn[cast[b].to] # "none"

\* A client remembers an event once.
Distinct(c) == \A i, j \in DOMAIN dedup[c] : dedup[c][i] = dedup[c][j] => i = j

\* Broadcaster b has entered e in the memory of c and not yet in its queue.
Sending(b, c, e) == cast[b].to = c /\ cast[b].event = e

\* A memory that holds all events forgets none, so that an event reaches the
\* queue of a client once, by one broadcaster.
Copied(c, e) ==
    /\ copies[c][e] > 0 => Seen(c, e)
    /\ copies[c][e] <= 1
    /\ \A b \in Broadcasters : Sending(b, c, e) =>
          /\ Seen(c, e)
          /\ copies[c][e] = 0
          /\ \A d \in Broadcasters : Sending(d, c, e) => d = b

Roomy == Cardinality(Events) <= DedupDepth

IInv ==
    /\ TypeOK
    /\ \A c \in Clients : Wired(c) /\ Distinct(c)
    /\ Served
    /\ ConnsCounted
    /\ CallbacksBalance
    /\ Roomy => \A c \in Clients, e \in Events : Copied(c, e)
    /\ RememberedIsQueued

-----------------------------------------------------------------------------
(* Facts about the goroutines *)

LEMMA GoroutinesFinite ==
    /\ IsFiniteSet(Goroutines)
    /\ \A c \in Clients : /\ <<c, "reader">> \in Goroutines
                          /\ <<c, "writer">> \in Goroutines
<1>1. IsFiniteSet({"reader", "writer"})
  <2>1. IsFiniteSet({"reader"})
    BY FS_Singleton
  <2>2. {"reader", "writer"} = {"reader"} \cup {"writer"}
    OBVIOUS
  <2> QED
    BY <2>1, <2>2, FS_AddElement
<1>2. IsFiniteSet(Clients \X {"reader", "writer"})
  BY <1>1, FS_Product, HubAssumption
<1> QED
  BY <1>2 DEF Goroutines

\* What a read pump carries in each of its states.
LEMMA ReaderFields ==
    ASSUME TypeOK, NEW c \in Clients
    PROVE  /\ reader[c].pc \in {"none", "serve", "ask", "read", "reply", "drop",
                                "done"}
           /\ reader[c].pc = "serve" =>
                 /\ reader[c].todo \in Seq(Scopes)
                 /\ reader[c] = [pc |-> "serve", todo |-> reader[c].todo]
           /\ reader[c].pc = "ask" => reader[c].scope \in Scopes
<1>1. reader[c] \in Readers
  BY DEF TypeOK
<1> QED
  BY <1>1 DEF Readers

\* What a broadcaster carries.
LEMMA CastFields ==
    ASSUME TypeOK, NEW b \in Broadcasters
    PROVE  /\ cast[b].targets \subseteq Clients
           /\ cast[b].to \in Clients \cup {"nobody"}
           /\ cast[b].targets # {} => cast[b] \in Casts
           /\ cast[b].to # "nobody" => cast[b] \in Casts /\ cast[b].event \in Events
<1>1. cast[b] \in Casts \cup {Quiet}
  BY DEF TypeOK
<1> QED
  BY <1>1 DEF Casts, Quiet

-----------------------------------------------------------------------------
(* The initial state *)

LEMMA InitCorrect == Init => IInv
<1> SUFFICES ASSUME Init PROVE IInv
  OBVIOUS
<1>1. Cardinality({}) = 0 /\ IsFiniteSet({})
  BY FS_EmptySet
<1>2. Cardinality(Clients) \in Nat /\ SendBuffer \in Nat
  BY FS_CardinalityType, HubAssumption
<1>3. TypeOK
  <2>1. [pc |-> "none"] \in Readers
    BY DEF Readers
  <2>2. <<>> \in Seq(Events) /\ Len(<<>>) = 0 /\ DedupDepth \in Nat
    BY HubAssumption
  <2> QED
    BY <1>2, <2>1, <2>2 DEF Init, TypeOK, Writers
<1>4. \A c \in Clients : Wired(c) /\ Distinct(c)
  <2>1. ASSUME NEW c \in Clients
        PROVE  /\ ~dropped[c] /\ conn[c] = "none" /\ reader[c].pc = "none"
               /\ writer[c] = "none" /\ dedup[c] = <<>>
               /\ hooks[<<c, "reader">>] = {} /\ hooks[<<c, "writer">>] = {}
    BY GoroutinesFinite DEF Init
  <2> QED
    BY <2>1 DEF Wired, Distinct
<1>5. ConnsCounted
  <2>1. {c \in Clients : conn[c] # "none" /\ (~dropped[c] \/ InDrop(c))} = {}
    BY DEF Init
  <2> QED
    BY <1>1, <2>1 DEF ConnsCounted, Init
<1>6. CallbacksBalance
  <2>1. \A k, s : {g \in Goroutines : <<k, s>> \in hooks[g]} = {}
    BY DEF Init
  <2>2. \A k, s : Pending(k, s) = 0
    BY <1>1, <2>1 DEF Pending
  <2> QED
    BY <2>2 DEF CallbacksBalance, Init
<1>7. \A c \in Clients, e \in Events : Copied(c, e) /\ ~Seen(c, e)
  <2>1. \A b \in Broadcasters, c \in Clients : cast[b].to # c
    BY HubAssumption DEF Init, Quiet
  <2>2. \A c \in Clients, e \in Events : ~Seen(c, e) /\ copies[c][e] = 0
    BY DEF Init, Seen
  <2> QED
    BY <2>1, <2>2 DEF Copied, Sending
<1>8. Served
  BY DEF Init, Served, Quiet
<1> QED
  BY <1>3, <1>4, <1>5, <1>6, <1>7, <1>8 DEF IInv, RememberedIsQueued

-----------------------------------------------------------------------------
(* The counter of connections *)

\* A connection that counts: made, and not yet through drop.
Counts(c) == conn[c] # "none" /\ (~dropped[c] \/ InDrop(c))

Counting == {c \in Clients : Counts(c)}

LEMMA CountingFinite ==
    IsFiniteSet(Counting) /\ Cardinality(Counting) \in 0..Cardinality(Clients)
<1>1. Counting \subseteq Clients
  BY DEF Counting
<1> QED
  BY <1>1, FS_Subset, FS_CardinalityType, HubAssumption

LEMMA StillCounted ==
    ASSUME ConnsCounted, conns' = conns, \A c \in Clients : Counts(c)' <=> Counts(c)
    PROVE  ConnsCounted'
<1>1. Counting' = Counting
  BY DEF Counting
<1> QED
  BY <1>1 DEF ConnsCounted, Counting, Counts

LEMMA DropCounts ==
    ASSUME TypeOK, ConnsCounted, NEW c \in Clients, Wired(c),
           Counts(c), conns' = conns - 1,
           \A d \in Clients \ {c} : Counts(d)' <=> Counts(d), ~Counts(c)'
    PROVE  ConnsCounted'
<1>1. Counting' = Counting \ {c} /\ c \in Counting
  BY DEF Counting
<1>2. Cardinality(Counting') = Cardinality(Counting) - 1
  BY <1>1, CountingFinite, FS_RemoveElement
<1> QED
  BY <1>2 DEF ConnsCounted, Counting, Counts

LEMMA ServeCounts ==
    ASSUME TypeOK, ConnsCounted, NEW c \in Clients, ~Counts(c), Counts(c)',
           conns' = conns + 1, \A d \in Clients \ {c} : Counts(d)' <=> Counts(d)
    PROVE  ConnsCounted'
<1>1. Counting' = Counting \cup {c} /\ c \notin Counting
  BY DEF Counting
<1>2. Cardinality(Counting') = Cardinality(Counting) + 1
  BY <1>1, CountingFinite, FS_AddElement
<1> QED
  BY <1>2 DEF ConnsCounted, Counting, Counts

-----------------------------------------------------------------------------
\* Steps of a read pump outside drop leave the counter right.
LEMMA ReaderCounts ==
    ASSUME TypeOK, ConnsCounted, UNCHANGED <<conns, conn, dropped>>,
           NEW c \in Clients, reader'[c].pc # "drop", reader[c].pc # "drop",
           \A d \in Clients \ {c} : reader'[d] = reader[d],
           \A d \in Clients : writer'[d] = "drop" <=> writer[d] = "drop"
    PROVE  ConnsCounted'
<1>1. \A d \in Clients : InDrop(d)' <=> InDrop(d)
  BY DEF InDrop
<1> QED
  BY <1>1, StillCounted DEF Counts

LEMMA SamePumpsCount ==
    ASSUME TypeOK, ConnsCounted, UNCHANGED <<conns, dropped, reader, writer>>,
           \A c \in Clients : conn'[c] = "none" <=> conn[c] = "none"
    PROVE  ConnsCounted'
BY StillCounted DEF Counts, InDrop

\* What drop leaves behind.
LEMMA DropWrites ==
    ASSUME TypeOK, NEW c \in Clients, NEW pump \in {"reader", "writer"},
           drop(c, pump)
    PROVE  /\ \A d \in Clients \ {c} : dropped'[d] = dropped[d]
           /\ dropped'[c]
           /\ ~dropped[c] <=> AfterDrop(c) = "drop"
           /\ dropped[c] => AfterDrop(c) = "done" /\ UNCHANGED <<dropped, rooms, hooks>>
           /\ dropped' \in [Clients -> BOOLEAN]
BY DEF drop, Drops, AfterDrop, TypeOK

LEMMA ConnsKept ==
    ASSUME IInv, Next
    PROVE  ConnsCounted'
<1> USE DEF unchangedFrames, unchangedRooms
<1>1. TypeOK /\ ConnsCounted /\ Served /\ \A c \in Clients : Wired(c)
  BY DEF IInv
<1>2. ASSUME NEW c \in Clients, ServeWS(c)
      PROVE  ConnsCounted'
  <2>1. conn' = [conn EXCEPT ![c] = "open"] /\ conn[c] = "none"
        /\ conns' = conns + 1 /\ dropped' = dropped
    BY <1>2 DEF ServeWS
  <2>2. /\ \A d \in Clients \ {c} : reader'[d] = reader[d] /\ writer'[d] = writer[d]
        /\ conn'[c] = "open" /\ \A d \in Clients \ {c} : conn'[d] = conn[d]
    BY <1>1, <1>2 DEF ServeWS, TypeOK
  <2>3. ~dropped[c]
    BY <1>1, <2>1 DEF Wired
  <2>4. \A d \in Clients \ {c} : Counts(d)' <=> Counts(d)
    BY <2>1, <2>2 DEF Counts, InDrop
  <2>5. ~Counts(c) /\ Counts(c)'
    BY <2>1, <2>2, <2>3 DEF Counts
  <2> QED
    BY <1>1, <2>1, <2>4, <2>5, ServeCounts
<1>3. ASSUME NEW c \in Clients, ServeJoin(c)
      PROVE  ConnsCounted'
  <2>1. reader[c].pc = "serve"
    BY <1>3 DEF ServeJoin
  <2>2. reader' = [reader EXCEPT ![c] = [reader[c] EXCEPT !.todo = Tail(reader[c].todo)]]
    BY <1>3 DEF ServeJoin
  <2>3. [reader[c] EXCEPT !.todo = Tail(reader[c].todo)].pc = "serve"
    BY <1>1, <2>1, ReaderFields
  <2>4. UNCHANGED <<conns, conn, dropped, writer>>
    BY <1>3 DEF ServeJoin
  <2>5. /\ reader'[c].pc = "serve"
        /\ \A d \in Clients \ {c} : reader'[d] = reader[d]
    BY <1>1, <2>2, <2>3 DEF TypeOK
  <2> QED
    BY <1>1, <2>1, <2>4, <2>5, ReaderCounts
<1>4. ASSUME NEW c \in Clients, StartPumps(c)
      PROVE  ConnsCounted'
  <2>1. /\ reader' = [reader EXCEPT ![c] = [pc |-> "read"]]
        /\ writer' = [writer EXCEPT ![c] = "run"]
        /\ UNCHANGED <<conns, conn, dropped>> /\ reader[c].pc = "serve"
    BY <1>4 DEF StartPumps
  <2>2. writer[c] = "none"
    BY <1>1, <2>1 DEF Wired
  <2>3. \A d \in Clients : writer'[d] = "drop" <=> writer[d] = "drop"
    BY <1>1, <2>1, <2>2 DEF TypeOK
  <2>4. /\ reader'[c].pc = "read"
        /\ \A d \in Clients \ {c} : reader'[d] = reader[d]
    BY <1>1, <2>1 DEF TypeOK
  <2> QED
    BY <1>1, <2>1, <2>3, <2>4, ReaderCounts
<1>5. ASSUME NEW c \in Clients, NEW s \in Scopes, Ask(c, s)
      PROVE  ConnsCounted'
  <2>1. /\ reader' = [reader EXCEPT ![c] = [pc |-> "ask", scope |-> s]]
        /\ UNCHANGED <<conns, conn, dropped, writer>> /\ reader[c].pc = "read"
    BY <1>5 DEF Ask, Reading
  <2>2. /\ reader'[c].pc = "ask"
        /\ \A d \in Clients \ {c} : reader'[d] = reader[d]
    BY <1>1, <2>1 DEF TypeOK
  <2> QED
    BY <1>1, <2>1, <2>2, ReaderCounts
<1>6. ASSUME NEW c \in Clients, Accept(c) \/ Reject(c)
      PROVE  ConnsCounted'
  <2>1. /\ reader' = [reader EXCEPT ![c] = [pc |-> "reply"]]
        /\ UNCHANGED <<conns, conn, dropped, writer>> /\ reader[c].pc = "ask"
    BY <1>6 DEF Accept, Reject
  <2>2. /\ reader'[c].pc = "reply"
        /\ \A d \in Clients \ {c} : reader'[d] = reader[d]
    BY <1>1, <2>1 DEF TypeOK
  <2> QED
    BY <1>1, <2>1, <2>2, ReaderCounts
<1>7. ASSUME NEW c \in Clients, Reply(c)
      PROVE  ConnsCounted'
  <2>1. /\ reader' = [reader EXCEPT ![c] = [pc |-> "read"]]
        /\ UNCHANGED <<conns, conn, dropped, writer>> /\ reader[c].pc = "reply"
    BY <1>7 DEF Reply
  <2>2. /\ reader'[c].pc = "read"
        /\ \A d \in Clients \ {c} : reader'[d] = reader[d]
    BY <1>1, <2>1 DEF TypeOK
  <2> QED
    BY <1>1, <2>1, <2>2, ReaderCounts
<1>8. ASSUME UNCHANGED <<conns, conn, dropped, reader, writer>>
      PROVE  ConnsCounted'
  BY <1>1, <1>8, SamePumpsCount
<1>9. ASSUME NEW c \in Clients,
             \/ AnswerAtOnce(c) \/ Write(c)
             \/ \E s \in Scopes : Unsubscribe(c, s)
             \/ \E g \in Goroutines : Callback(g)
      PROVE  ConnsCounted'
  BY <1>8, <1>9 DEF AnswerAtOnce, Write, Unsubscribe, Callback
<1>10. ASSUME NEW c \in Clients, Break(c)
       PROVE  ConnsCounted'
  <2>1. \A d \in Clients : conn'[d] = "none" <=> conn[d] = "none"
    BY <1>1, <1>10 DEF Break, TypeOK
  <2> QED
    BY <1>1, <1>10, <2>1, SamePumpsCount DEF Break
<1>11. ASSUME NEW b \in Broadcasters, Queue(b)
       PROVE  ConnsCounted'
  <2>1. cast[b].to \in Clients /\ conn[cast[b].to] # "none"
    BY <1>1, <1>11, CastFields DEF Queue, Served
  <2>2. conn' \in {conn, [conn EXCEPT ![cast[b].to] = "closed"]}
    BY <1>11 DEF Queue, ClosedBySlow
  <2>3. \A d \in Clients : conn'[d] = "none" <=> conn[d] = "none"
    BY <1>1, <2>1, <2>2 DEF TypeOK
  <2> QED
    BY <1>1, <1>11, <2>3, SamePumpsCount DEF Queue
<1>12. ASSUME NEW b \in Broadcasters,
              Remember(b) \/ \E s \in Scopes, e \in Events : Broadcast(b, s, e)
       PROVE  ConnsCounted'
  BY <1>8, <1>12 DEF Remember, Broadcast
<1>13. ASSUME NEW c \in Clients, ReadFails(c)
       PROVE  ConnsCounted'
  <2>1. /\ reader' = [reader EXCEPT ![c] = [pc |-> AfterDrop(c)]]
        /\ UNCHANGED <<conns, conn, writer>> /\ reader[c].pc = "read"
        /\ conn[c] = "closed" /\ drop(c, "reader")
    BY <1>13 DEF ReadFails, Reading
  <2>2. /\ reader'[c].pc = AfterDrop(c)
        /\ \A d \in Clients \ {c} : reader'[d] = reader[d]
    BY <1>1, <2>1 DEF TypeOK
  <2>3. \A d \in Clients \ {c} : Counts(d)' <=> Counts(d)
    BY <1>1, <2>1, <2>2, DropWrites DEF Counts, InDrop
  <2>4. Counts(c)' <=> Counts(c)
    BY <1>1, <2>1, <2>2, DropWrites DEF Counts, InDrop
  <2>5. \A d \in Clients : Counts(d)' <=> Counts(d)
    BY <2>3, <2>4
  <2> QED
    BY <1>1, <2>1, <2>5, StillCounted
<1>14. ASSUME NEW c \in Clients, WriteFails(c)
       PROVE  ConnsCounted'
  <2>1. /\ writer' = [writer EXCEPT ![c] = AfterDrop(c)]
        /\ UNCHANGED <<conns, conn, reader>> /\ writer[c] = "run"
        /\ conn[c] = "closed" /\ drop(c, "writer")
    BY <1>14 DEF WriteFails
  <2>2. /\ writer'[c] = AfterDrop(c)
        /\ \A d \in Clients \ {c} : writer'[d] = writer[d]
    BY <1>1, <2>1 DEF TypeOK
  <2>3. \A d \in Clients \ {c} : Counts(d)' <=> Counts(d)
    BY <1>1, <2>1, <2>2, DropWrites DEF Counts, InDrop
  <2>4. Counts(c)' <=> Counts(c)
    BY <1>1, <2>1, <2>2, DropWrites DEF Counts, InDrop
  <2>5. \A d \in Clients : Counts(d)' <=> Counts(d)
    BY <2>3, <2>4
  <2> QED
    BY <1>1, <2>1, <2>5, StillCounted
<1>15. ASSUME NEW c \in Clients, ReaderDropped(c)
       PROVE  ConnsCounted'
  <2>1. /\ reader' = [reader EXCEPT ![c] = [pc |-> "done"]]
        /\ UNCHANGED <<conn, dropped, writer>> /\ reader[c].pc = "drop"
        /\ conns' = conns - 1
    BY <1>15 DEF ReaderDropped
  <2>2. dropped[c] /\ writer[c] # "drop" /\ conn[c] # "none"
    BY <1>1, <2>1 DEF Wired
  <2>3. /\ reader'[c].pc = "done"
        /\ \A d \in Clients \ {c} : reader'[d] = reader[d]
    BY <1>1, <2>1 DEF TypeOK
  <2>4. /\ Counts(c) /\ ~Counts(c)'
        /\ \A d \in Clients \ {c} : Counts(d)' <=> Counts(d)
    BY <2>1, <2>2, <2>3 DEF Counts, InDrop
  <2> QED
    BY <1>1, <2>1, <2>4, DropCounts
<1>16. ASSUME NEW c \in Clients, WriterDropped(c)
       PROVE  ConnsCounted'
  <2>1. /\ writer' = [writer EXCEPT ![c] = "done"]
        /\ UNCHANGED <<conn, dropped, reader>> /\ writer[c] = "drop"
        /\ conns' = conns - 1
    BY <1>16 DEF WriterDropped
  <2>2. dropped[c] /\ reader[c].pc # "drop" /\ conn[c] # "none"
    BY <1>1, <2>1 DEF Wired
  <2>3. /\ writer'[c] = "done"
        /\ \A d \in Clients \ {c} : writer'[d] = writer[d]
    BY <1>1, <2>1 DEF TypeOK
  <2>4. /\ Counts(c) /\ ~Counts(c)'
        /\ \A d \in Clients \ {c} : Counts(d)' <=> Counts(d)
    BY <2>1, <2>2, <2>3 DEF Counts, InDrop
  <2> QED
    BY <1>1, <2>1, <2>4, DropCounts
<1> QED
  BY GoroutinesFinite, <1>2, <1>3, <1>4, <1>5, <1>6, <1>7, <1>9, <1>10, <1>11,
     <1>12, <1>13, <1>14, <1>15, <1>16
     DEF Next, ReadPump, WritePump, Frames, Deliver

-----------------------------------------------------------------------------
(* Types *)

\* The rest of the type invariant, the counter excepted.
Typed ==
    /\ rooms \in [Scopes -> SUBSET Clients]
    /\ scopes \in [Clients -> SUBSET Scopes]
    /\ conn \in [Clients -> {"none", "open", "closed"}]
    /\ authed \in [Clients -> BOOLEAN]
    /\ dropped \in [Clients -> BOOLEAN]
    /\ send \in [Clients -> 0..SendBuffer]
    /\ dedup \in [Clients -> Seq(Events)]
    /\ \A c \in Clients : Len(dedup[c]) <= DedupDepth
    /\ reader \in [Clients -> Readers]
    /\ writer \in [Clients -> Writers]
    /\ hooks \in [Goroutines -> SUBSET Hooks]
    /\ cast \in [Broadcasters -> Casts \cup {Quiet}]
    /\ told \in [Scopes -> Int]
    /\ copies \in [Clients -> [Events -> 0..2]]

LEMMA TypedEnough ==
    ASSUME TypeOK, Typed', ConnsCounted'
    PROVE  TypeOK'
<1>1. Counting' \subseteq Clients
  BY DEF Counting
<1>2. Cardinality(Counting') \in 0..Cardinality(Clients)
  BY <1>1, FS_Subset, FS_CardinalityType, HubAssumption
<1>3. conns' = Cardinality(Counting')
  BY DEF ConnsCounted, Counting, Counts
<1> QED
  BY <1>2, <1>3 DEF Typed, TypeOK

LEMMA joinTypes ==
    ASSUME TypeOK, NEW c \in Clients, NEW s \in Scopes, join(c, s)
    PROVE  /\ rooms' \in [Scopes -> SUBSET Clients]
           /\ scopes' \in [Clients -> SUBSET Scopes]
           /\ hooks' \in [Goroutines -> SUBSET Hooks]
<1>1. {<<"subscribed", s>>} \in SUBSET Hooks
  BY DEF Hooks
<1> QED
  BY <1>1, GoroutinesFinite DEF join, TypeOK

LEMMA leaveTypes ==
    ASSUME TypeOK, NEW c \in Clients, NEW s \in Scopes, leave(c, s)
    PROVE  /\ rooms' \in [Scopes -> SUBSET Clients]
           /\ scopes' \in [Clients -> SUBSET Scopes]
           /\ hooks' \in [Goroutines -> SUBSET Hooks]
<1>1. {<<"unsubscribed", s>>} \in SUBSET Hooks
  BY DEF Hooks
<1> QED
  BY <1>1, GoroutinesFinite DEF leave, TypeOK

LEMMA dropTypes ==
    ASSUME TypeOK, NEW c \in Clients, NEW pump \in {"reader", "writer"},
           drop(c, pump)
    PROVE  /\ dropped' \in [Clients -> BOOLEAN]
           /\ rooms' \in [Scopes -> SUBSET Clients]
           /\ hooks' \in [Goroutines -> SUBSET Hooks]
           /\ AfterDrop(c) \in {"drop", "done"}
<1> DEFINE owed == {<<"unsubscribed", s>> : s \in {t \in scopes[c] : Emptied(t, c)}}
<1>1. owed \in SUBSET Hooks
  BY DEF Hooks, TypeOK
<1>2. <<c, pump>> \in Goroutines
  BY DEF Goroutines
<1>3. AfterDrop(c) \in {"drop", "done"}
  BY DEF AfterDrop
<1>4. CASE Drops(c)
  <2>1. hooks' = [hooks EXCEPT ![<<c, pump>>] = owed]
    BY <1>4 DEF drop
  <2> HIDE DEF owed
  <2>2. hooks' \in [Goroutines -> SUBSET Hooks]
    BY <1>1, <1>2, <2>1 DEF TypeOK
  <2>3. dropped' \in [Clients -> BOOLEAN]
    BY <1>4 DEF drop, TypeOK
  <2>4. rooms' \in [Scopes -> SUBSET Clients]
    <3>1. rooms' = [s \in Scopes |-> IF s \in scopes[c] THEN rooms[s] \ {c}
                                                       ELSE rooms[s]]
      BY <1>4 DEF drop
    <3>2. \A s \in Scopes : rooms[s] \subseteq Clients
      BY DEF TypeOK
    <3> QED
      BY <3>1, <3>2
  <2> QED
    BY <1>3, <2>2, <2>3, <2>4
<1>5. CASE ~Drops(c)
  BY <1>3, <1>5 DEF drop, TypeOK
<1> QED
  BY <1>4, <1>5

\* The memory grows by the new event and forgets at most the oldest.
LEMMA RememberedTypes ==
    ASSUME NEW order \in Seq(Events), NEW e \in Events,
           Len(order) <= DedupDepth
    PROVE  /\ Remembered(order, e) \in Seq(Events)
           /\ Len(Remembered(order, e)) <= DedupDepth
BY HubAssumption DEF Remembered

LEMMA RestType ==
    ASSUME TypeOK, NEW b \in Broadcasters, NEW c, cast[b] \in Casts
    PROVE  /\ Rest(cast[b], c) \in Casts \cup {Quiet}
           /\ Rest(cast[b], c).targets \subseteq cast[b].targets
           /\ Rest(cast[b], c).to = "nobody"
BY DEF Rest, Casts, Quiet

LEMMA sendJSONType ==
    ASSUME TypeOK, NEW c \in Clients, sendJSON(c)
    PROVE  send' \in [Clients -> 0..SendBuffer]
BY HubAssumption DEF sendJSON, TypeOK

LEMMA TypedKept ==
    ASSUME IInv, Next
    PROVE  Typed'
<1> USE DEF unchangedFrames, unchangedRooms
<1>1. TypeOK /\ SendBuffer \in Nat
  BY HubAssumption DEF IInv
<1>2. /\ \A pc \in {"none", "read", "reply", "drop", "done"} : [pc |-> pc] \in Readers
      /\ \A s \in Scopes : [pc |-> "ask", scope |-> s] \in Readers
      /\ \A todo \in Seq(Scopes) : [pc |-> "serve", todo |-> todo] \in Readers
  BY DEF Readers
<1>3. ASSUME NEW c \in Clients, ServeWS(c)
      PROVE  Typed'
  <2>1. ASSUME NEW first \in {<<>>} \cup {<<t>> : t \in Topics}
        PROVE  Append(first, UserRoom) \in Seq(Scopes)
    <3>1. UserRoom \in Scopes /\ Topics \subseteq Scopes
      BY DEF Scopes
    <3>2. CASE first = <<>>
      <4>1. <<>> \in Seq(Scopes)
        OBVIOUS
      <4> QED
        BY <3>1, <3>2, <4>1
    <3>3. ASSUME NEW t \in Topics, first = <<t>>
          PROVE  Append(first, UserRoom) \in Seq(Scopes)
      <4>1. <<t>> \in Seq(Scopes)
        BY <3>1
      <4> QED
        BY <3>1, <3>3, <4>1
    <3> QED
      BY <3>2, <3>3
  <2>2. reader' \in [Clients -> Readers]
    <3>1. CASE reader' = [reader EXCEPT ![c] = [pc |-> "read"]]
      <4>1. [pc |-> "read"] \in Readers
        BY <1>2
      <4> QED
        BY <1>1, <3>1, <4>1 DEF TypeOK
    <3>2. ASSUME NEW first \in {<<>>} \cup {<<t>> : t \in Topics},
                 reader' = [reader EXCEPT ![c] =
                              [pc |-> "serve", todo |-> Append(first, UserRoom)]]
          PROVE  reader' \in [Clients -> Readers]
      <4>1. [pc |-> "serve", todo |-> Append(first, UserRoom)] \in Readers
        BY <1>2, <2>1
      <4> QED
        BY <1>1, <3>2, <4>1 DEF TypeOK
    <3> QED
      BY <1>3, <3>1, <3>2 DEF ServeWS
  <2>3. writer' \in [Clients -> Writers]
    BY <1>1, <1>3 DEF ServeWS, TypeOK, Writers
  <2> QED
    BY <1>1, <1>3, <2>2, <2>3 DEF ServeWS, TypeOK, Typed
<1>4. ASSUME NEW c \in Clients, ServeJoin(c)
      PROVE  Typed'
  <2>1. /\ reader[c].pc = "serve" /\ reader[c].todo # <<>>
        /\ reader[c].todo \in Seq(Scopes)
        /\ reader[c] = [pc |-> "serve", todo |-> reader[c].todo]
    BY <1>1, <1>4, ReaderFields DEF ServeJoin
  <2>2. Head(reader[c].todo) \in Scopes /\ Tail(reader[c].todo) \in Seq(Scopes)
    BY <2>1
  <2>3. [reader[c] EXCEPT !.todo = Tail(reader[c].todo)]
           = [pc |-> "serve", todo |-> Tail(reader[c].todo)]
    BY <2>1
  <2>4. reader' = [reader EXCEPT ![c] = [reader[c] EXCEPT !.todo = Tail(reader[c].todo)]]
    BY <1>4 DEF ServeJoin
  <2>5. reader' \in [Clients -> Readers]
    <3>1. [reader[c] EXCEPT !.todo = Tail(reader[c].todo)] \in Readers
      BY <1>2, <2>2, <2>3
    <3> QED
      BY <1>1, <2>4, <3>1 DEF TypeOK
  <2> QED
    BY <1>1, <1>4, <2>2, <2>5, joinTypes DEF ServeJoin, TypeOK, Typed
<1>5. ASSUME NEW c \in Clients, StartPumps(c)
      PROVE  Typed'
  <2>1. send' \in [Clients -> 0..SendBuffer]
    BY <1>1, <1>5, sendJSONType DEF StartPumps, TypeOK
  <2> QED
    BY <1>1, <1>2, <1>5, <2>1 DEF StartPumps, TypeOK, Typed, Writers
<1>6. ASSUME NEW c \in Clients, NEW s \in Scopes, Ask(c, s)
      PROVE  Typed'
  BY <1>1, <1>2, <1>6 DEF Ask, TypeOK, Typed
<1>7. ASSUME NEW c \in Clients, AnswerAtOnce(c)
      PROVE  Typed'
  BY <1>1, <1>7, sendJSONType DEF AnswerAtOnce, TypeOK, Typed
<1>8. ASSUME NEW c \in Clients, Accept(c)
      PROVE  Typed'
  <2>1. reader[c].scope \in Scopes
    BY <1>1, <1>8, ReaderFields DEF Accept
  <2> QED
    BY <1>1, <1>2, <1>8, <2>1, joinTypes DEF Accept, TypeOK, Typed
<1>9. ASSUME NEW c \in Clients, Reject(c)
      PROVE  Typed'
  BY <1>1, <1>2, <1>9 DEF Reject, TypeOK, Typed
<1>10. ASSUME NEW c \in Clients, Reply(c)
       PROVE  Typed'
  BY <1>1, <1>2, <1>10, sendJSONType DEF Reply, TypeOK, Typed
<1>11. ASSUME NEW c \in Clients, NEW s \in Scopes, Unsubscribe(c, s)
       PROVE  Typed'
  BY <1>1, <1>11, leaveTypes DEF Unsubscribe, TypeOK, Typed
<1>12. ASSUME NEW c \in Clients, ReadFails(c)
       PROVE  Typed'
  <2>1. drop(c, "reader")
    BY <1>12 DEF ReadFails
  <2>2. AfterDrop(c) \in {"drop", "done"}
    BY <1>1, <2>1, dropTypes
  <2>3. [pc |-> AfterDrop(c)] \in Readers
    BY <1>2, <2>2
  <2>4. reader' \in [Clients -> Readers]
    BY <1>1, <1>12, <2>3 DEF ReadFails, TypeOK
  <2> QED
    BY <1>1, <1>12, <2>1, <2>4, dropTypes DEF ReadFails, TypeOK, Typed
<1>13. ASSUME NEW c \in Clients, WriteFails(c)
       PROVE  Typed'
  <2>1. drop(c, "writer")
    BY <1>13 DEF WriteFails
  <2>2. AfterDrop(c) \in Writers
    BY <1>1, <2>1, dropTypes DEF Writers
  <2>3. writer' \in [Clients -> Writers]
    BY <1>1, <1>13, <2>2 DEF WriteFails, TypeOK
  <2> QED
    BY <1>1, <1>13, <2>1, <2>3, dropTypes DEF WriteFails, TypeOK, Typed
<1>14. ASSUME NEW c \in Clients, ReaderDropped(c)
       PROVE  Typed'
  BY <1>1, <1>2, <1>14 DEF ReaderDropped, TypeOK, Typed
<1>15. ASSUME NEW c \in Clients, WriterDropped(c)
       PROVE  Typed'
  BY <1>1, <1>15 DEF WriterDropped, TypeOK, Typed, Writers
<1>16. ASSUME NEW g \in Goroutines, Callback(g)
       PROVE  Typed'
  <2>1. PICK h \in hooks[g] :
          /\ told' = [told EXCEPT ![h[2]] =
                        IF h[1] = "subscribed" THEN @ + 1 ELSE @ - 1]
          /\ hooks' = [hooks EXCEPT ![g] = @ \ {h}]
    BY <1>16 DEF Callback
  <2>2. hooks[g] \subseteq Hooks
    BY <1>1 DEF TypeOK
  <2>3. h[2] \in Scopes
    BY <2>2 DEF Hooks
  <2>4. told' \in [Scopes -> Int]
    BY <1>1, <2>1, <2>3 DEF TypeOK
  <2>5. hooks' \in [Goroutines -> SUBSET Hooks]
    BY <1>1, <2>1, <2>2 DEF TypeOK
  <2> QED
    BY <1>1, <1>16, <2>4, <2>5 DEF Callback, TypeOK, Typed
<1>17. ASSUME NEW c \in Clients, Break(c)
       PROVE  Typed'
  BY <1>1, <1>17 DEF Break, TypeOK, Typed
<1>18. ASSUME NEW c \in Clients, Write(c)
       PROVE  Typed'
  <2>1. send' \in [Clients -> 0..SendBuffer]
    BY <1>1, <1>18 DEF Write, TypeOK
  <2> QED
    BY <1>1, <1>18, <2>1 DEF Write, TypeOK, Typed
<1>19. ASSUME NEW b \in Broadcasters, NEW s \in Scopes, NEW e \in Events,
              Broadcast(b, s, e)
       PROVE  Typed'
  <2>1. [event |-> e, targets |-> rooms[s], to |-> "nobody"] \in Casts
    BY <1>1 DEF Casts, TypeOK
  <2> QED
    BY <1>1, <1>19, <2>1 DEF Broadcast, TypeOK, Typed
<1>20. ASSUME NEW b \in Broadcasters, Remember(b)
       PROVE  Typed'
  <2>1. PICK c \in cast[b].targets :
          LET e == cast[b].event IN
          IF Seen(c, e)
          THEN /\ cast' = [cast EXCEPT ![b] = Rest(@, c)]
               /\ UNCHANGED dedup
          ELSE /\ cast' = [cast EXCEPT ![b].to = c]
               /\ dedup' = [dedup EXCEPT ![c] = Remembered(@, e)]
    BY <1>20 DEF Remember
  <2>2. cast[b] \in Casts /\ c \in Clients /\ cast[b].event \in Events
    BY <1>1, <2>1, CastFields DEF Casts
  <2>3. CASE Seen(c, cast[b].event)
    <3>1. cast' \in [Broadcasters -> Casts \cup {Quiet}]
      <4>1. Rest(cast[b], c) \in Casts \cup {Quiet}
        BY <1>1, <2>2, RestType
      <4>2. cast' = [cast EXCEPT ![b] = Rest(cast[b], c)]
        BY <2>1, <2>3
      <4> QED
        BY <1>1, <4>1, <4>2 DEF TypeOK
    <3> QED
      BY <1>1, <1>20, <2>1, <2>3, <3>1 DEF Remember, TypeOK, Typed
  <2>4. CASE ~Seen(c, cast[b].event)
    <3>1. cast' = [cast EXCEPT ![b] = [cast[b] EXCEPT !.to = c]]
      BY <2>1, <2>4
    <3>2. [cast[b] EXCEPT !.to = c] \in Casts
      BY <2>2 DEF Casts
    <3>3. cast' \in [Broadcasters -> Casts \cup {Quiet}]
      BY <1>1, <3>1, <3>2 DEF TypeOK
    <3>4. dedup' = [dedup EXCEPT ![c] = Remembered(dedup[c], cast[b].event)]
      BY <2>1, <2>4
    <3>5. dedup[c] \in Seq(Events) /\ Len(dedup[c]) <= DedupDepth
      BY <1>1, <2>2 DEF TypeOK
    <3>6. /\ Remembered(dedup[c], cast[b].event) \in Seq(Events)
          /\ Len(Remembered(dedup[c], cast[b].event)) <= DedupDepth
      BY <2>2, <3>5, RememberedTypes
    <3>7. \A d \in Clients : dedup'[d] \in {dedup[d], Remembered(dedup[c], cast[b].event)}
      BY <3>4
    <3>8. /\ dedup' \in [Clients -> Seq(Events)]
          /\ \A d \in Clients : Len(dedup'[d]) <= DedupDepth
      BY <1>1, <3>4, <3>6, <3>7 DEF TypeOK
    <3> QED
      BY <1>1, <1>20, <3>3, <3>8 DEF Remember, TypeOK, Typed
  <2> QED
    BY <2>3, <2>4
<1>21. ASSUME NEW b \in Broadcasters, Queue(b)
       PROVE  Typed'
  <2> DEFINE c == cast[b].to
  <2>1. c \in Clients /\ cast[b] \in Casts /\ cast[b].event \in Events
    BY <1>1, <1>21, CastFields DEF Queue
  <2>2. Rest(cast[b], c) \in Casts \cup {Quiet}
    BY <1>1, <2>1, RestType
  <2>3. cast' \in [Broadcasters -> Casts \cup {Quiet}]
    BY <1>1, <1>21, <2>2 DEF Queue, TypeOK
  <2>4. CASE send[c] < SendBuffer
    <3>1. send' \in [Clients -> 0..SendBuffer]
      <4>1. send' = [send EXCEPT ![c] = send[c] + 1]
        BY <1>21, <2>4 DEF Queue
      <4>2. send[c] + 1 \in 0..SendBuffer
        BY <1>1, <2>1, <2>4 DEF TypeOK
      <4> QED
        BY <1>1, <4>1, <4>2 DEF TypeOK
    <3>2. copies[c] \in [Events -> 0..2]
      BY <1>1, <2>1 DEF TypeOK
    <3> DEFINE e == cast[b].event
    <3> DEFINE n == IF copies[c][e] < 2 THEN copies[c][e] + 1 ELSE copies[c][e]
    <3>3. copies' = [copies EXCEPT ![c] = [copies[c] EXCEPT ![e] = n]]
      BY <1>1, <1>21, <2>1, <2>4 DEF Queue, TypeOK
    <3>4. n \in 0..2
      BY <2>1, <3>2
    <3>5. [copies[c] EXCEPT ![e] = n] \in [Events -> 0..2]
      BY <3>2, <3>4
    <3>6. copies' \in [Clients -> [Events -> 0..2]]
      BY <1>1, <3>3, <3>5 DEF TypeOK
    <3> QED
      BY <1>1, <1>21, <2>3, <2>4, <3>1, <3>6 DEF Queue, TypeOK, Typed
  <2>5. CASE ~(send[c] < SendBuffer)
    <3>1. conn' = [conn EXCEPT ![c] = "closed"] /\ UNCHANGED <<send, copies>>
      BY <1>21, <2>5 DEF Queue, ClosedBySlow
    <3> QED
      BY <1>1, <1>21, <2>3, <3>1 DEF Queue, TypeOK, Typed
  <2> QED
    BY <2>4, <2>5
<1> QED
  BY GoroutinesFinite, <1>3, <1>4, <1>5, <1>6, <1>7, <1>8, <1>9, <1>10, <1>11,
     <1>12, <1>13, <1>14, <1>15, <1>16, <1>17, <1>18, <1>19, <1>20, <1>21
     DEF Next, ReadPump, WritePump, Frames, Deliver

-----------------------------------------------------------------------------
(* The pumps *)

\* A step that leaves the pumps of d, its connection and its callbacks alone.
Same(d) ==
    /\ reader'[d] = reader[d] /\ writer'[d] = writer[d]
    /\ dropped'[d] = dropped[d] /\ conn'[d] = conn[d]
    /\ hooks'[<<d, "reader">>] = hooks[<<d, "reader">>]
    /\ hooks'[<<d, "writer">>] = hooks[<<d, "writer">>]

LEMMA SameWired ==
    ASSUME NEW d, Wired(d), Same(d)
    PROVE  Wired(d)'
BY DEF Wired, Same

\* The other clients when one client's goroutine takes a step.
LEMMA OnlyHooksOf ==
    ASSUME TypeOK, NEW c \in Clients, NEW pump \in {"reader", "writer"}, NEW H,
           hooks' = [hooks EXCEPT ![<<c, pump>>] = H]
    PROVE  /\ hooks'[<<c, pump>>] = H
           /\ \A other \in {"reader", "writer"} :
                 other # pump => hooks'[<<c, other>>] = hooks[<<c, other>>]
           /\ \A d \in Clients \ {c} :
                 /\ hooks'[<<d, "reader">>] = hooks[<<d, "reader">>]
                 /\ hooks'[<<d, "writer">>] = hooks[<<d, "writer">>]
<1>1. /\ <<c, pump>> \in Goroutines
      /\ \A d \in Clients, q \in {"reader", "writer"} : <<d, q>> \in Goroutines
  BY DEF Goroutines
<1> QED
  BY <1>1 DEF TypeOK

\* The pump that finds the connection closed goes on to the callbacks of
\* drop, or is done because the other pump has dropped the client.
LEMMA dropHooks ==
    ASSUME TypeOK, NEW c \in Clients, NEW pump \in {"reader", "writer"},
           drop(c, pump)
    PROVE  /\ \A other \in {"reader", "writer"} :
                 other # pump => hooks'[<<c, other>>] = hooks[<<c, other>>]
           /\ \A d \in Clients \ {c} :
                 /\ hooks'[<<d, "reader">>] = hooks[<<d, "reader">>]
                 /\ hooks'[<<d, "writer">>] = hooks[<<d, "writer">>]
<1> DEFINE owed == {<<"unsubscribed", s>> : s \in {t \in scopes[c] : Emptied(t, c)}}
<1>1. CASE Drops(c)
  <2>1. hooks' = [hooks EXCEPT ![<<c, pump>>] = owed]
    BY <1>1 DEF drop
  <2> HIDE DEF owed
  <2> QED
    BY <2>1, OnlyHooksOf
<1>2. CASE ~Drops(c)
  BY <1>2 DEF drop
<1> QED
  BY <1>1, <1>2

LEMMA WiredKept ==
    ASSUME IInv, Next
    PROVE  \A c \in Clients : Wired(c)'
<1> USE DEF unchangedFrames, unchangedRooms
<1>1. TypeOK /\ Served /\ \A c \in Clients : Wired(c)
  BY DEF IInv
<1>2. ASSUME NEW c \in Clients, \A d \in Clients \ {c} : Same(d), Wired(c)'
      PROVE  \A d \in Clients : Wired(d)'
  BY <1>1, <1>2, SameWired
<1>3. ASSUME NEW c \in Clients, ServeWS(c)
      PROVE  \A d \in Clients : Wired(d)'
  <2>1. conn' = [conn EXCEPT ![c] = "open"] /\ conn[c] = "none"
        /\ UNCHANGED <<dropped, hooks>>
    BY <1>3 DEF ServeWS
  <2>2. /\ \A d \in Clients \ {c} : reader'[d] = reader[d] /\ writer'[d] = writer[d]
        /\ conn'[c] = "open" /\ \A d \in Clients \ {c} : conn'[d] = conn[d]
    BY <1>1, <1>3 DEF ServeWS, TypeOK
  <2>3. \/ reader'[c].pc = "serve" /\ writer'[c] = writer[c]
        \/ reader'[c].pc = "read" /\ writer'[c] = "run"
    BY <1>1, <1>3 DEF ServeWS, TypeOK
  <2>4. Wired(c)'
    BY <1>1, <2>1, <2>2, <2>3 DEF Wired
  <2> QED
    BY <1>2, <2>1, <2>2, <2>4 DEF Same
<1>4. ASSUME NEW c \in Clients, ServeJoin(c)
      PROVE  \A d \in Clients : Wired(d)'
  <2>1. reader[c].pc = "serve" /\ UNCHANGED <<conn, dropped, writer>>
    BY <1>4 DEF ServeJoin
  <2>2. reader' = [reader EXCEPT ![c] = [reader[c] EXCEPT !.todo = Tail(reader[c].todo)]]
    BY <1>4 DEF ServeJoin
  <2>3. [reader[c] EXCEPT !.todo = Tail(reader[c].todo)].pc = "serve"
    BY <1>1, <2>1, ReaderFields
  <2>4. /\ reader'[c].pc = "serve"
        /\ \A d \in Clients \ {c} : reader'[d] = reader[d]
    BY <1>1, <2>2, <2>3 DEF TypeOK
  <2>5. PICK H : hooks' = [hooks EXCEPT ![<<c, "reader">>] = H]
    BY <1>4 DEF ServeJoin, join
  <2>6. Wired(c)'
    BY <1>1, <2>1, <2>4, <2>5, OnlyHooksOf DEF Wired
  <2> QED
    BY <1>1, <1>2, <2>1, <2>4, <2>5, <2>6, OnlyHooksOf DEF Same
<1>5. ASSUME NEW c \in Clients, StartPumps(c)
      PROVE  \A d \in Clients : Wired(d)'
  <2>1. /\ reader' = [reader EXCEPT ![c] = [pc |-> "read"]]
        /\ writer' = [writer EXCEPT ![c] = "run"]
        /\ UNCHANGED <<conn, dropped, hooks>> /\ reader[c].pc = "serve"
    BY <1>5 DEF StartPumps
  <2>2. /\ reader'[c].pc = "read" /\ writer'[c] = "run"
        /\ \A d \in Clients \ {c} : reader'[d] = reader[d] /\ writer'[d] = writer[d]
    BY <1>1, <2>1 DEF TypeOK
  <2>3. Wired(c)'
    BY <1>1, <2>1, <2>2 DEF Wired
  <2> QED
    BY <1>2, <2>1, <2>2, <2>3 DEF Same
<1>6. ASSUME NEW c \in Clients, NEW s \in Scopes, Ask(c, s)
      PROVE  \A d \in Clients : Wired(d)'
  <2>1. /\ reader' = [reader EXCEPT ![c] = [pc |-> "ask", scope |-> s]]
        /\ UNCHANGED <<conn, dropped, writer, hooks>> /\ reader[c].pc = "read"
        /\ hooks[<<c, "reader">>] = {}
    BY <1>6 DEF Ask, Reading, Free
  <2>2. /\ reader'[c].pc = "ask"
        /\ \A d \in Clients \ {c} : reader'[d] = reader[d]
    BY <1>1, <2>1 DEF TypeOK
  <2>3. Wired(c)'
    BY <1>1, <2>1, <2>2 DEF Wired
  <2> QED
    BY <1>2, <2>1, <2>2, <2>3 DEF Same
<1>7. ASSUME NEW c \in Clients, Accept(c)
      PROVE  \A d \in Clients : Wired(d)'
  <2>1. /\ reader' = [reader EXCEPT ![c] = [pc |-> "reply"]]
        /\ UNCHANGED <<conn, dropped, writer>> /\ reader[c].pc = "ask"
    BY <1>7 DEF Accept
  <2>2. /\ reader'[c].pc = "reply"
        /\ \A d \in Clients \ {c} : reader'[d] = reader[d]
    BY <1>1, <2>1 DEF TypeOK
  <2>3. PICK H : hooks' = [hooks EXCEPT ![<<c, "reader">>] = H]
    BY <1>7 DEF Accept, join
  <2>4. Wired(c)'
    BY <1>1, <2>1, <2>2, <2>3, OnlyHooksOf DEF Wired
  <2> QED
    BY <1>1, <1>2, <2>1, <2>2, <2>3, <2>4, OnlyHooksOf DEF Same
<1>8. ASSUME NEW c \in Clients, Reject(c)
      PROVE  \A d \in Clients : Wired(d)'
  <2>1. /\ reader' = [reader EXCEPT ![c] = [pc |-> "reply"]]
        /\ UNCHANGED <<conn, dropped, writer, hooks>> /\ reader[c].pc = "ask"
    BY <1>8 DEF Reject
  <2>2. /\ reader'[c].pc = "reply"
        /\ \A d \in Clients \ {c} : reader'[d] = reader[d]
    BY <1>1, <2>1 DEF TypeOK
  <2>3. Wired(c)'
    BY <1>1, <2>1, <2>2 DEF Wired
  <2> QED
    BY <1>2, <2>1, <2>2, <2>3 DEF Same
<1>9. ASSUME NEW c \in Clients, Reply(c)
      PROVE  \A d \in Clients : Wired(d)'
  <2>1. /\ reader' = [reader EXCEPT ![c] = [pc |-> "read"]]
        /\ UNCHANGED <<conn, dropped, writer, hooks>> /\ reader[c].pc = "reply"
    BY <1>9 DEF Reply
  <2>2. /\ reader'[c].pc = "read"
        /\ \A d \in Clients \ {c} : reader'[d] = reader[d]
    BY <1>1, <2>1 DEF TypeOK
  <2>3. Wired(c)'
    BY <1>1, <2>1, <2>2 DEF Wired
  <2> QED
    BY <1>2, <2>1, <2>2, <2>3 DEF Same
<1>10. ASSUME NEW c \in Clients, NEW s \in Scopes, Unsubscribe(c, s)
       PROVE  \A d \in Clients : Wired(d)'
  <2>1. UNCHANGED <<conn, dropped, writer, reader>> /\ reader[c].pc = "read"
    BY <1>10 DEF Unsubscribe, Reading
  <2>2. PICK H : hooks' = [hooks EXCEPT ![<<c, "reader">>] = H]
    BY <1>10 DEF Unsubscribe, leave
  <2>3. Wired(c)'
    BY <1>1, <2>1, <2>2, OnlyHooksOf DEF Wired
  <2> QED
    BY <1>1, <1>2, <2>1, <2>2, <2>3, OnlyHooksOf DEF Same
<1>11. ASSUME NEW c \in Clients, ReadFails(c)
       PROVE  \A d \in Clients : Wired(d)'
  <2>1. /\ reader' = [reader EXCEPT ![c] = [pc |-> AfterDrop(c)]]
        /\ UNCHANGED <<conn, writer>> /\ reader[c].pc = "read"
        /\ conn[c] = "closed" /\ drop(c, "reader")
    BY <1>11 DEF ReadFails, Reading
  <2>2. /\ reader'[c].pc = AfterDrop(c)
        /\ \A d \in Clients \ {c} : reader'[d] = reader[d]
    BY <1>1, <2>1 DEF TypeOK
  <2>3. /\ \A d \in Clients \ {c} : dropped'[d] = dropped[d]
        /\ dropped'[c]
        /\ ~dropped[c] <=> AfterDrop(c) = "drop"
        /\ dropped[c] => AfterDrop(c) = "done"
    BY <1>1, <2>1, DropWrites
  <2>4. /\ hooks'[<<c, "writer">>] = hooks[<<c, "writer">>]
        /\ \A d \in Clients \ {c} :
              /\ hooks'[<<d, "reader">>] = hooks[<<d, "reader">>]
              /\ hooks'[<<d, "writer">>] = hooks[<<d, "writer">>]
    BY <1>1, <2>1, dropHooks
  <2>5. Wired(c)'
    BY <1>1, <2>1, <2>2, <2>3, <2>4 DEF Wired
  <2> QED
    BY <1>2, <2>1, <2>2, <2>3, <2>4, <2>5 DEF Same
<1>12. ASSUME NEW c \in Clients, WriteFails(c)
       PROVE  \A d \in Clients : Wired(d)'
  <2>1. /\ writer' = [writer EXCEPT ![c] = AfterDrop(c)]
        /\ UNCHANGED <<conn, reader>> /\ writer[c] = "run"
        /\ conn[c] = "closed" /\ drop(c, "writer")
    BY <1>12 DEF WriteFails
  <2>2. /\ writer'[c] = AfterDrop(c)
        /\ \A d \in Clients \ {c} : writer'[d] = writer[d]
    BY <1>1, <2>1 DEF TypeOK
  <2>3. /\ \A d \in Clients \ {c} : dropped'[d] = dropped[d]
        /\ dropped'[c]
        /\ ~dropped[c] <=> AfterDrop(c) = "drop"
        /\ dropped[c] => AfterDrop(c) = "done"
    BY <1>1, <2>1, DropWrites
  <2>4. /\ hooks'[<<c, "reader">>] = hooks[<<c, "reader">>]
        /\ \A d \in Clients \ {c} :
              /\ hooks'[<<d, "reader">>] = hooks[<<d, "reader">>]
              /\ hooks'[<<d, "writer">>] = hooks[<<d, "writer">>]
    BY <1>1, <2>1, dropHooks
  <2>5. Wired(c)'
    BY <1>1, <2>1, <2>2, <2>3, <2>4 DEF Wired
  <2> QED
    BY <1>2, <2>1, <2>2, <2>3, <2>4, <2>5 DEF Same
<1>13. ASSUME NEW c \in Clients, ReaderDropped(c)
       PROVE  \A d \in Clients : Wired(d)'
  <2>1. /\ reader' = [reader EXCEPT ![c] = [pc |-> "done"]]
        /\ UNCHANGED <<conn, dropped, writer, hooks>> /\ reader[c].pc = "drop"
    BY <1>13 DEF ReaderDropped
  <2>2. /\ reader'[c].pc = "done"
        /\ \A d \in Clients \ {c} : reader'[d] = reader[d]
    BY <1>1, <2>1 DEF TypeOK
  <2>3. Wired(c)'
    BY <1>1, <2>1, <2>2 DEF Wired
  <2> QED
    BY <1>2, <2>1, <2>2, <2>3 DEF Same
<1>14. ASSUME NEW c \in Clients, WriterDropped(c)
       PROVE  \A d \in Clients : Wired(d)'
  <2>1. /\ writer' = [writer EXCEPT ![c] = "done"]
        /\ UNCHANGED <<conn, dropped, reader, hooks>> /\ writer[c] = "drop"
    BY <1>14 DEF WriterDropped
  <2>2. /\ writer'[c] = "done"
        /\ \A d \in Clients \ {c} : writer'[d] = writer[d]
    BY <1>1, <2>1 DEF TypeOK
  <2>3. Wired(c)'
    BY <1>1, <2>1, <2>2 DEF Wired
  <2> QED
    BY <1>2, <2>1, <2>2, <2>3 DEF Same
<1>15. ASSUME NEW g \in Goroutines, Callback(g)
       PROVE  \A d \in Clients : Wired(d)'
  <2>1. PICK h : hooks' = [hooks EXCEPT ![g] = @ \ {h}]
    BY <1>15 DEF Callback
  <2>2. \A k \in Goroutines : hooks[k] = {} => hooks'[k] = {}
    BY <1>1, <2>1 DEF TypeOK
  <2>3. UNCHANGED <<conn, dropped, reader, writer>>
    BY <1>15 DEF Callback
  <2> QED
    BY <1>1, <2>2, <2>3, GoroutinesFinite DEF Wired
<1>16. ASSUME UNCHANGED <<dropped, reader, writer, hooks>>,
              \A d \in Clients : conn'[d] = "none" <=> conn[d] = "none"
       PROVE  \A d \in Clients : Wired(d)'
  BY <1>1, <1>16 DEF Wired
<1>17. ASSUME NEW c \in Clients, AnswerAtOnce(c) \/ Write(c)
       PROVE  \A d \in Clients : Wired(d)'
  BY <1>16, <1>17 DEF AnswerAtOnce, Write
<1>18. ASSUME NEW c \in Clients, Break(c)
       PROVE  \A d \in Clients : Wired(d)'
  <2>1. \A d \in Clients : conn'[d] = "none" <=> conn[d] = "none"
    BY <1>1, <1>18 DEF Break, TypeOK
  <2> QED
    BY <1>16, <1>18, <2>1 DEF Break
<1>19. ASSUME NEW b \in Broadcasters, Queue(b)
       PROVE  \A d \in Clients : Wired(d)'
  <2>1. cast[b].to \in Clients /\ conn[cast[b].to] # "none"
    BY <1>1, <1>19, CastFields DEF Queue, Served
  <2>2. conn' \in {conn, [conn EXCEPT ![cast[b].to] = "closed"]}
    BY <1>19 DEF Queue, ClosedBySlow
  <2>3. \A d \in Clients : conn'[d] = "none" <=> conn[d] = "none"
    BY <1>1, <2>1, <2>2 DEF TypeOK
  <2> QED
    BY <1>16, <1>19, <2>3 DEF Queue
<1>20. ASSUME NEW b \in Broadcasters,
              Remember(b) \/ \E s \in Scopes, e \in Events : Broadcast(b, s, e)
       PROVE  \A d \in Clients : Wired(d)'
  BY <1>16, <1>20 DEF Remember, Broadcast
<1> QED
  BY GoroutinesFinite, <1>3, <1>4, <1>5, <1>6, <1>7, <1>8, <1>9, <1>10, <1>11,
     <1>12, <1>13, <1>14, <1>15, <1>17, <1>18, <1>19, <1>20
     DEF Next, ReadPump, WritePump, Frames, Deliver

-----------------------------------------------------------------------------
(* Rooms and broadcasts hold connections that were made *)

\* How conn evolves: a connection stays made, and closed for good.
LEMMA ConnStays ==
    ASSUME IInv, Next, NEW c \in Clients
    PROVE  /\ conn[c] # "none" => conn'[c] # "none"
           /\ conn[c] = "closed" => conn'[c] = "closed"
<1> USE DEF unchangedFrames, unchangedRooms
<1>1. TypeOK
  BY DEF IInv
<1>2. CASE conn' = conn
  BY <1>2
<1>3. ASSUME NEW d \in Clients, ServeWS(d) \/ Break(d)
      PROVE  /\ conn[c] # "none" => conn'[c] # "none"
             /\ conn[c] = "closed" => conn'[c] = "closed"
  BY <1>1, <1>3 DEF ServeWS, Break, TypeOK
<1>4. ASSUME NEW b \in Broadcasters, Queue(b)
      PROVE  /\ conn[c] # "none" => conn'[c] # "none"
             /\ conn[c] = "closed" => conn'[c] = "closed"
  <2>1. conn' = conn \/ conn' = [conn EXCEPT ![cast[b].to] = "closed"]
    BY <1>4 DEF Queue, ClosedBySlow
  <2> QED
    BY <1>1, <2>1 DEF TypeOK
<1>5. ASSUME NEW d \in Clients,
             \/ ServeJoin(d) \/ StartPumps(d) \/ Accept(d) \/ Reject(d)
             \/ Reply(d) \/ AnswerAtOnce(d) \/ Write(d)
             \/ \E s \in Scopes : Ask(d, s) \/ Unsubscribe(d, s)
      PROVE  conn' = conn
  BY <1>5 DEF ServeJoin, StartPumps, Accept, Reject, Reply, AnswerAtOnce,
     Write, Ask, Unsubscribe
<1>6. ASSUME NEW d \in Clients,
             \/ ReadFails(d) \/ WriteFails(d) \/ ReaderDropped(d)
             \/ WriterDropped(d) \/ \E g \in Goroutines : Callback(g)
      PROVE  conn' = conn
  BY <1>6 DEF ReadFails, WriteFails, ReaderDropped, WriterDropped, Callback
<1>7. ASSUME NEW b \in Broadcasters,
             Remember(b) \/ \E s \in Scopes, e \in Events : Broadcast(b, s, e)
      PROVE  conn' = conn
  BY <1>7 DEF Remember, Broadcast
<1> QED
  BY GoroutinesFinite, <1>2, <1>3, <1>4, <1>5, <1>6, <1>7
     DEF Next, ReadPump, WritePump, Frames, Deliver

\* drop takes clients out of rooms and puts none in.
LEMMA dropRooms ==
    ASSUME TypeOK, NEW c \in Clients, NEW pump, drop(c, pump), NEW s \in Scopes
    PROVE  /\ rooms'[s] \subseteq rooms[s]
           /\ ~(Drops(c) /\ s \in scopes[c]) => rooms'[s] = rooms[s]
           /\ Drops(c) /\ s \in scopes[c] => rooms'[s] = rooms[s] \ {c}
BY DEF drop, TypeOK

LEMMA ServedKept ==
    ASSUME IInv, Next
    PROVE  Served'
<1> USE DEF unchangedFrames, unchangedRooms
<1>1. /\ TypeOK /\ Served /\ \A c \in Clients : Wired(c)
      /\ \A c \in Clients : conn[c] # "none" => conn'[c] # "none"
      /\ \A s \in Scopes : rooms[s] \subseteq Clients
      /\ \A b \in Broadcasters : /\ cast[b].targets \subseteq Clients
                                 /\ cast[b].to \in Clients \cup {"nobody"}
  BY ConnStays, CastFields DEF IInv, TypeOK
<1>2. ASSUME cast' = cast, NEW c \in Clients, conn[c] # "none",
             \A s \in Scopes : rooms'[s] \subseteq rooms[s] \cup {c}
      PROVE  Served'
  BY <1>1, <1>2 DEF Served
<1>3. ASSUME cast' = cast, \A s \in Scopes : rooms'[s] \subseteq rooms[s]
      PROVE  Served'
  BY <1>1, <1>3 DEF Served
<1>4. ASSUME NEW c \in Clients, NEW s \in Scopes, join(c, s), cast' = cast,
             reader[c].pc \in {"serve", "ask"}
      PROVE  Served'
  <2>1. conn[c] # "none"
    BY <1>1, <1>4 DEF Wired
  <2>2. \A t \in Scopes : rooms'[t] \subseteq rooms[t] \cup {c}
    BY <1>1, <1>4 DEF join, TypeOK
  <2> QED
    BY <1>2, <1>4, <2>1, <2>2
<1>5. ASSUME NEW c \in Clients, ServeJoin(c)
      PROVE  Served'
  <2>1. reader[c].todo \in Seq(Scopes) /\ reader[c].todo # <<>>
    BY <1>1, <1>5, ReaderFields DEF ServeJoin
  <2>2. Head(reader[c].todo) \in Scopes
    BY <2>1
  <2> QED
    BY <1>4, <1>5, <2>2 DEF ServeJoin
<1>6. ASSUME NEW c \in Clients, Accept(c)
      PROVE  Served'
  <2>1. reader[c].scope \in Scopes
    BY <1>1, <1>6, ReaderFields DEF Accept
  <2> QED
    BY <1>4, <1>6, <2>1 DEF Accept
<1>7. ASSUME NEW c \in Clients, NEW s \in Scopes, Unsubscribe(c, s)
      PROVE  Served'
  <2>1. \A t \in Scopes : rooms'[t] \subseteq rooms[t]
    BY <1>1, <1>7 DEF Unsubscribe, leave, TypeOK
  <2> QED
    BY <1>3, <1>7, <2>1 DEF Unsubscribe
<1>8. ASSUME NEW c \in Clients, ReadFails(c) \/ WriteFails(c)
      PROVE  Served'
  <2>1. cast' = cast /\ \E pump : drop(c, pump)
    BY <1>8 DEF ReadFails, WriteFails
  <2> QED
    BY <1>1, <1>3, <2>1, dropRooms
<1>9. ASSUME UNCHANGED <<rooms, cast>>
      PROVE  Served'
  BY <1>3, <1>9
<1>10. ASSUME NEW c \in Clients,
              \/ ServeWS(c) \/ StartPumps(c) \/ Reject(c) \/ Reply(c)
              \/ AnswerAtOnce(c) \/ Write(c) \/ Break(c)
              \/ \E s \in Scopes : Ask(c, s)
       PROVE  Served'
  BY <1>9, <1>10 DEF ServeWS, StartPumps, Reject, Reply, AnswerAtOnce, Write,
     Break, Ask
<1>11. ASSUME NEW c \in Clients,
              \/ ReaderDropped(c) \/ WriterDropped(c)
              \/ \E g \in Goroutines : Callback(g)
       PROVE  Served'
  BY <1>9, <1>11 DEF ReaderDropped, WriterDropped, Callback
<1>12. ASSUME NEW b \in Broadcasters, rooms' = rooms, NEW j,
              cast' = [cast EXCEPT ![b] = j], j.targets \subseteq Clients,
              j.to \in Clients \cup {"nobody"},
              \A c \in j.targets : conn[c] # "none",
              j.to # "nobody" => conn[j.to] # "none"
       PROVE  Served'
  <2>1. /\ cast'[b] = j
        /\ \A d \in Broadcasters \ {b} : cast'[d] = cast[d]
    BY <1>1, <1>12 DEF TypeOK
  <2> QED
    BY <1>1, <1>12, <2>1 DEF Served
<1>13. ASSUME NEW b \in Broadcasters, NEW s \in Scopes, NEW e \in Events,
              Broadcast(b, s, e)
       PROVE  Served'
  <2> DEFINE j == [event |-> e, targets |-> rooms[s], to |-> "nobody"]
  <2>1. cast' = [cast EXCEPT ![b] = j] /\ rooms' = rooms
    BY <1>13 DEF Broadcast
  <2>2. j.targets = rooms[s] /\ j.to = "nobody"
    OBVIOUS
  <2> HIDE DEF j
  <2>3. \A c \in j.targets : conn[c] # "none"
    BY <1>1, <2>2 DEF Served
  <2> QED
    BY <1>1, <1>12, <2>1, <2>2, <2>3
<1>14. ASSUME NEW b \in Broadcasters, NEW c, cast[b] \in Casts, rooms' = rooms,
              cast' = [cast EXCEPT ![b] = Rest(cast[b], c)]
       PROVE  Served'
  <2> DEFINE j == Rest(cast[b], c)
  <2>1. j.targets \subseteq cast[b].targets /\ j.to = "nobody"
    BY <1>1, <1>14, RestType
  <2> HIDE DEF j
  <2>2. cast' = [cast EXCEPT ![b] = j]
    BY <1>14 DEF j
  <2> QED
    BY <1>1, <1>12, <1>14, <2>1, <2>2 DEF Served
<1>15. ASSUME NEW b \in Broadcasters, Remember(b)
       PROVE  Served'
  <2>1. PICK c \in cast[b].targets :
          \/ cast' = [cast EXCEPT ![b] = Rest(cast[b], c)]
          \/ cast' = [cast EXCEPT ![b] = [cast[b] EXCEPT !.to = c]]
    BY <1>15 DEF Remember
  <2>2. cast[b] \in Casts /\ rooms' = rooms
    BY <1>1, <1>15, <2>1, CastFields DEF Remember
  <2>3. CASE cast' = [cast EXCEPT ![b] = Rest(cast[b], c)]
    BY <1>14, <2>2, <2>3
  <2>4. CASE cast' = [cast EXCEPT ![b] = [cast[b] EXCEPT !.to = c]]
    <3> DEFINE j == [cast[b] EXCEPT !.to = c]
    <3>1. j.targets = cast[b].targets /\ j.to = c
      BY <2>2 DEF Casts
    <3> HIDE DEF j
    <3>2. cast' = [cast EXCEPT ![b] = j]
      BY <2>4 DEF j
    <3> QED
      BY <1>1, <1>12, <2>1, <2>2, <3>1, <3>2 DEF Served
  <2> QED
    BY <2>1, <2>3, <2>4
<1>16. ASSUME NEW b \in Broadcasters, Queue(b)
       PROVE  Served'
  BY <1>1, <1>14, <1>16, CastFields DEF Queue
<1> QED
  BY GoroutinesFinite, <1>5, <1>6, <1>7, <1>8, <1>10, <1>11, <1>13, <1>15, <1>16
     DEF Next, ReadPump, WritePump, Frames, Deliver

-----------------------------------------------------------------------------
(* The callbacks *)

\* The goroutines that owe the callback, and their number, with hooks h.
OwingIn(h, kind, s) == {g \in Goroutines : <<kind, s>> \in h[g]}
Owed(h, kind, s) == Cardinality(OwingIn(h, kind, s))
Owing(kind, s) == OwingIn(hooks, kind, s)

LEMMA PendingType ==
    ASSUME NEW kind, NEW s
    PROVE  /\ Owed(hooks, kind, s) = Cardinality(Owing(kind, s))
           /\ IsFiniteSet(Owing(kind, s))
           /\ Owed(hooks, kind, s) \in Nat
<1>1. Owing(kind, s) \subseteq Goroutines
  BY DEF Owing, OwingIn
<1>2. IsFiniteSet(Owing(kind, s))
  BY <1>1, GoroutinesFinite, FS_Subset
<1> QED
  BY <1>2, FS_CardinalityType DEF Owed, Owing

\* Goroutine g owes the callbacks H from now on.
Owes(g, H) == hooks' = [hooks EXCEPT ![g] = H]

\* A goroutine that owes nothing takes on the callbacks H.
Takes(g, H) == hooks[g] = {} /\ Owes(g, H)

LEMMA TakesOn ==
    ASSUME TypeOK, NEW g \in Goroutines, NEW H, Takes(g, H), NEW kind, NEW s
    PROVE  Owed(hooks', kind, s) =
              Owed(hooks, kind, s) + (IF <<kind, s>> \in H THEN 1 ELSE 0)
<1> DEFINE N == {k \in Goroutines : <<kind, s>> \in hooks'[k]}
<1>1. hooks'[g] = H /\ \A k \in Goroutines \ {g} : hooks'[k] = hooks[k]
  BY DEF TypeOK, Takes, Owes
<1>2. g \notin Owing(kind, s)
  BY DEF Owing, OwingIn, Takes
<1>3. Owed(hooks', kind, s) = Cardinality(N)
  BY DEF Owed, OwingIn
<1>4. CASE <<kind, s>> \in H
  <2>1. N = Owing(kind, s) \cup {g}
    BY <1>1, <1>4 DEF Owing, OwingIn
  <2> HIDE DEF N
  <2>2. Cardinality(N) = Cardinality(Owing(kind, s)) + 1
    BY <1>2, <2>1, PendingType, FS_AddElement
  <2> QED
    BY <1>3, <1>4, <2>2, PendingType
<1>5. CASE <<kind, s>> \notin H
  <2>1. N = Owing(kind, s)
    BY <1>1, <1>2, <1>5 DEF Owing, OwingIn
  <2> HIDE DEF N
  <2> QED
    BY <1>3, <1>5, <2>1, PendingType
<1> QED
  BY <1>4, <1>5

\* A goroutine makes one of the calls it owes.
LEMMA Calls ==
    ASSUME TypeOK, NEW g \in Goroutines, NEW h \in hooks[g],
           Owes(g, hooks[g] \ {h}), NEW kind, NEW s
    PROVE  Owed(hooks', kind, s) =
              Owed(hooks, kind, s) - (IF <<kind, s>> = h THEN 1 ELSE 0)
<1> DEFINE N == {k \in Goroutines : <<kind, s>> \in hooks'[k]}
<1>1. hooks'[g] = hooks[g] \ {h} /\ \A k \in Goroutines \ {g} : hooks'[k] = hooks[k]
  BY DEF TypeOK, Owes
<1>2. Owed(hooks', kind, s) = Cardinality(N)
  BY DEF Owed, OwingIn
<1>3. CASE <<kind, s>> = h
  <2>1. N = Owing(kind, s) \ {g} /\ g \in Owing(kind, s)
    BY <1>1, <1>3 DEF Owing, OwingIn
  <2> HIDE DEF N
  <2>2. Cardinality(N) = Cardinality(Owing(kind, s)) - 1
    BY <2>1, PendingType, FS_RemoveElement
  <2> QED
    BY <1>2, <1>3, <2>2, PendingType
<1>4. CASE <<kind, s>> # h
  <2>1. N = Owing(kind, s)
    BY <1>1, <1>4 DEF Owing, OwingIn
  <2> HIDE DEF N
  <2> QED
    BY <1>2, <1>4, <2>1, PendingType
<1> QED
  BY <1>3, <1>4

\* What CallbacksBalance says of room s, after a step.
Balanced(s) == told'[s] + Owed(hooks', "subscribed", s) - Owed(hooks', "unsubscribed", s)
                  = IF rooms'[s] = {} THEN 0 ELSE 1

LEMMA joinBalances ==
    ASSUME TypeOK, CallbacksBalance, NEW c \in Clients, NEW s \in Scopes,
           hooks[<<c, "reader">>] = {}, join(c, s), told' = told
    PROVE  CallbacksBalance'
<1> SUFFICES ASSUME NEW t \in Scopes PROVE Balanced(t)
  BY DEF CallbacksBalance, Balanced, Pending, Owed, OwingIn
<1>1. /\ told[t] \in Int
      /\ Owed(hooks, "subscribed", t) \in Nat /\ Owed(hooks, "unsubscribed", t) \in Nat
  BY PendingType DEF TypeOK
<1>2. told[t] + Owed(hooks, "subscribed", t) - Owed(hooks, "unsubscribed", t)
         = IF rooms[t] = {} THEN 0 ELSE 1
  BY DEF CallbacksBalance, Pending, Owed, OwingIn
<1> DEFINE H == IF Created(s) THEN {<<"subscribed", s>>} ELSE {}
<1>3. <<c, "reader">> \in Goroutines /\ Takes(<<c, "reader">>, H)
  BY GoroutinesFinite DEF join, Takes, Owes
<1>4. /\ <<"unsubscribed", t>> \notin H
      /\ <<"subscribed", t>> \in H <=> t = s /\ rooms[s] = {}
  BY DEF Created
<1> HIDE DEF H
<1>5. /\ Owed(hooks', "unsubscribed", t) = Owed(hooks, "unsubscribed", t)
      /\ Owed(hooks', "subscribed", t) = Owed(hooks, "subscribed", t)
            + (IF t = s /\ rooms[s] = {} THEN 1 ELSE 0)
  <2>1. Owed(hooks', "unsubscribed", t) = Owed(hooks, "unsubscribed", t)
           + (IF <<"unsubscribed", t>> \in H THEN 1 ELSE 0)
    BY <1>3, TakesOn
  <2>2. Owed(hooks', "subscribed", t) = Owed(hooks, "subscribed", t)
           + (IF <<"subscribed", t>> \in H THEN 1 ELSE 0)
    BY <1>3, TakesOn
  <2> QED
    BY <1>1, <1>4, <2>1, <2>2
<1>6. /\ t # s => rooms'[t] = rooms[t]
      /\ t = s => rooms'[t] # {}
  BY DEF join, TypeOK
<1>7. told'[t] = told[t]
  OBVIOUS
<1> QED
  BY <1>1, <1>2, <1>5, <1>6, <1>7 DEF Balanced

LEMMA leaveBalances ==
    ASSUME TypeOK, CallbacksBalance, NEW c \in Clients, NEW s \in Scopes,
           hooks[<<c, "reader">>] = {}, leave(c, s), told' = told
    PROVE  CallbacksBalance'
<1> SUFFICES ASSUME NEW t \in Scopes PROVE Balanced(t)
  BY DEF CallbacksBalance, Balanced, Pending, Owed, OwingIn
<1>1. /\ told[t] \in Int
      /\ Owed(hooks, "subscribed", t) \in Nat /\ Owed(hooks, "unsubscribed", t) \in Nat
  BY PendingType DEF TypeOK
<1>2. told[t] + Owed(hooks, "subscribed", t) - Owed(hooks, "unsubscribed", t)
         = IF rooms[t] = {} THEN 0 ELSE 1
  BY DEF CallbacksBalance, Pending, Owed, OwingIn
<1> DEFINE H == IF Emptied(s, c) THEN {<<"unsubscribed", s>>} ELSE {}
<1>3. <<c, "reader">> \in Goroutines /\ Takes(<<c, "reader">>, H)
  BY GoroutinesFinite DEF leave, Takes, Owes
<1>4. /\ <<"subscribed", t>> \notin H
      /\ <<"unsubscribed", t>> \in H <=> t = s /\ rooms[s] = {c}
  BY DEF Emptied
<1> HIDE DEF H
<1>5. /\ Owed(hooks', "subscribed", t) = Owed(hooks, "subscribed", t)
      /\ Owed(hooks', "unsubscribed", t) = Owed(hooks, "unsubscribed", t)
            + (IF t = s /\ rooms[s] = {c} THEN 1 ELSE 0)
  <2>1. Owed(hooks', "unsubscribed", t) = Owed(hooks, "unsubscribed", t)
           + (IF <<"unsubscribed", t>> \in H THEN 1 ELSE 0)
    BY <1>3, TakesOn
  <2>2. Owed(hooks', "subscribed", t) = Owed(hooks, "subscribed", t)
           + (IF <<"subscribed", t>> \in H THEN 1 ELSE 0)
    BY <1>3, TakesOn
  <2> QED
    BY <1>1, <1>4, <2>1, <2>2
<1>6. rooms'[t] = IF t = s THEN rooms[t] \ {c} ELSE rooms[t]
  BY DEF leave, TypeOK
<1>7. rooms'[t] = {} <=> (rooms[t] = {} \/ (t = s /\ rooms[s] = {c}))
  BY <1>6
<1>8. told'[t] = told[t] /\ (rooms[s] = {c} => rooms[s] # {})
  OBVIOUS
<1> QED
  BY <1>1, <1>2, <1>5, <1>7, <1>8 DEF Balanced

LEMMA dropBalances ==
    ASSUME TypeOK, CallbacksBalance, NEW c \in Clients,
           NEW pump \in {"reader", "writer"}, hooks[<<c, pump>>] = {},
           drop(c, pump), told' = told
    PROVE  CallbacksBalance'
<1> SUFFICES ASSUME NEW t \in Scopes PROVE Balanced(t)
  BY DEF CallbacksBalance, Balanced, Pending, Owed, OwingIn
<1>1. /\ told[t] \in Int
      /\ Owed(hooks, "subscribed", t) \in Nat /\ Owed(hooks, "unsubscribed", t) \in Nat
  BY PendingType DEF TypeOK
<1>2. told[t] + Owed(hooks, "subscribed", t) - Owed(hooks, "unsubscribed", t)
         = IF rooms[t] = {} THEN 0 ELSE 1
  BY DEF CallbacksBalance, Pending, Owed, OwingIn
<1>3. told'[t] = told[t]
  OBVIOUS
<1>4. CASE ~Drops(c)
  <2>1. UNCHANGED <<rooms, hooks>>
    BY <1>4 DEF drop
  <2>2. /\ Owed(hooks', "subscribed", t) = Owed(hooks, "subscribed", t)
        /\ Owed(hooks', "unsubscribed", t) = Owed(hooks, "unsubscribed", t)
    BY <2>1 DEF Owed, OwingIn
  <2> QED
    BY <1>2, <1>3, <2>1, <2>2 DEF Balanced
<1>5. CASE Drops(c)
  <2> DEFINE H == {<<"unsubscribed", s>> : s \in {u \in scopes[c] : Emptied(u, c)}}
  <2>1. <<c, pump>> \in Goroutines /\ Takes(<<c, pump>>, H)
    BY <1>5, GoroutinesFinite DEF drop, Takes, Owes
  <2>2. /\ <<"subscribed", t>> \notin H
        /\ <<"unsubscribed", t>> \in H <=> t \in scopes[c] /\ rooms[t] = {c}
    BY DEF Emptied
  <2> HIDE DEF H
  <2>3. /\ Owed(hooks', "subscribed", t) = Owed(hooks, "subscribed", t)
        /\ Owed(hooks', "unsubscribed", t) = Owed(hooks, "unsubscribed", t)
              + (IF t \in scopes[c] /\ rooms[t] = {c} THEN 1 ELSE 0)
    <3>1. Owed(hooks', "unsubscribed", t) = Owed(hooks, "unsubscribed", t)
             + (IF <<"unsubscribed", t>> \in H THEN 1 ELSE 0)
      BY <2>1, TakesOn
    <3>2. Owed(hooks', "subscribed", t) = Owed(hooks, "subscribed", t)
             + (IF <<"subscribed", t>> \in H THEN 1 ELSE 0)
      BY <2>1, TakesOn
    <3> QED
      BY <1>1, <2>2, <3>1, <3>2
  <2>4. rooms'[t] = IF t \in scopes[c] THEN rooms[t] \ {c} ELSE rooms[t]
    BY <1>5, dropRooms
  <2>5. rooms'[t] = {} <=> (rooms[t] = {} \/ (t \in scopes[c] /\ rooms[t] = {c}))
    BY <2>4
  <2>6. rooms[t] = {c} => rooms[t] # {}
    OBVIOUS
  <2> QED
    BY <1>1, <1>2, <1>3, <2>3, <2>5, <2>6 DEF Balanced
<1> QED
  BY <1>4, <1>5

LEMMA callBalances ==
    ASSUME TypeOK, CallbacksBalance, NEW g \in Goroutines, Callback(g)
    PROVE  CallbacksBalance'
<1> SUFFICES ASSUME NEW t \in Scopes PROVE Balanced(t)
  BY DEF CallbacksBalance, Balanced, Pending, Owed, OwingIn
<1>1. /\ told[t] \in Int
      /\ Owed(hooks, "subscribed", t) \in Nat /\ Owed(hooks, "unsubscribed", t) \in Nat
  BY PendingType DEF TypeOK
<1>2. told[t] + Owed(hooks, "subscribed", t) - Owed(hooks, "unsubscribed", t)
         = IF rooms[t] = {} THEN 0 ELSE 1
  BY DEF CallbacksBalance, Pending, Owed, OwingIn
<1>3. PICK h \in hooks[g] :
        /\ told' = [told EXCEPT ![h[2]] =
                      IF h[1] = "subscribed" THEN @ + 1 ELSE @ - 1]
        /\ Owes(g, hooks[g] \ {h})
  BY DEF Callback, Owes
<1>4. h \in Hooks
  BY <1>3 DEF TypeOK
<1>5. PICK k \in {"subscribed", "unsubscribed"}, s \in Scopes : h = <<k, s>>
  BY <1>4 DEF Hooks
<1>6. h[1] = k /\ h[2] = s
  BY <1>5
<1>7. told'[t] = IF t # s THEN told[t]
                 ELSE IF k = "subscribed" THEN told[t] + 1 ELSE told[t] - 1
  BY <1>3, <1>6 DEF TypeOK
<1>8. /\ Owed(hooks', "subscribed", t) = Owed(hooks, "subscribed", t)
            - (IF t = s /\ k = "subscribed" THEN 1 ELSE 0)
      /\ Owed(hooks', "unsubscribed", t) = Owed(hooks, "unsubscribed", t)
            - (IF t = s /\ k = "unsubscribed" THEN 1 ELSE 0)
  <2>1. /\ <<"subscribed", t>> = h <=> t = s /\ k = "subscribed"
        /\ <<"unsubscribed", t>> = h <=> t = s /\ k = "unsubscribed"
    BY <1>5
  <2>2. Owed(hooks', "subscribed", t) = Owed(hooks, "subscribed", t)
           - (IF <<"subscribed", t>> = h THEN 1 ELSE 0)
    BY <1>3, Calls
  <2>3. Owed(hooks', "unsubscribed", t) = Owed(hooks, "unsubscribed", t)
           - (IF <<"unsubscribed", t>> = h THEN 1 ELSE 0)
    BY <1>3, Calls
  <2> QED
    BY <1>1, <2>1, <2>2, <2>3
<1>9. rooms' = rooms
  BY DEF Callback
<1> QED
  BY <1>1, <1>2, <1>7, <1>8, <1>9 DEF Balanced

LEMMA BalanceKept ==
    ASSUME IInv, Next
    PROVE  CallbacksBalance'
<1> USE DEF unchangedFrames, unchangedRooms
<1>1. TypeOK /\ CallbacksBalance /\ \A c \in Clients : Wired(c)
  BY DEF IInv
<1>2. ASSUME NEW c \in Clients, ServeJoin(c)
      PROVE  CallbacksBalance'
  <2>1. reader[c].todo \in Seq(Scopes) /\ reader[c].todo # <<>>
    BY <1>1, <1>2, ReaderFields DEF ServeJoin
  <2>2. Head(reader[c].todo) \in Scopes
    BY <2>1
  <2> QED
    BY <1>1, <1>2, <2>2, joinBalances DEF ServeJoin, Free
<1>3. ASSUME NEW c \in Clients, Accept(c)
      PROVE  CallbacksBalance'
  <2>1. reader[c].scope \in Scopes /\ hooks[<<c, "reader">>] = {}
    BY <1>1, <1>3, ReaderFields DEF Accept, Wired
  <2> QED
    BY <1>1, <1>3, <2>1, joinBalances DEF Accept
<1>4. ASSUME NEW c \in Clients, NEW s \in Scopes, Unsubscribe(c, s)
      PROVE  CallbacksBalance'
  BY <1>1, <1>4, leaveBalances DEF Unsubscribe, Free
<1>5. ASSUME NEW c \in Clients, ReadFails(c)
      PROVE  CallbacksBalance'
  BY <1>1, <1>5, dropBalances DEF ReadFails, Free
<1>6. ASSUME NEW c \in Clients, WriteFails(c)
      PROVE  CallbacksBalance'
  BY <1>1, <1>6, dropBalances DEF WriteFails, Wired
<1>7. ASSUME UNCHANGED <<rooms, hooks, told>>
      PROVE  CallbacksBalance'
  BY <1>1, <1>7 DEF CallbacksBalance, Pending
<1>8. ASSUME NEW c \in Clients,
             \/ ServeWS(c) \/ StartPumps(c) \/ Reject(c) \/ Reply(c)
             \/ AnswerAtOnce(c) \/ Write(c) \/ Break(c)
             \/ \E s \in Scopes : Ask(c, s)
      PROVE  CallbacksBalance'
  BY <1>7, <1>8 DEF ServeWS, StartPumps, Reject, Reply, AnswerAtOnce, Write,
     Break, Ask
<1>9. ASSUME NEW c \in Clients, ReaderDropped(c) \/ WriterDropped(c)
      PROVE  CallbacksBalance'
  BY <1>7, <1>9 DEF ReaderDropped, WriterDropped
<1>10. ASSUME NEW b \in Broadcasters,
              \/ Remember(b) \/ Queue(b)
              \/ \E s \in Scopes, e \in Events : Broadcast(b, s, e)
       PROVE  CallbacksBalance'
  BY <1>7, <1>10 DEF Remember, Queue, Broadcast
<1> QED
  BY <1>1, callBalances, GoroutinesFinite, <1>2, <1>3, <1>4, <1>5, <1>6, <1>8,
     <1>9, <1>10
     DEF Next, ReadPump, WritePump, Frames, Deliver

-----------------------------------------------------------------------------
(* The memory of event ids *)

Holds(order, e) == \E i \in DOMAIN order : order[i] = e
OnceEach(order) == \A i, j \in DOMAIN order : order[i] = order[j] => i = j

\* A memory without repetitions that lacks an event has room for it.
LEMMA MemoryFits ==
    ASSUME NEW order \in Seq(Events), OnceEach(order),
           NEW e \in Events, ~Holds(order, e)
    PROVE  Len(order) + 1 <= Cardinality(Events)
<1> DEFINE others == Events \ {e}
<1>1. Len(order) \in Nat /\ order \in [1..Len(order) -> Events]
      /\ DOMAIN order = 1..Len(order)
  OBVIOUS
<1>2. order \in [1..Len(order) -> others]
  BY <1>1 DEF Holds
<1>3. IsFiniteSet(others) /\ Cardinality(others) = Cardinality(Events) - 1
  BY FS_RemoveElement, HubAssumption
<1> HIDE DEF others
<1>4. order \in Injection(1..Len(order), others)
  BY <1>1, <1>2 DEF Injection, IsInjective, OnceEach
<1>5. Cardinality(1..Len(order)) <= Cardinality(others)
  BY <1>3, <1>4, FS_Injection
<1>6. Cardinality(1..Len(order)) = Len(order)
  <2>1. Cardinality(1..Len(order)) = IF 1 > Len(order) THEN 0 ELSE Len(order) - 1 + 1
    BY <1>1, FS_Interval
  <2> QED
    BY <1>1, <2>1
<1>7. Cardinality(Events) \in Nat
  BY FS_CardinalityType, HubAssumption
<1> QED
  BY <1>1, <1>3, <1>5, <1>6, <1>7

\* Remembering an event that is new repeats none, and forgets none where the
\* memory has room for all.
LEMMA RememberedKeeps ==
    ASSUME NEW order \in Seq(Events), OnceEach(order),
           NEW e \in Events, ~Holds(order, e)
    PROVE  /\ OnceEach(Remembered(order, e))
           /\ \A x : Holds(Remembered(order, e), x) => x = e \/ Holds(order, x)
           /\ Roomy => /\ Holds(Remembered(order, e), e)
                       /\ \A x : Holds(order, x) => Holds(Remembered(order, e), x)
<1> DEFINE longer == Append(order, e)
<1>1. /\ Len(order) \in Nat /\ DOMAIN order = 1..Len(order)
      /\ longer \in Seq(Events) /\ Len(longer) = Len(order) + 1
      /\ DOMAIN longer = 1..(Len(order) + 1)
      /\ \A i \in 1..Len(order) : longer[i] = order[i]
      /\ longer[Len(order) + 1] = e
  OBVIOUS
<1> HIDE DEF longer
<1>2. OnceEach(longer)
  BY <1>1 DEF OnceEach, Holds
<1>3. \A x : Holds(longer, x) => x = e \/ Holds(order, x)
  BY <1>1 DEF Holds
<1>4. Holds(longer, e) /\ \A x : Holds(order, x) => Holds(longer, x)
  BY <1>1 DEF Holds
<1>5. /\ Len(Tail(longer)) = Len(order) /\ DOMAIN Tail(longer) = 1..Len(order)
      /\ \A i \in 1..Len(order) : Tail(longer)[i] = longer[i + 1]
  <2>1. longer # <<>>
    BY <1>1
  <2> QED
    BY <1>1, <2>1
<1>6. OnceEach(Tail(longer))
  BY <1>1, <1>2, <1>5 DEF OnceEach
<1>7. \A x : Holds(Tail(longer), x) => Holds(longer, x)
  BY <1>1, <1>5 DEF Holds
<1>8. Remembered(order, e) = IF Len(order) + 1 > DedupDepth THEN Tail(longer)
                                                            ELSE longer
  BY DEF Remembered, longer
<1>9. Roomy => Remembered(order, e) = longer
  <2>1. Len(order) + 1 <= Cardinality(Events)
    BY MemoryFits
  <2>2. Cardinality(Events) \in Nat /\ DedupDepth \in Nat
    BY FS_CardinalityType, HubAssumption
  <2> QED
    BY <1>1, <1>8, <2>1, <2>2 DEF Roomy
<1> QED
  BY <1>2, <1>3, <1>4, <1>6, <1>7, <1>8, <1>9

Memory ==
    /\ \A c \in Clients : Distinct(c)
    /\ Roomy => \A c \in Clients, e \in Events : Copied(c, e)
    /\ RememberedIsQueued

\* Steps in which no event is remembered or queued.
LEMMA SameMemory ==
    ASSUME Memory, UNCHANGED <<dedup, copies>>,
           \A c \in Clients : conn[c] = "closed" => conn'[c] = "closed",
           \A c \in Clients, e \in Events, b \in Broadcasters :
              Sending(b, c, e)' <=> Sending(b, c, e)
    PROVE  Memory'
<1>1. \A c \in Clients : Distinct(c)'
  BY DEF Memory, Distinct
<1>2. ASSUME Roomy, NEW c \in Clients, NEW e \in Events PROVE Copied(c, e)'
  <2>1. Copied(c, e)
    BY <1>2 DEF Memory
  <2>2. Seen(c, e)' <=> Seen(c, e)
    BY DEF Seen
  <2> QED
    BY <2>1, <2>2 DEF Copied
<1>3. ASSUME NEW c \in Clients, NEW e \in Events, Seen(c, e)'
      PROVE  \/ copies'[c][e] > 0
             \/ conn'[c] = "closed"
             \/ \E b \in Broadcasters : Sending(b, c, e)'
  <2>1. Seen(c, e)
    BY <1>3 DEF Seen
  <2> QED
    BY <2>1 DEF Memory, RememberedIsQueued, Sending
<1> QED
  BY <1>1, <1>2, <1>3 DEF Memory, RememberedIsQueued, Sending, Roomy

\* A broadcaster goes from one client to the next, or to another event.
LEMMA MovesOn ==
    ASSUME TypeOK, NEW b \in Broadcasters, NEW j, cast' = [cast EXCEPT ![b] = j],
           cast[b].to = "nobody", j.to = "nobody"
    PROVE  \A c \in Clients, e \in Events, d \in Broadcasters :
              Sending(d, c, e)' <=> Sending(d, c, e)
<1>1. cast'[b] = j /\ \A d \in Broadcasters \ {b} : cast'[d] = cast[d]
  BY DEF TypeOK
<1> QED
  BY <1>1, HubAssumption DEF Sending

LEMMA RememberKeeps ==
    ASSUME TypeOK, Memory, NEW b \in Broadcasters, Remember(b)
    PROVE  Memory'
<1> USE DEF unchangedRooms
<1> DEFINE e == cast[b].event
<1>1. PICK c \in cast[b].targets :
        \/ /\ cast' = [cast EXCEPT ![b] = Rest(cast[b], c)]
           /\ UNCHANGED dedup
        \/ /\ ~Seen(c, e)
           /\ cast' = [cast EXCEPT ![b] = [cast[b] EXCEPT !.to = c]]
           /\ dedup' = [dedup EXCEPT ![c] = Remembered(dedup[c], e)]
  BY DEF Remember
<1>2. /\ cast[b].to = "nobody" /\ UNCHANGED <<conn, copies>>
      /\ cast[b] \in Casts /\ c \in Clients /\ e \in Events
  BY <1>1, CastFields DEF Remember, Casts
<1>3. CASE cast' = [cast EXCEPT ![b] = Rest(cast[b], c)] /\ UNCHANGED dedup
  <2>1. Rest(cast[b], c).to = "nobody"
    BY <1>2, RestType
  <2>2. \A d \in Clients, x \in Events, k \in Broadcasters :
           Sending(k, d, x)' <=> Sending(k, d, x)
    BY <1>2, <1>3, <2>1, MovesOn
  <2> QED
    BY <1>2, <1>3, <2>2, SameMemory
<1>4. CASE /\ ~Seen(c, e)
           /\ cast' = [cast EXCEPT ![b] = [cast[b] EXCEPT !.to = c]]
           /\ dedup' = [dedup EXCEPT ![c] = Remembered(dedup[c], e)]
  <2>1. /\ dedup[c] \in Seq(Events) /\ OnceEach(dedup[c]) /\ ~Holds(dedup[c], e)
    BY <1>2, <1>4 DEF TypeOK, Memory, Distinct, OnceEach, Seen, Holds
  <2> DEFINE new == Remembered(dedup[c], e)
  <2>2. /\ OnceEach(new)
        /\ \A x : Holds(new, x) => x = e \/ Seen(c, x)
        /\ Roomy => /\ Holds(new, e)
                    /\ \A x : Seen(c, x) => Holds(new, x)
    BY <1>2, <2>1, RememberedKeeps DEF Seen, Holds
  <2> HIDE DEF new
  <2>3. /\ \A d \in Clients \ {c} : dedup'[d] = dedup[d]
        /\ dedup'[c] = new
    BY <1>2, <1>4 DEF new, TypeOK
  <2>4. /\ \A d \in Broadcasters \ {b} : cast'[d] = cast[d]
        /\ cast'[b].to = c /\ cast'[b].event = e
    BY <1>2, <1>4 DEF TypeOK, Casts
  <2>5. ASSUME NEW d \in Clients, NEW x \in Events
        PROVE  /\ Seen(d, x)' => Seen(d, x) \/ (d = c /\ x = e)
               /\ Roomy => (Seen(d, x)' <=> Seen(d, x) \/ (d = c /\ x = e))
    BY <1>2, <2>2, <2>3 DEF Seen, Holds
  <2>6. \A d \in Clients, x \in Events, k \in Broadcasters :
           Sending(k, d, x)' <=> Sending(k, d, x) \/ (k = b /\ d = c /\ x = e)
    BY <1>2, <2>4, HubAssumption DEF Sending
  <2> HIDE DEF e
  <2>7. \A d \in Clients : Distinct(d)'
    BY <2>2, <2>3 DEF Distinct, OnceEach, Memory
  <2>8. ASSUME Roomy, NEW d \in Clients, NEW x \in Events
        PROVE  Copied(d, x)'
    <3>1. Copied(d, x)
      BY <2>8 DEF Memory
    <3>2. copies[d][x] \in 0..2 /\ copies' = copies
      BY <1>2 DEF TypeOK
    <3>3. CASE d = c /\ x = e
      BY <1>4, <2>5, <2>6, <2>8, <3>1, <3>2, <3>3 DEF Copied
    <3>4. CASE ~(d = c /\ x = e)
      BY <2>5, <2>6, <2>8, <3>1, <3>2, <3>4 DEF Copied
    <3> QED
      BY <3>3, <3>4
  <2>9. ASSUME NEW d \in Clients, NEW x \in Events, Seen(d, x)'
        PROVE  \/ copies'[d][x] > 0
               \/ conn'[d] = "closed"
               \/ \E k \in Broadcasters : Sending(k, d, x)'
    <3>1. CASE d = c /\ x = e
      BY <2>6, <3>1
    <3>2. CASE ~(d = c /\ x = e)
      <4>1. Seen(d, x)
        BY <2>5, <2>9, <3>2
      <4> QED
        BY <1>2, <2>6, <4>1 DEF Memory, RememberedIsQueued, Sending
    <3> QED
      BY <3>1, <3>2
  <2> QED
    BY <2>7, <2>8, <2>9 DEF Memory, RememberedIsQueued, Sending, Roomy
<1> QED
  BY <1>1, <1>3, <1>4

LEMMA QueueKeeps ==
    ASSUME TypeOK, Memory, NEW b \in Broadcasters, Queue(b)
    PROVE  Memory'
<1> USE DEF unchangedRooms
<1> DEFINE c == cast[b].to
           e == cast[b].event
<1>1. c \in Clients /\ e \in Events /\ cast[b] \in Casts
  BY CastFields DEF Queue
<1>2. /\ dedup' = dedup
      /\ cast' = [cast EXCEPT ![b] = Rest(cast[b], c)]
      /\ \/ /\ conn' = [conn EXCEPT ![c] = "closed"]
            /\ copies' = copies
         \/ /\ conn' = conn
            /\ copies' = [copies EXCEPT ![c] =
                  [copies[c] EXCEPT ![e] = IF copies[c][e] < 2 THEN copies[c][e] + 1
                                                               ELSE copies[c][e]]]
  BY DEF Queue, ClosedBySlow
<1>3. cast'[b].to = "nobody" /\ \A d \in Broadcasters \ {b} : cast'[d] = cast[d]
  BY <1>1, <1>2, RestType DEF TypeOK
<1>4. Sending(b, c, e)
  BY DEF Sending
<1>5. \A d \in Clients, x \in Events, k \in Broadcasters :
         Sending(k, d, x)' <=> Sending(k, d, x) /\ k # b
  BY <1>1, <1>3, HubAssumption DEF Sending
<1>6. \A d \in Clients, x \in Events : Sending(b, d, x) => d = c /\ x = e
  BY DEF Sending
<1>7. \A d \in Clients, x \in Events :
         /\ d # c \/ x # e => copies'[d][x] = copies[d][x]
         /\ copies'[d][x] = copies[d][x] \/ conn' = conn
  BY <1>1, <1>2 DEF TypeOK
<1>8. \/ conn'[c] = "closed" /\ copies'[c][e] = copies[c][e]
      \/ copies'[c][e] = IF copies[c][e] < 2 THEN copies[c][e] + 1 ELSE copies[c][e]
  BY <1>1, <1>2 DEF TypeOK
<1>9. \A d \in Clients : conn[d] = "closed" => conn'[d] = "closed"
  BY <1>1, <1>2 DEF TypeOK
<1>10. \A d \in Clients, x \in Events : Seen(d, x)' <=> Seen(d, x)
  BY <1>2 DEF Seen
<1>11. \A d \in Clients, x \in Events : copies[d][x] \in 0..2
  BY DEF TypeOK
<1> HIDE DEF c, e
<1>12. \A d \in Clients : Distinct(d)'
  BY <1>2 DEF Memory, Distinct
<1>13. ASSUME Roomy, NEW d \in Clients, NEW x \in Events
       PROVE  Copied(d, x)'
  <2>1. Copied(d, x)
    BY <1>13 DEF Memory
  <2>2. CASE d = c /\ x = e
    <3>1. Seen(d, x) /\ copies[d][x] = 0
          /\ \A k \in Broadcasters : Sending(k, d, x) => k = b
      BY <1>4, <2>1, <2>2 DEF Copied
    <3>2. copies'[d][x] <= 1
      BY <1>8, <2>2, <3>1
    <3>3. \A k \in Broadcasters : ~Sending(k, d, x)'
      BY <1>5, <3>1
    <3>4. Seen(d, x)'
      BY <1>10, <3>1
    <3> QED
      BY <3>2, <3>3, <3>4 DEF Copied
  <2>3. CASE ~(d = c /\ x = e)
    <3>1. copies'[d][x] = copies[d][x]
      BY <1>7, <2>3
    <3>2. Seen(d, x)' <=> Seen(d, x)
      BY <1>10
    <3> QED
      BY <1>5, <2>1, <3>1, <3>2 DEF Copied
  <2> QED
    BY <2>2, <2>3
<1>14. ASSUME NEW d \in Clients, NEW x \in Events, Seen(d, x)'
       PROVE  \/ copies'[d][x] > 0
              \/ conn'[d] = "closed"
              \/ \E k \in Broadcasters : Sending(k, d, x)'
  <2>1. Seen(d, x)
    BY <1>10, <1>14
  <2>2. CASE d = c /\ x = e
    BY <1>1, <1>8, <1>11, <2>2
  <2>3. CASE ~(d = c /\ x = e)
    <3>1. copies'[d][x] = copies[d][x]
      BY <1>7, <2>3
    <3>2. \A k \in Broadcasters : Sending(k, d, x) => Sending(k, d, x)'
      BY <1>5, <1>6, <2>3
    <3> QED
      BY <1>9, <2>1, <3>1, <3>2 DEF Memory, RememberedIsQueued, Sending
  <2> QED
    BY <2>2, <2>3
<1> QED
  BY <1>12, <1>13, <1>14 DEF Memory, RememberedIsQueued, Sending, Roomy

LEMMA MemoryKept ==
    ASSUME IInv, Next
    PROVE  Memory'
<1> USE DEF unchangedFrames, unchangedRooms
<1>1. TypeOK /\ Memory
  BY DEF IInv, Memory
<1>2. \A c \in Clients : conn[c] = "closed" => conn'[c] = "closed"
  BY ConnStays
<1>3. ASSUME UNCHANGED <<dedup, cast, copies>> PROVE Memory'
  <2>1. \A c \in Clients, e \in Events, b \in Broadcasters :
           Sending(b, c, e)' <=> Sending(b, c, e)
    BY <1>3 DEF Sending
  <2> QED
    BY <1>1, <1>2, <1>3, <2>1, SameMemory
<1>4. ASSUME NEW b \in Broadcasters, NEW s \in Scopes, NEW e \in Events,
             Broadcast(b, s, e)
      PROVE  Memory'
  <2> DEFINE j == [event |-> e, targets |-> rooms[s], to |-> "nobody"]
  <2>1. cast' = [cast EXCEPT ![b] = j] /\ cast[b].to = "nobody" /\ j.to = "nobody"
    BY <1>4 DEF Broadcast, Quiet
  <2> HIDE DEF j
  <2>2. \A c \in Clients, x \in Events, d \in Broadcasters :
           Sending(d, c, x)' <=> Sending(d, c, x)
    BY <1>1, <2>1, MovesOn
  <2> QED
    BY <1>1, <1>2, <1>4, <2>2, SameMemory DEF Broadcast
<1>5. ASSUME NEW c \in Clients,
             \/ ServeWS(c) \/ Break(c) \/ ServeJoin(c) \/ StartPumps(c)
             \/ Accept(c) \/ Reject(c) \/ Reply(c) \/ ReadFails(c)
             \/ ReaderDropped(c) \/ Write(c) \/ WriteFails(c)
             \/ WriterDropped(c) \/ AnswerAtOnce(c)
      PROVE  Memory'
  BY <1>3, <1>5 DEF ServeWS, Break, ServeJoin, StartPumps, Accept, Reject, Reply,
     ReadFails, ReaderDropped, Write, WriteFails, WriterDropped, AnswerAtOnce
<1>6. ASSUME NEW c \in Clients,
             \/ \E s \in Scopes : Ask(c, s) \/ Unsubscribe(c, s)
             \/ \E g \in Goroutines : Callback(g)
      PROVE  Memory'
  BY <1>3, <1>6 DEF Ask, Unsubscribe, Callback
<1> QED
  BY <1>1, GoroutinesFinite, RememberKeeps, QueueKeeps, <1>4, <1>5, <1>6
     DEF Next, ReadPump, WritePump, Frames, Deliver

-----------------------------------------------------------------------------
(* The theorems *)

\* The invariant holds in every reachable state of the hub, whatever its
\* pumps, broadcasters and callbacks do (hub.go, client.go).
THEOREM InvariantHolds == Spec => []IInv
<1>1. Init => IInv
  BY InitCorrect
<1>2. IInv /\ [Next]_vars => IInv'
  <2> SUFFICES ASSUME IInv, [Next]_vars PROVE IInv'
    OBVIOUS
  <2>1. CASE Next
    <3>1. TypeOK'
      BY <2>1, TypedKept, ConnsKept, TypedEnough DEF IInv
    <3>2. Memory'
      BY <2>1, MemoryKept
    <3> QED
      BY <2>1, <3>1, <3>2, WiredKept, ServedKept, ConnsKept, BalanceKept
         DEF IInv, Memory
  <2>2. CASE UNCHANGED vars
    <3>1. TypeOK'
      BY <2>2 DEF vars, IInv, TypeOK
    <3>2. \A c \in Clients : Wired(c)'
      BY <2>2 DEF vars, IInv, Wired
    <3>3. Served'
      BY <2>2 DEF vars, IInv, Served
    <3>4. ConnsCounted' /\ CallbacksBalance'
      BY <2>2 DEF vars, IInv, ConnsCounted, InDrop, CallbacksBalance, Pending
    <3>5. Memory'
      BY <2>2, SameMemory DEF vars, IInv, Memory, Sending
    <3> QED
      BY <3>1, <3>2, <3>3, <3>4, <3>5 DEF IInv, Memory
  <2> QED
    BY <2>1, <2>2
<1> QED
  BY <1>1, <1>2, PTL DEF Spec

\* The hub, its clients and their goroutines stay within their types; the
\* memory of a client within dedupDepth, its queue within sendBuffer.
THEOREM TypeCorrect == Spec => []TypeOK
<1>1. IInv => TypeOK
  BY DEF IInv
<1> QED
  BY <1>1, InvariantHolds, PTL

\* The connection counter of the hub is right whichever pump of a client
\* ends first and however they overlap in drop.
THEOREM CounterIsRight == Spec => []ConnsCounted
<1>1. IInv => ConnsCounted
  BY DEF IInv
<1> QED
  BY <1>1, InvariantHolds, PTL

\* OnSubscribe and OnUnsubscribe, which join, leave and drop call outside the
\* lock, add up to whether the room exists.
THEOREM CallbacksAddUp == Spec => []CallbacksBalance
<1>1. IInv => CallbacksBalance
  BY DEF IInv
<1> QED
  BY <1>1, InvariantHolds, PTL

\* deliver queues an event for a client at most once, from whichever rooms,
\* retries and relays it comes, while the memory holds all events.
THEOREM OneCopy == Spec => []OneCopyPerEvent
<1>1. IInv => OneCopyPerEvent
  BY DEF IInv, OneCopyPerEvent, Roomy, Copied
<1> QED
  BY <1>1, InvariantHolds, PTL

\* An event that deliver suppresses as a duplicate has been queued for the
\* client, is about to be, or the client is being disconnected.
THEOREM NothingLostSilently == Spec => []RememberedIsQueued
<1>1. IInv => RememberedIsQueued
  BY DEF IInv
<1> QED
  BY <1>1, InvariantHolds, PTL
=============================================================================
