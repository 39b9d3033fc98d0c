-------------------------------- MODULE Hub --------------------------------
(***************************************************************************)
(* The WebSocket hub of one process (platform/wsx): rooms of connections,  *)
(* the two pumps of each connection, broadcasts with a queue and a memory  *)
(* of event ids per connection, the eviction of slow consumers, and the    *)
(* callbacks that tell the product when a room fills or empties.           *)
(*                                                                         *)
(* A client is one connection.  Its goroutines are the read pump, which    *)
(* before that is the handler ServeWS, and the write pump; broadcasters    *)
(* are the goroutines that call Broadcast or DeliverRemote.  A step is     *)
(* what a goroutine does under one lock, on one channel or on the          *)
(* connection; callbacks into the product run outside the lock.            *)
(***************************************************************************)
EXTENDS Integers, Sequences, FiniteSets

CONSTANTS
    Clients,        \* connections; each is made once
    Topics,         \* rooms a client may subscribe to
    UserRoom,       \* the room of the user every client belongs to
    Broadcasters,   \* goroutines that broadcast
    Events,         \* event ids
    SendBuffer,     \* sendBuffer
    DedupDepth      \* dedupDepth

ASSUME HubAssumption ==
    /\ UserRoom \notin Topics
    /\ IsFiniteSet(Clients) /\ IsFiniteSet(Events)
    /\ "nobody" \notin Clients
    /\ SendBuffer \in Nat \ {0} /\ DedupDepth \in Nat \ {0}

VARIABLES
    rooms,          \* Hub.rooms; an absent room is empty
    scopes,         \* client.scopes
    conns,          \* Hub.conns
    conn,           \* whether the connection is open
    authed,         \* client.authed
    dropped,        \* client.dropped
    send,           \* the number of frames in client.send
    dedup,          \* client.dedupOrder; client.dedup is its range
    reader, writer, \* the two pumps of each client
    hooks,          \* callbacks each goroutine has still to make
    cast,           \* what each broadcaster is doing
    told,           \* history: OnSubscribe less OnUnsubscribe calls per room
    copies          \* history: how often an event was queued for a client

vars == <<rooms, scopes, conns, conn, authed, dropped, send, dedup, reader,
          writer, hooks, cast, told, copies>>

-----------------------------------------------------------------------------
(* Rooms and goroutines *)

Scopes == Topics \cup {UserRoom}
Hooks == {"subscribed", "unsubscribed"} \X Scopes

\* serve: joining the first rooms; ask: in Authorize, WorkspaceMember or
\* PATResolve; reply: about to answer; drop: what is left of drop(c).
Readers ==
    [pc: {"none", "read", "reply", "drop", "done"}]
    \cup [pc: {"serve"}, todo: Seq(Scopes)]
    \cup [pc: {"ask"}, scope: Scopes]
Writers == {"none", "run", "drop", "done"}

Goroutines == Clients \X {"reader", "writer"}

\* A broadcaster has a snapshot of the room; to is the client whose memory
\* holds the event and whose queue does not yet.
Casts == [event: Events, targets: SUBSET Clients, to: Clients \cup {"nobody"}]
Quiet == [targets |-> {}, to |-> "nobody"]

Reading(c) == reader[c].pc = "read"

Init ==
    /\ rooms = [s \in Scopes |-> {}]
    /\ scopes = [c \in Clients |-> {}]
    /\ conns = 0
    /\ conn = [c \in Clients |-> "none"]
    /\ authed = [c \in Clients |-> FALSE]
    /\ dropped = [c \in Clients |-> FALSE]
    /\ send = [c \in Clients |-> 0]
    /\ dedup = [c \in Clients |-> <<>>]
    /\ reader = [c \in Clients |-> [pc |-> "none"]]
    /\ writer = [c \in Clients |-> "none"]
    /\ hooks = [g \in Goroutines |-> {}]
    /\ cast = [b \in Broadcasters |-> Quiet]
    /\ told = [s \in Scopes |-> 0]
    /\ copies = [c \in Clients |-> [e \in Events |-> 0]]

unchangedFrames == UNCHANGED <<dedup, cast, copies>>

\* Mutant: leaving a room that does not exist empties it.
EmptiedIfAbsent(s, c) == rooms[s] \subseteq {c}

\* The room did not exist, or loses its last client.
Created(s) == rooms[s] = {}
Emptied(s, c) == rooms[s] = {c}

\* join, the callback excepted.
join(c, s) ==
    /\ rooms' = [rooms EXCEPT ![s] = @ \cup {c}]
    /\ scopes' = [scopes EXCEPT ![c] = @ \cup {s}]
    /\ hooks' = [hooks EXCEPT ![<<c, "reader">>] =
                   IF Created(s) THEN {<<"subscribed", s>>} ELSE {}]

\* leave, the callback excepted.
leave(c, s) ==
    /\ rooms' = [rooms EXCEPT ![s] = @ \ {c}]
    /\ scopes' = [scopes EXCEPT ![c] = @ \ {s}]
    /\ hooks' = [hooks EXCEPT ![<<c, "reader">>] =
                   IF Emptied(s, c) THEN {<<"unsubscribed", s>>} ELSE {}]

\* sendJSON: a reply that finds the queue full is lost.
sendJSON(c) == send' = [send EXCEPT ![c] = IF @ < SendBuffer THEN @ + 1 ELSE @]

-----------------------------------------------------------------------------
(* The read pump, and ServeWS before it *)

Free(c) == hooks[<<c, "reader">>] = {}

\* ServeWS: with a principal the connection joins the room of its workspace,
\* if WorkspaceMember lets it, and that of its user.
ServeWS(c) ==
    /\ conn[c] = "none"
    /\ conn' = [conn EXCEPT ![c] = "open"]
    /\ conns' = conns + 1
    /\ \/ /\ authed' = [authed EXCEPT ![c] = TRUE]
          /\ \E first \in {<<>>} \cup {<<t>> : t \in Topics} :
                reader' = [reader EXCEPT ![c] =
                             [pc |-> "serve", todo |-> Append(first, UserRoom)]]
          /\ UNCHANGED writer
       \/ /\ reader' = [reader EXCEPT ![c] = [pc |-> "read"]]
          /\ writer' = [writer EXCEPT ![c] = "run"]
          /\ UNCHANGED authed
    /\ UNCHANGED <<rooms, scopes, dropped, send, hooks, told>>
    /\ unchangedFrames

ServeJoin(c) ==
    /\ reader[c].pc = "serve" /\ Free(c)
    /\ reader[c].todo # <<>>
    /\ join(c, Head(reader[c].todo))
    /\ reader' = [reader EXCEPT ![c].todo = Tail(@)]
    /\ UNCHANGED <<conns, conn, authed, dropped, send, writer, told>>
    /\ unchangedFrames

\* The connected frame is sent if the hub has capabilities to announce.
StartPumps(c) ==
    /\ reader[c].pc = "serve" /\ Free(c)
    /\ reader[c].todo = <<>>
    /\ sendJSON(c) \/ UNCHANGED send
    /\ reader' = [reader EXCEPT ![c] = [pc |-> "read"]]
    /\ writer' = [writer EXCEPT ![c] = "run"]
    /\ UNCHANGED <<rooms, scopes, conns, conn, authed, dropped, hooks, told>>
    /\ unchangedFrames

\* A frame has been read: auth or subscribe, which ask the product ...
Ask(c, s) ==
    /\ Reading(c) /\ Free(c) /\ conn[c] = "open"
    /\ IF s = UserRoom THEN ~authed[c]
                       ELSE authed[c] /\ s \notin scopes[c]
    /\ reader' = [reader EXCEPT ![c] = [pc |-> "ask", scope |-> s]]
    /\ UNCHANGED <<rooms, scopes, conns, conn, authed, dropped, send, writer,
                   hooks, told>>
    /\ unchangedFrames

\* ... or one that is answered at once: a repeated subscribe is confirmed,
\* and what is malformed, too frequent or not authenticated is rejected.
AnswerAtOnce(c) ==
    /\ Reading(c) /\ Free(c) /\ conn[c] = "open"
    /\ sendJSON(c)
    /\ UNCHANGED <<rooms, scopes, conns, conn, authed, dropped, reader, writer,
                   hooks, told>>
    /\ unchangedFrames

\* The product has let the client in, whatever became of it meanwhile.
Accept(c) ==
    /\ reader[c].pc = "ask"
    /\ join(c, reader[c].scope)
    /\ authed' = [authed EXCEPT ![c] = TRUE]
    /\ reader' = [reader EXCEPT ![c] = [pc |-> "reply"]]
    /\ UNCHANGED <<conns, conn, dropped, send, writer, told>>
    /\ unchangedFrames

Reject(c) ==
    /\ reader[c].pc = "ask"
    /\ reader' = [reader EXCEPT ![c] = [pc |-> "reply"]]
    /\ UNCHANGED <<rooms, scopes, conns, conn, authed, dropped, send, writer,
                   hooks, told>>
    /\ unchangedFrames

Reply(c) ==
    /\ reader[c].pc = "reply" /\ Free(c)
    /\ sendJSON(c)
    /\ reader' = [reader EXCEPT ![c] = [pc |-> "read"]]
    /\ UNCHANGED <<rooms, scopes, conns, conn, authed, dropped, writer, hooks,
                   told>>
    /\ unchangedFrames

Unsubscribe(c, s) ==
    /\ Reading(c) /\ Free(c) /\ conn[c] = "open"
    /\ leave(c, s)
    /\ UNCHANGED <<conns, conn, authed, dropped, send, reader, writer, told>>
    /\ unchangedFrames

-----------------------------------------------------------------------------
(* The end of a connection *)

\* Mutant: a second drop counts again.
DropsAlways(c) == TRUE

\* The swap of client.dropped: of two pumps one does the work.
Drops(c) == ~dropped[c]

\* drop: the client leaves every room it is in; the callbacks follow.
drop(c, pump) ==
    IF Drops(c)
    THEN /\ dropped' = [dropped EXCEPT ![c] = TRUE]
         /\ rooms' = [s \in Scopes |-> IF s \in scopes[c] THEN rooms[s] \ {c}
                                                          ELSE rooms[s]]
         /\ hooks' = [hooks EXCEPT ![<<c, pump>>] =
                        {<<"unsubscribed", s>> :
                           s \in {t \in scopes[c] : Emptied(t, c)}}]
    ELSE UNCHANGED <<dropped, rooms, hooks>>

AfterDrop(c) == IF Drops(c) THEN "drop" ELSE "done"

ReadFails(c) ==
    /\ Reading(c) /\ Free(c) /\ conn[c] = "closed"
    /\ drop(c, "reader")
    /\ reader' = [reader EXCEPT ![c] = [pc |-> AfterDrop(c)]]
    /\ UNCHANGED <<scopes, conns, conn, authed, send, writer, told>>
    /\ unchangedFrames

\* Writing a frame or a ping.
WriteFails(c) ==
    /\ writer[c] = "run" /\ conn[c] = "closed"
    /\ drop(c, "writer")
    /\ writer' = [writer EXCEPT ![c] = AfterDrop(c)]
    /\ UNCHANGED <<scopes, conns, conn, authed, send, reader, told>>
    /\ unchangedFrames

\* The rest of drop, when its callbacks have returned.
ReaderDropped(c) ==
    /\ reader[c].pc = "drop" /\ Free(c)
    /\ conns' = conns - 1
    /\ reader' = [reader EXCEPT ![c] = [pc |-> "done"]]
    /\ UNCHANGED <<rooms, scopes, conn, authed, dropped, send, writer, hooks, told>>
    /\ unchangedFrames

WriterDropped(c) ==
    /\ writer[c] = "drop" /\ hooks[<<c, "writer">>] = {}
    /\ conns' = conns - 1
    /\ writer' = [writer EXCEPT ![c] = "done"]
    /\ UNCHANGED <<rooms, scopes, conn, authed, dropped, send, reader, hooks, told>>
    /\ unchangedFrames

\* OnSubscribe or OnUnsubscribe, called by goroutine g.
Callback(g) ==
    /\ \E h \in hooks[g] :
          /\ told' = [told EXCEPT ![h[2]] =
                        IF h[1] = "subscribed" THEN @ + 1 ELSE @ - 1]
          /\ hooks' = [hooks EXCEPT ![g] = @ \ {h}]
    /\ UNCHANGED <<rooms, scopes, conns, conn, authed, dropped, send, reader,
                   writer>>
    /\ unchangedFrames

\* The peer leaves, the network fails or a deadline passes: authGrace for
\* who does not authenticate, pongWait, writeWait.
Break(c) ==
    /\ conn[c] = "open"
    /\ conn' = [conn EXCEPT ![c] = "closed"]
    /\ UNCHANGED <<rooms, scopes, conns, authed, dropped, send, reader, writer,
                   hooks, told>>
    /\ unchangedFrames

-----------------------------------------------------------------------------
(* Frames *)

Write(c) ==
    /\ writer[c] = "run" /\ conn[c] = "open"
    /\ send[c] > 0
    /\ send' = [send EXCEPT ![c] = @ - 1]
    /\ UNCHANGED <<rooms, scopes, conns, conn, authed, dropped, reader, writer,
                   hooks, told>>
    /\ unchangedFrames

unchangedRooms ==
    UNCHANGED <<rooms, scopes, conns, authed, dropped, reader, writer, hooks,
                told>>

\* Broadcast, SendToUser and DeliverRemote: a snapshot of the room.
Broadcast(b, s, e) ==
    /\ cast[b] = Quiet
    /\ rooms[s] # {}
    /\ cast' = [cast EXCEPT ![b] =
                  [event |-> e, targets |-> rooms[s], to |-> "nobody"]]
    /\ UNCHANGED <<conn, send, dedup, copies>>
    /\ unchangedRooms

\* The broadcaster is done with client c.
Rest(j, c) ==
    IF j.targets = {c} THEN Quiet
    ELSE [j EXCEPT !.targets = @ \ {c}, !.to = "nobody"]

Seen(c, e) == \E i \in DOMAIN dedup[c] : dedup[c][i] = e

\* Mutant: the memory is one entry short.
RememberedShort(order, e) ==
    IF Len(order) + 1 >= DedupDepth THEN Tail(Append(order, e))
                                    ELSE Append(order, e)

Remembered(order, e) ==
    IF Len(order) + 1 > DedupDepth THEN Tail(Append(order, e))
                                   ELSE Append(order, e)

\* deliver under dedupMu.
Remember(b) ==
    /\ cast[b].to = "nobody"
    /\ \E c \in cast[b].targets :
          LET e == cast[b].event IN
          IF Seen(c, e)
          THEN /\ cast' = [cast EXCEPT ![b] = Rest(@, c)]
               /\ UNCHANGED dedup
          ELSE /\ cast' = [cast EXCEPT ![b].to = c]
               /\ dedup' = [dedup EXCEPT ![c] = Remembered(@, e)]
    /\ UNCHANGED <<conn, send, copies>>
    /\ unchangedRooms

\* Mutant: a full queue loses the frame, as sendJSON does.
LeftOpen(c) == conn[c]

\* The close of a slow consumer.
ClosedBySlow(c) == "closed"

\* deliver, the rest: the frame is queued or the slow consumer is evicted.
Queue(b) ==
    /\ cast[b].to # "nobody"
    /\ LET c == cast[b].to IN
       /\ IF send[c] < SendBuffer
          THEN /\ send' = [send EXCEPT ![c] = @ + 1]
               /\ copies' = [copies EXCEPT ![c][cast[b].event] =
                               IF @ < 2 THEN @ + 1 ELSE @]
               /\ UNCHANGED conn
          ELSE /\ conn' = [conn EXCEPT ![c] = ClosedBySlow(c)]
               /\ UNCHANGED <<send, copies>>
       /\ cast' = [cast EXCEPT ![b] = Rest(@, c)]
    /\ UNCHANGED dedup
    /\ unchangedRooms

-----------------------------------------------------------------------------

ReadPump(c) ==
    \/ ServeJoin(c) \/ StartPumps(c)
    \/ Accept(c) \/ Reject(c) \/ Reply(c)
    \/ ReadFails(c) \/ ReaderDropped(c)
    \/ Callback(<<c, "reader">>)

WritePump(c) ==
    \/ Write(c)
    \/ WriteFails(c) \/ WriterDropped(c)
    \/ Callback(<<c, "writer">>)

Frames(c) ==
    \/ AnswerAtOnce(c)
    \/ \E s \in Scopes : Ask(c, s) \/ Unsubscribe(c, s)

Deliver(b) == Remember(b) \/ Queue(b)

Next ==
    \/ \E c \in Clients : \/ ServeWS(c) \/ Break(c)
                          \/ ReadPump(c) \/ WritePump(c) \/ Frames(c)
    \/ \E b \in Broadcasters : \/ Deliver(b)
                               \/ \E s \in Scopes, e \in Events : Broadcast(b, s, e)

Spec == Init /\ [][Next]_vars

-----------------------------------------------------------------------------
(* Properties *)

\* The type invariant: the hub, its clients and their goroutines.
TypeOK ==
    /\ rooms \in [Scopes -> SUBSET Clients]
    /\ scopes \in [Clients -> SUBSET Scopes]
    /\ conns \in 0..Cardinality(Clients)
    /\ conn \in [Clients -> {"none", "open", "closed"}]
    /\ authed \in [Clients -> BOOLEAN]
    /\ dropped \in [Clients -> BOOLEAN]
    /\ send \in [Clients -> 0..SendBuffer]
    /\ dedup \in [Clients -> Seq(Events)]
    /\ \A c \in Clients : Len(dedup[c]) <= DedupDepth
    /\ reader \in [Clients -> Readers]
    /\ writer \in [Clients -> Writers]
    /\ hooks \in [Goroutines -> SUBSET Hooks]
    /\ cast \in [Broadcasters -> Casts \cup {Quiet}]
    /\ told \in [Scopes -> Int]
    /\ copies \in [Clients -> [Events -> 0..2]]

InDrop(c) == reader[c].pc = "drop" \/ writer[c] = "drop"

\* The connection counter is the number of connections that have not been
\* dropped, however the two pumps of a client meet its end (drop, ServeWS).
ConnsCounted ==
    conns = Cardinality({c \in Clients : conn[c] # "none"
                                         /\ (~dropped[c] \/ InDrop(c))})

Pending(kind, s) == Cardinality({g \in Goroutines : <<kind, s>> \in hooks[g]})

\* The product is told of every room that fills and of every room that
\* empties, once each: the calls made and the calls under way add up to
\* whether the room exists, although they run outside the lock and may
\* overtake each other (join, leave, drop).
CallbacksBalance ==
    \A s \in Scopes :
       told[s] + Pending("subscribed", s) - Pending("unsubscribed", s)
          = IF rooms[s] = {} THEN 0 ELSE 1

\* A client is sent one copy of an event that is broadcast to several of its
\* rooms, again by a retry or again by the relay, as long as the memory of
\* the client holds all events (deliver).
OneCopyPerEvent ==
    Cardinality(Events) <= DedupDepth =>
       \A c \in Clients, e \in Events : copies[c][e] <= 1

\* An event that a client remembers, and that is therefore suppressed when
\* it comes again, has been queued for it, is about to be, or the client
\* is being disconnected: no frame is lost without the consumer noticing.
RememberedIsQueued ==
    \A c \in Clients, e \in Events : Seen(c, e) =>
       \/ copies[c][e] > 0
       \/ conn[c] = "closed"
       \/ \E b \in Broadcasters : cast[b].to = c /\ cast[b].event = e
=============================================================================
