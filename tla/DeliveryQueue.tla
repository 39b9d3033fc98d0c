--------------------------- MODULE DeliveryQueue ---------------------------
(***************************************************************************)
(* What the webhook service promises a product, with no workers, clock or  *)
(* locks: every event queued for a subscriber is tried at least once       *)
(* before anything is recorded of it, is recorded as delivered only after  *)
(* the subscriber acknowledged it, is given up only for a cause that       *)
(* lasts, and waits for one subscriber only once at a time.                *)
(***************************************************************************)
EXTENDS Integers

CONSTANTS
    Ids,            \* entries; a bound on how many there ever are
    Subscribers,
    Nobody,         \* the subscriber of an entry whose own is gone
    Names,          \* what an entry is about
    MaxTries        \* tries after which an entry may be given up

VARIABLES
    entry,          \* the queue
    acknowledged,   \* entries whose subscriber answered that it has them
    refused         \* entries that must not be tried again

vars == <<entry, acknowledged, refused>>

Stages == {"none", "pending", "delivered", "dead"}
Entries == [stage: Stages, owner: Subscribers \cup {Nobody}, name: Names,
            tries: 0..MaxTries]

\* Nothing waits twice for one subscriber.
WaitsOnce(queue) ==
    \A i, j \in Ids :
       /\ queue[i].stage = "pending" /\ queue[j].stage = "pending"
       /\ queue[i].owner = queue[j].owner /\ queue[i].owner # Nobody
       /\ queue[i].name = queue[j].name
       => i = j

Init ==
    /\ entry \in [Ids -> [stage: {"none"}, owner: {Nobody}, name: Names, tries: {0}]]
    /\ acknowledged = {} /\ refused = {}

\* An event for several subscribers is queued in one step.
Enqueue ==
    /\ entry' \in [Ids -> Entries]
    /\ \A i \in Ids :
          \/ entry'[i] = entry[i]
          \/ entry[i].stage = "none" /\ entry'[i].stage = "pending" /\ entry'[i].tries = 0
    /\ WaitsOnce(entry')
    /\ UNCHANGED <<acknowledged, refused>>

\* Tries are counted before they are made, several at a time.
Try(S) ==
    /\ \A i \in S : entry[i].stage = "pending" /\ entry[i].owner # Nobody
    /\ entry' = [i \in Ids |->
                   IF i \in S /\ entry[i].tries < MaxTries
                   THEN [entry[i] EXCEPT !.tries = @ + 1] ELSE entry[i]]
    /\ UNCHANGED <<acknowledged, refused>>

\* The answers to a try may come at any time after it.
Tried(i) == entry[i].tries > 0

Acknowledge(i) ==
    /\ Tried(i)
    /\ acknowledged' = acknowledged \cup {i}
    /\ UNCHANGED <<entry, refused>>

Refuse(i) ==
    /\ Tried(i)
    /\ refused' = refused \cup {i}
    /\ UNCHANGED <<entry, acknowledged>>

Record(i, stage) ==
    /\ Tried(i)
    /\ entry' = [entry EXCEPT ![i].stage = stage]
    /\ UNCHANGED <<acknowledged, refused>>

Deliver(i) == i \in acknowledged /\ Record(i, "delivered")
GiveUp(i) == (i \in refused \/ entry[i].tries = MaxTries) /\ Record(i, "dead")

\* A try that failed for now, possibly one of several, which may be the last to
\* be recorded.
Retry(i) == Record(i, "pending") /\ WaitsOnce(entry')

\* The subscriber goes, and later what waits for it.
Leave(s) ==
    /\ entry' = [i \in Ids |-> IF entry[i].owner = s
                               THEN [entry[i] EXCEPT !.owner = Nobody] ELSE entry[i]]
    /\ UNCHANGED <<acknowledged, refused>>

Discard ==
    /\ entry' = [i \in Ids |->
                   IF entry[i].stage = "pending" /\ entry[i].owner = Nobody
                   THEN [entry[i] EXCEPT !.stage = "dead"] ELSE entry[i]]
    /\ UNCHANGED <<acknowledged, refused>>

Next ==
    \/ Enqueue
    \/ \E S \in SUBSET Ids : Try(S)
    \/ \E i \in Ids : \/ Acknowledge(i) \/ Refuse(i)
                      \/ Deliver(i) \/ GiveUp(i) \/ Retry(i)
    \/ \E s \in Subscribers : Leave(s)
    \/ Discard

Spec == Init /\ [][Next]_vars
=============================================================================
