--------------------------- MODULE WebhooksQueue ---------------------------
(* The webhook service implements the promise of module DeliveryQueue. *)
EXTENDS Webhooks

\* What a row says of its delivery, the time of the next attempt aside.
Entry(r) == [stage |-> r.status, owner |-> r.sub, name |-> r.event,
             tries |-> r.attempts]

Promise == INSTANCE DeliveryQueue WITH
    Subscribers <- Subs,
    Nobody <- NoSub,
    Names <- Events \cup Ids,
    MaxTries <- MaxAttempts,
    entry <- [i \in Ids |-> Entry(row[i])],
    acknowledged <- acked,
    refused <- refused

\* Workers that claim a row twice, answer late and mark without looking at the
\* row behave like the queue: whatever one of them records is justified at that
\* instant by what the receivers answered and by the attempts counted, and an
\* event is pending for a subscription once, whoever emits, redelivers or
\* retries it.
ImplementsQueue == Promise!Spec
=============================================================================
