----------------------------- MODULE MCWebhooks -----------------------------
(* Small instances of Webhooks for TLC. *)
EXTENDS WebhooksQueue, TLC

\* Every subscription matches every event.
WantsAll == [s \in Subs |-> Events]

\* A ladder of one rung: two attempts, the second is the last.
OneRung == <<1>>

WorkerIdSymmetry == Permutations(Ids) \cup Permutations(Workers)
=============================================================================
