------------------------------ MODULE Billing ------------------------------
(***************************************************************************)
(* Orders of one workspace, its plan and its subscription, and the events  *)
(* of the payment channel that change them (billing/).                     *)
(*                                                                         *)
(* A webhook is handled by a sequence of statements, each of which commits *)
(* on its own.  The row of the event says how far the handling is known to *)
(* have come: a second delivery is handled again only if the first ended   *)
(* in error.  Handlers of different events run side by side, and between   *)
(* the statements of one, users, administrators and the sweepers act.      *)
(*                                                                         *)
(* The orders are of different plans, so that the plan of the workspace is *)
(* named by the order it comes from.  Events carry the right amount and    *)
(* name their order or its subscription.                                   *)
(***************************************************************************)
EXTENDS Integers, FiniteSets

CONSTANTS
    Orders,
    Events,         \* what the channel may report: <<kind, order>>
    Requests,       \* requests served at the same time
    MaxFaults       \* bound: failures and crashes together

Kinds == {"paid", "failed", "refunded", "renewed", "ended"}
Cancels == {"userCancel", "adminCancel"}

ASSUME BillingAssumption ==
    /\ Events \subseteq Kinds \X Orders
    /\ \A o \in Orders : <<"paid", o>> \in Events
    /\ MaxFaults \in Nat
    /\ {"free", "none"} \cap Orders = {}

VARIABLES
    order,              \* status; "expired" is canceled_by = 'expiry'
    plan,               \* workspace.plan_code
    subscription,       \* workspace.subscription_ref
    period,             \* workspace.plan_expires_at: none, running or over
    cancelRequested,    \* workspace.cancel_requested_at is set
    event,              \* payment_event.process_status
    req,                \* where each request stands
    charged,            \* orders the channel has taken money for
    granted,            \* history: orders whose payment has set the plan
    faults              \* failures and crashes so far

vars == <<order, plan, subscription, period, cancelRequested, event, req,
          charged, granted, faults>>
workspace == <<plan, subscription, period, cancelRequested>>

Idle == [kind |-> "none"]
Points == {"status", "reread", "revive", "fail", "find", "plan",
           "subscription", "clear", "mark", "request"}
Jobs == [kind: Kinds \cup Cancels, order: Orders \cup {"none"},
         at: Points, free: BOOLEAN]

EventOf(r) == <<r.kind, r.order>>
At(p, point) == req[p] # Idle /\ req[p].at = point
Go(p, point) == req' = [req EXCEPT ![p].at = point]
Finish(p) == req' = [req EXCEPT ![p] = Idle]

Init ==
    /\ order = [o \in Orders |-> "none"]
    /\ plan = "free" /\ subscription = "none" /\ period = "none"
    /\ cancelRequested = FALSE
    /\ event = [e \in Events |-> "none"]
    /\ req = [p \in Requests |-> Idle]
    /\ charged = {} /\ granted = {}
    /\ faults = [failures |-> 0, crashes |-> 0]

-----------------------------------------------------------------------------
(* Orders, and what the channel reports of them *)

\* CreateCheckout.
Checkout(o) ==
    /\ order[o] = "none"
    /\ order' = [order EXCEPT ![o] = "pending"]
    /\ UNCHANGED <<workspace, event, req, charged, granted, faults>>

\* CancelPendingOrder and AdminCancelPendingOrder.
CancelOrder(o) ==
    /\ order[o] = "pending"
    /\ order' = [order EXCEPT ![o] = "canceled"]
    /\ UNCHANGED <<workspace, event, req, charged, granted, faults>>

\* ExpireStaleOrders, at the end of the checkout session.
ExpireOrder(o) ==
    /\ order[o] = "pending"
    /\ order' = [order EXCEPT ![o] = "expired"]
    /\ UNCHANGED <<workspace, event, req, charged, granted, faults>>

\* The channel takes the money, whatever became of the order.
Pay(o) ==
    /\ order[o] # "none" /\ o \notin charged
    /\ charged' = charged \cup {o}
    /\ UNCHANGED <<order, workspace, event, req, granted, faults>>

\* What it reports, in any order: a payment, an attempt that failed, and of an
\* order that was paid a refund, a renewal and the end of the subscription.
Reported(e) ==
    IF e[1] = "failed" THEN order[e[2]] # "none" ELSE e[2] \in charged

\* Mutant: the insert takes any event that is not processed.
ReceiveUnprocessed(p, e) ==
    /\ Reported(e) /\ event[e] # "processed" /\ req[p] = Idle
    /\ event' = [event EXCEPT ![e] = "received"]
    /\ req' = [req EXCEPT ![p] = [kind |-> e[1], order |-> e[2], free |-> FALSE,
                 at |-> CASE e[1] \in {"paid", "refunded"} -> "status"
                          [] e[1] = "failed" -> "fail"
                          [] OTHER -> "find"]]
    /\ UNCHANGED <<order, workspace, charged, granted, faults>>

\* HandleWebhook and InsertPaymentEvent.  A delivery of an event that is being
\* handled, or was, is answered and changes nothing.
Receive(p, e) ==
    /\ Reported(e) /\ event[e] \in {"none", "error"} /\ req[p] = Idle
    /\ event' = [event EXCEPT ![e] = "received"]
    /\ req' = [req EXCEPT ![p] = [kind |-> e[1], order |-> e[2], free |-> FALSE,
                 at |-> CASE e[1] \in {"paid", "refunded"} -> "status"
                          [] e[1] = "failed" -> "fail"
                          [] OTHER -> "find"]]
    /\ UNCHANGED <<order, workspace, charged, granted, faults>>

-----------------------------------------------------------------------------
(* The statements of the handlers *)

\* UpdateOrderStatus: pending to paid, or paid to refunded.
Status(p) ==
    LET r == req[p]
        from == IF r.kind = "paid" THEN "pending" ELSE "paid" IN
    /\ At(p, "status")
    /\ IF order[r.order] = from
       THEN order' = [order EXCEPT ![r.order] = r.kind] /\ Go(p, "plan")
       ELSE /\ Go(p, IF r.kind = "paid" THEN "reread" ELSE "mark")
            /\ UNCHANGED order
    /\ UNCHANGED <<workspace, event, charged, granted, faults>>

\* Mutant: a payment of an order that is not pending is credited anyway.
RereadNothing(p) ==
    /\ At(p, "reread")
    /\ Go(p, "plan")
    /\ UNCHANGED <<order, workspace, event, charged, granted, faults>>

\* GetOrder after the conflict: only what expired may be revived, which the
\* next statement decides.
Reread(p) ==
    LET status == order[req[p].order] IN
    /\ At(p, "reread")
    /\ Go(p, CASE status = "paid" -> "plan"
               [] status \in {"canceled", "expired"} -> "revive"
               [] OTHER -> "mark")
    /\ UNCHANGED <<order, workspace, event, charged, granted, faults>>

\* Mutant: an order is revived whoever canceled it.
ReviveAny(p) ==
    LET o == req[p].order IN
    /\ At(p, "revive")
    /\ order' = [order EXCEPT ![o] = "paid"] /\ Go(p, "plan")
    /\ UNCHANGED <<workspace, event, charged, granted, faults>>

\* ReviveOrderAfterExpiry.
Revive(p) ==
    LET o == req[p].order IN
    /\ At(p, "revive")
    /\ IF order[o] = "expired"
       THEN order' = [order EXCEPT ![o] = "paid"] /\ Go(p, "plan")
       ELSE Go(p, "mark") /\ UNCHANGED order
    /\ UNCHANGED <<workspace, event, charged, granted, faults>>

\* FailOrder: the order and the event in one transaction.
FailOrder(p) ==
    LET r == req[p] IN
    /\ At(p, "fail")
    /\ IF order[r.order] = "pending"
       THEN /\ order' = [order EXCEPT ![r.order] = "failed"]
            /\ event' = [event EXCEPT ![EventOf(r)] = "processed"]
            /\ Finish(p)
       ELSE Go(p, "mark") /\ UNCHANGED <<order, event>>
    /\ UNCHANGED <<workspace, charged, granted, faults>>

\* FindWorkspaceBySubscription, with the plan of that moment.
Find(p) ==
    LET r == req[p]
        next == IF r.kind = "renewed" THEN "subscription" ELSE "plan" IN
    /\ At(p, "find")
    /\ IF subscription = r.order
       THEN req' = [req EXCEPT ![p].at = next, ![p].free = (plan = "free")]
       ELSE Go(p, "mark")
    /\ UNCHANGED <<order, workspace, event, charged, granted, faults>>

\* ChangeWorkspacePlan: to the plan of the order, or to free.  A payment and a
\* refund name a subscription or do not.
ChangePlan(p) ==
    LET r == req[p]
        gives == r.kind \in {"paid", "renewed"} IN
    /\ At(p, "plan")
    /\ plan' = IF gives THEN r.order ELSE "free"
    /\ granted' = IF gives THEN granted \cup {r.order} ELSE granted
    /\ \E point \in CASE r.kind = "paid" -> {"subscription", "clear"}
                      [] r.kind = "refunded" -> {"subscription", "mark"}
                      [] r.kind = "renewed" -> {"mark"}
                      [] OTHER -> {"subscription"} :
          Go(p, point)
    /\ UNCHANGED <<order, subscription, period, cancelRequested, event, charged, faults>>

\* SetWorkspaceSubscription, whatever it was.  A renewal gives the plan back if
\* it names its order and the plan was free when the workspace was found.
SetSubscription(p) ==
    LET r == req[p]
        gives == r.kind \in {"paid", "renewed"} IN
    /\ At(p, "subscription")
    /\ subscription' = IF gives THEN r.order ELSE "none"
    /\ period' = IF gives THEN "running" ELSE "none"
    /\ IF r.kind = "userCancel" THEN Finish(p)
       ELSE \E point \in IF r.kind # "renewed" THEN {"clear"}
                         ELSE IF r.free THEN {"plan", "mark"} ELSE {"mark"} :
               Go(p, point)
    /\ UNCHANGED <<order, plan, cancelRequested, event, charged, granted, faults>>

\* ClearWorkspaceCancelRequested.
Clear(p) ==
    /\ At(p, "clear")
    /\ cancelRequested' = FALSE
    /\ IF req[p].kind = "adminCancel" THEN Finish(p) ELSE Go(p, "mark")
    /\ UNCHANGED <<order, plan, subscription, period, event, charged, granted, faults>>

\* MarkEventProcessed.
Mark(p) ==
    /\ At(p, "mark")
    /\ event' = [event EXCEPT ![EventOf(req[p])] = "processed"]
    /\ Finish(p)
    /\ UNCHANGED <<order, workspace, charged, granted, faults>>

\* Mutant: a failed statement leaves the event as it is.
FailUnmarked(p) ==
    /\ req[p] # Idle /\ faults.failures + faults.crashes < MaxFaults
    /\ Finish(p)
    /\ faults' = [faults EXCEPT !.failures = @ + 1]
    /\ UNCHANGED <<order, workspace, event, charged, granted>>

\* A statement fails: failEvent lets the event be delivered again, except when
\* it was the last one, after which there is nothing left to do.
Fail(p) ==
    /\ req[p] # Idle /\ faults.failures + faults.crashes < MaxFaults
    /\ event' = IF req[p].at = "mark" \/ req[p].kind \in Cancels THEN event
                ELSE [event EXCEPT ![EventOf(req[p])] = "error"]
    /\ Finish(p)
    /\ faults' = [faults EXCEPT !.failures = @ + 1]
    /\ UNCHANGED <<order, workspace, charged, granted>>

\* The process dies while it handles an event, or MarkEventError fails as well.
\* To the request of a person it is as if its next statement failed.
Crash(p) ==
    /\ req[p] # Idle /\ req[p].kind \in Kinds
    /\ faults.failures + faults.crashes < MaxFaults
    /\ Finish(p)
    /\ faults' = [faults EXCEPT !.crashes = @ + 1]
    /\ UNCHANGED <<order, workspace, event, charged, granted>>

-----------------------------------------------------------------------------
(* Cancellation and expiry of the subscription *)

\* UserCancelSubscription and AdminCancelSubscription, up to the answer of the
\* channel, which ends the subscription at once, or at the end of the period,
\* or cannot.
Cancel(p, kind) ==
    /\ req[p] = Idle
    /\ subscription # "none" \/ plan # "free"
    /\ kind = "userCancel" => ~cancelRequested
    /\ \E point \in {"plan", "request"} :
          /\ kind = "adminCancel" => point = "plan"
          /\ kind = "userCancel" /\ point = "plan" => subscription # "none"
          /\ req' = [req EXCEPT ![p] = [kind |-> kind, order |-> subscription,
                                        at |-> point, free |-> FALSE]]
    /\ UNCHANGED <<order, workspace, event, charged, granted, faults>>

\* SetWorkspaceCancelRequested.
Request(p) ==
    /\ At(p, "request")
    /\ cancelRequested' = TRUE
    /\ Finish(p)
    /\ UNCHANGED <<order, plan, subscription, period, event, charged, granted, faults>>

PeriodEnds ==
    /\ period = "running"
    /\ period' = "over"
    /\ UNCHANGED <<order, plan, subscription, cancelRequested, event, req, charged,
                   granted, faults>>

\* ExpireDueWorkspaces, one transaction; the subscription stays.
ExpireWorkspace ==
    /\ period = "over"
    /\ plan' = "free" /\ period' = "none" /\ cancelRequested' = FALSE
    /\ UNCHANGED <<order, subscription, event, req, charged, granted, faults>>

-----------------------------------------------------------------------------

Step(p) ==
    \/ Status(p) \/ Reread(p) \/ Revive(p) \/ FailOrder(p) \/ Find(p)
    \/ ChangePlan(p) \/ SetSubscription(p) \/ Clear(p) \/ Mark(p) \/ Request(p)

Next ==
    \/ \E o \in Orders : Checkout(o) \/ CancelOrder(o) \/ ExpireOrder(o) \/ Pay(o)
    \/ \E p \in Requests :
          \/ \E e \in Events : Receive(p, e)
          \/ Step(p) \/ Fail(p) \/ Crash(p)
          \/ \E kind \in Cancels : Cancel(p, kind)
    \/ PeriodEnds \/ ExpireWorkspace

Spec == Init /\ [][Next]_vars

\* A request goes on, and the channel delivers a payment again until it is
\* acknowledged.
FairSpec ==
    /\ Spec
    /\ \A p \in Requests : WF_vars(Step(p))
    /\ \A o \in Orders : WF_vars(\E p \in Requests : Receive(p, <<"paid", o>>))

-----------------------------------------------------------------------------
(* Properties *)

Statuses == {"none", "pending", "paid", "failed", "canceled", "expired", "refunded"}

TypeOK ==
    /\ order \in [Orders -> Statuses]
    /\ plan \in Orders \cup {"free"}
    /\ subscription \in Orders \cup {"none"}
    /\ period \in {"none", "running", "over"}
    /\ cancelRequested \in BOOLEAN
    /\ event \in [Events -> {"none", "received", "processed", "error"}]
    /\ req \in [Requests -> Jobs \cup {Idle}]
    /\ charged \subseteq Orders /\ granted \subseteq Orders
    /\ faults \in [failures: 0..MaxFaults, crashes: 0..MaxFaults]

\* No two requests handle one event, whatever fails and is delivered again, so
\* that its handler runs to the end alone.
OneHandler ==
    \A p, q \in Requests :
        req[p] # Idle /\ req[q] # Idle /\ req[p].kind \in Kinds
            /\ EventOf(req[p]) = EventOf(req[q]) => p = q

\* The workspace has the plan or the subscription of an order only when that
\* order was paid, also when the order was canceled, expired or failed around
\* the payment.
RightsWerePaid ==
    \A o \in Orders :
        plan = o \/ subscription = o => order[o] \in {"paid", "refunded"}

\* What a person canceled, and what failed or was refunded, stays so, against
\* late, repeated and concurrent events; only an expiry is taken back.
FinalStaysFinal ==
    [][\A o \in Orders : order[o] \in {"canceled", "failed", "refunded"}
                            => order'[o] = order[o]]_vars

\* A payment the channel reports gives its plan in the end, through failures
\* and repeated deliveries, unless a person canceled the order or the channel
\* reported a failure first, a refund overtook it, or a process died: its event
\* stays "received", and HandleWebhook takes every delivery for a duplicate.
PaidIsGranted ==
    \A o \in Orders :
        o \in charged ~> \/ o \in granted
                        \/ order[o] \in {"canceled", "failed", "refunded"}
                        \/ faults.crashes > 0
=============================================================================
