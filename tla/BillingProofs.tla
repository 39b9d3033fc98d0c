--------------------------- MODULE BillingProofs ---------------------------
(***************************************************************************)
(* Proofs about Billing, for any orders, events, requests and number of    *)
(* faults.                                                                 *)
(***************************************************************************)
EXTENDS Billing, TLAPS

-----------------------------------------------------------------------------
(* The inductive invariant *)

Busy(p) == req[p] # Idle

\* Which statements the requests of each kind execute.
KindsAt == [point \in Points |->
    CASE point = "status" -> {"paid", "refunded"}
      [] point \in {"reread", "revive"} -> {"paid"}
      [] point = "fail" -> {"failed"}
      [] point = "find" -> {"renewed", "ended"}
      [] point \in {"plan", "subscription"} -> (Kinds \ {"failed"}) \cup Cancels
      [] point = "clear" -> Kinds \cup {"adminCancel"}
      [] point = "mark" -> Kinds
      [] point = "request" -> {"userCancel"}]

\* A request is where its kind may be, and the event it handles is marked as
\* received; this and no more keeps a second delivery out.
Handling ==
    \A p \in Requests : Busy(p) =>
        /\ req[p].kind \in KindsAt[req[p].at]
        /\ req[p].kind \in Kinds =>
             EventOf(req[p]) \in Events /\ event[EventOf(req[p])] = "received"

\* A request that is about to write the plan or the subscription of its order
\* has seen the order paid.
Gives(r) == r.kind \in {"paid", "renewed"} /\ r.at \in {"plan", "subscription"}
GivesWhatWasPaid ==
    \A p \in Requests :
        Busy(p) /\ Gives(req[p]) => order[req[p].order] \in {"paid", "refunded"}

IInv == TypeOK /\ Handling /\ OneHandler /\ GivesWhatWasPaid /\ RightsWerePaid

-----------------------------------------------------------------------------
(* Requests *)

\* The fields of a request that is under way.
LEMMA BusyType ==
    ASSUME TypeOK, NEW p \in Requests, Busy(p)
    PROVE  /\ req[p] \in Jobs
           /\ req[p].kind \in Kinds \cup Cancels
           /\ req[p].order \in Orders \cup {"none"}
           /\ req[p].at \in Points
           /\ req[p].free \in BOOLEAN
<1>1. req[p] \in Jobs
  BY DEF TypeOK, Busy
<1> QED
  BY <1>1 DEF Jobs

\* Being at a point means to be under way.
LEMMA AtIsBusy ==
    ASSUME NEW p \in Requests, NEW point, At(p, point)
    PROVE  Busy(p) /\ req[p].at = point
  BY DEF At, Busy

\* A request that handles an event is about an order.
LEMMA EventType ==
    ASSUME IInv, NEW p \in Requests, Busy(p), req[p].kind \in Kinds
    PROVE  /\ req[p].order \in Orders
           /\ EventOf(req[p]) \in Events
           /\ event[EventOf(req[p])] = "received"
<1>1. EventOf(req[p]) \in Events /\ event[EventOf(req[p])] = "received"
  BY DEF IInv, Handling
<1>2. <<req[p].kind, req[p].order>> \in Kinds \X Orders
  BY <1>1, BillingAssumption DEF EventOf
<1> QED
  BY <1>1, <1>2

\* Moving on to another point, and ending.
LEMMA GoType ==
    ASSUME TypeOK, NEW p \in Requests, Busy(p), NEW point \in Points, Go(p, point)
    PROVE  /\ req' \in [Requests -> Jobs \cup {Idle}]
           /\ req'[p] # Idle
           /\ req'[p].kind = req[p].kind
           /\ req'[p].order = req[p].order
           /\ req'[p].free = req[p].free
           /\ req'[p].at = point
           /\ \A q \in Requests \ {p} : req'[q] = req[q]
<1>1. req[p] \in Jobs
  BY BusyType
<1>2. [req[p] EXCEPT !.at = point] \in Jobs
  BY <1>1 DEF Jobs
<1>3. req' = [req EXCEPT ![p] = [req[p] EXCEPT !.at = point]]
  BY DEF Go
<1>4. req'[p] = [req[p] EXCEPT !.at = point]
  BY <1>3 DEF TypeOK
<1>5. req'[p].kind # "none"
  BY <1>1, <1>4 DEF Jobs, Kinds, Cancels
<1> QED
  BY <1>1, <1>2, <1>3, <1>4, <1>5 DEF TypeOK, Jobs, Idle

LEMMA FinishType ==
    ASSUME TypeOK, NEW p \in Requests, Finish(p)
    PROVE  /\ req' \in [Requests -> Jobs \cup {Idle}]
           /\ req'[p] = Idle
           /\ \A q \in Requests \ {p} : req'[q] = req[q]
  BY DEF TypeOK, Finish

-----------------------------------------------------------------------------
(* Types *)

LEMMA TypeInit == Init => TypeOK
<1> SUFFICES ASSUME Init PROVE TypeOK
  OBVIOUS
<1>1. 0 \in 0..MaxFaults
  BY BillingAssumption
<1>2. faults \in [failures: 0..MaxFaults, crashes: 0..MaxFaults]
  BY <1>1 DEF Init
<1> QED
  BY <1>2 DEF Init, TypeOK, Statuses

\* The statements that only move the request on, or end it.
LEMMA MoveType ==
    ASSUME TypeOK, NEW p \in Requests, Busy(p),
           Finish(p) \/ \E point \in Points : Go(p, point)
    PROVE  req' \in [Requests -> Jobs \cup {Idle}]
  BY GoType, FinishType

\* Every statement of a handler keeps the types.
LEMMA StatementType ==
    ASSUME IInv, NEW p \in Requests, Step(p)
    PROVE  TypeOK'
<1> SUFFICES ASSUME TypeOK PROVE TypeOK'
  BY DEF IInv
<1>1. Busy(p)
  BY DEF Step, Status, Reread, Revive, FailOrder, Find, ChangePlan, SetSubscription,
         Clear, Mark, Request, At, Busy
<1>2. req[p].kind \in Kinds => req[p].order \in Orders /\ EventOf(req[p]) \in Events
  BY <1>1, EventType
<1>3. req[p].kind \in KindsAt[req[p].at] /\ req[p].at \in Points
  BY <1>1, BusyType DEF IInv, Handling
<1>4. CASE Status(p)
  <2>1. req[p].kind \in {"paid", "refunded"}
    BY <1>3, <1>4 DEF Status, At, KindsAt, Points
  <2>2. order' \in [Orders -> Statuses]
    BY <1>2, <1>4, <2>1 DEF Status, TypeOK, Statuses, Kinds
  <2>3. \E point \in Points : Go(p, point)
    BY <1>4 DEF Status, Points
  <2>4. req' \in [Requests -> Jobs \cup {Idle}]
    BY <1>1, <2>3, MoveType
  <2> QED
    BY <1>4, <2>2, <2>4 DEF Status, TypeOK, workspace
<1>5. CASE Reread(p)
  <2>1. \E point \in Points : Go(p, point)
    BY <1>5 DEF Reread, Points
  <2>2. req' \in [Requests -> Jobs \cup {Idle}]
    BY <1>1, <2>1, MoveType
  <2> QED
    BY <1>5, <2>2 DEF Reread, TypeOK, workspace
<1>6. CASE Revive(p)
  <2>1. \E point \in Points : Go(p, point)
    BY <1>6 DEF Revive, Points
  <2>2. req' \in [Requests -> Jobs \cup {Idle}]
    BY <1>1, <2>1, MoveType
  <2>3. order' \in [Orders -> Statuses]
    BY <1>6 DEF Revive, TypeOK, Statuses
  <2> QED
    BY <1>6, <2>2, <2>3 DEF Revive, TypeOK, workspace
<1>7. CASE FailOrder(p)
  <2>1. Finish(p) \/ \E point \in Points : Go(p, point)
    BY <1>7 DEF FailOrder, Points
  <2>2. req' \in [Requests -> Jobs \cup {Idle}]
    BY <1>1, <2>1, MoveType
  <2>3. order' \in [Orders -> Statuses]
    BY <1>7 DEF FailOrder, TypeOK, Statuses
  <2>4. event' \in [Events -> {"none", "received", "processed", "error"}]
    BY <1>7 DEF FailOrder, TypeOK
  <2> QED
    BY <1>7, <2>2, <2>3, <2>4 DEF FailOrder, TypeOK, workspace
<1>8. CASE Find(p)
  <2>1. req[p] \in Jobs
    BY <1>1, BusyType
  <2>2. req' \in [Requests -> Jobs \cup {Idle}]
    <3>1. CASE subscription = req[p].order
      <4> DEFINE next == IF req[p].kind = "renewed" THEN "subscription" ELSE "plan"
      <4>1. req' = [req EXCEPT ![p] = [req[p] EXCEPT !.at = next, !.free = (plan = "free")]]
        BY <1>8, <3>1 DEF Find, TypeOK
      <4>2. [req[p] EXCEPT !.at = next, !.free = (plan = "free")] \in Jobs
        BY <2>1 DEF Jobs, Points
      <4> QED
        BY <4>1, <4>2 DEF TypeOK
    <3>2. CASE subscription # req[p].order
      BY <1>1, <1>8, <3>2, MoveType DEF Find, Points
    <3> QED
      BY <3>1, <3>2
  <2> QED
    BY <1>8, <2>2 DEF Find, TypeOK, workspace
<1>9. CASE ChangePlan(p)
  <2>1. \E point \in Points : Go(p, point)
    BY <1>9 DEF ChangePlan, Points
  <2>2. req' \in [Requests -> Jobs \cup {Idle}]
    BY <1>1, <2>1, MoveType
  <2>3. plan' \in Orders \cup {"free"} /\ granted' \subseteq Orders
    BY <1>2, <1>9 DEF ChangePlan, TypeOK, Kinds
  <2> QED
    BY <1>9, <2>2, <2>3 DEF ChangePlan, TypeOK
<1>10. CASE SetSubscription(p)
  <2>1. Finish(p) \/ \E point \in Points : Go(p, point)
    BY <1>10 DEF SetSubscription, Points
  <2>2. req' \in [Requests -> Jobs \cup {Idle}]
    BY <1>1, <2>1, MoveType
  <2>3. /\ subscription' \in Orders \cup {"none"}
        /\ period' \in {"none", "running", "over"}
    BY <1>2, <1>10 DEF SetSubscription, TypeOK, Kinds
  <2> QED
    BY <1>10, <2>2, <2>3 DEF SetSubscription, TypeOK
<1>11. CASE Clear(p)
  <2>1. Finish(p) \/ \E point \in Points : Go(p, point)
    BY <1>11 DEF Clear, Points
  <2>2. req' \in [Requests -> Jobs \cup {Idle}]
    BY <1>1, <2>1, MoveType
  <2> QED
    BY <1>11, <2>2 DEF Clear, TypeOK
<1>12. CASE Mark(p)
  <2>1. req' \in [Requests -> Jobs \cup {Idle}]
    BY <1>1, <1>12, MoveType DEF Mark
  <2>2. event' \in [Events -> {"none", "received", "processed", "error"}]
    BY <1>12 DEF Mark, TypeOK
  <2> QED
    BY <1>12, <2>1, <2>2 DEF Mark, TypeOK, workspace
<1>13. CASE Request(p)
  <2>1. req' \in [Requests -> Jobs \cup {Idle}]
    BY <1>1, <1>13, MoveType DEF Request
  <2> QED
    BY <1>13, <2>1 DEF Request, TypeOK
<1> QED
  BY <1>4, <1>5, <1>6, <1>7, <1>8, <1>9, <1>10, <1>11, <1>12, <1>13 DEF Step

\* The types, under every step.
LEMMA TypeStep == IInv /\ [Next]_vars => TypeOK'
<1> SUFFICES ASSUME IInv, [Next]_vars PROVE TypeOK'
  OBVIOUS
<1>t. TypeOK
  BY DEF IInv
<1>1. ASSUME NEW o \in Orders,
             Checkout(o) \/ CancelOrder(o) \/ ExpireOrder(o) \/ Pay(o)
      PROVE  TypeOK'
  <2>1. order' \in [Orders -> Statuses] /\ charged' \subseteq Orders
    BY <1>t, <1>1 DEF Checkout, CancelOrder, ExpireOrder, Pay, TypeOK, Statuses
  <2>2. UNCHANGED <<workspace, event, req, granted, faults>>
    BY <1>1 DEF Checkout, CancelOrder, ExpireOrder, Pay
  <2> QED
    BY <1>t, <2>1, <2>2 DEF TypeOK, workspace
<1>2. ASSUME NEW p \in Requests, NEW e \in Events, Receive(p, e)
      PROVE  TypeOK'
  <2>1. e[1] \in Kinds /\ e[2] \in Orders
    BY BillingAssumption
  <2>2. req' \in [Requests -> Jobs \cup {Idle}]
    BY <1>t, <1>2, <2>1 DEF Receive, TypeOK, Jobs, Points, Kinds
  <2>3. event' \in [Events -> {"none", "received", "processed", "error"}]
    BY <1>t, <1>2 DEF Receive, TypeOK
  <2> QED
    BY <1>t, <1>2, <2>2, <2>3 DEF Receive, TypeOK, workspace
<1>3. ASSUME NEW p \in Requests, Fail(p) \/ Crash(p)
      PROVE  TypeOK'
  <2>1. Finish(p) /\ UNCHANGED <<order, workspace, charged, granted>>
    BY <1>3 DEF Fail, Crash
  <2>2. event' \in [Events -> {"none", "received", "processed", "error"}]
    BY <1>t, <1>3 DEF Fail, Crash, TypeOK
  <2>3. faults' \in [failures: 0..MaxFaults, crashes: 0..MaxFaults]
    BY <1>t, <1>3, BillingAssumption DEF Fail, Crash, TypeOK
  <2> QED
    BY <1>t, <2>1, <2>2, <2>3, FinishType DEF TypeOK, workspace
<1>4. ASSUME NEW p \in Requests, NEW kind \in Cancels, Cancel(p, kind)
      PROVE  TypeOK'
  <2>1. req' \in [Requests -> Jobs \cup {Idle}]
    BY <1>t, <1>4 DEF Cancel, TypeOK, Jobs, Points
  <2> QED
    BY <1>t, <1>4, <2>1 DEF Cancel, TypeOK, workspace
<1>5. CASE PeriodEnds \/ ExpireWorkspace
  BY <1>t, <1>5 DEF PeriodEnds, ExpireWorkspace, TypeOK
<1>6. CASE UNCHANGED vars
  BY <1>t, <1>6 DEF vars, TypeOK
<1> QED
  BY <1>1, <1>2, <1>3, <1>4, <1>5, <1>6, StatementType DEF Next

-----------------------------------------------------------------------------
(* One handler per event *)

Handled == Handling /\ OneHandler

\* What keeps Handled when a request moves on within its event: nobody else's
\* event is touched.
LEMMA HandledMoves ==
    ASSUME IInv, NEW p \in Requests, Busy(p),
           req'[p].kind = req[p].kind, req'[p].order = req[p].order,
           req'[p].kind \in KindsAt[req'[p].at],
           \A q \in Requests \ {p} : req'[q] = req[q],
           UNCHANGED event
    PROVE  Handled'
  BY DEF Handled, IInv, Handling, OneHandler, Busy, EventOf

\* ... when it ends, whatever it writes to its event,
LEMMA HandledEnds ==
    ASSUME IInv, NEW p \in Requests, Busy(p), Finish(p),
           \/ UNCHANGED event
           \/ /\ req[p].kind \in Kinds
              /\ \E s : event' = [event EXCEPT ![EventOf(req[p])] = s]
    PROVE  Handled'
<1>1. req'[p] = Idle /\ \A q \in Requests \ {p} : req'[q] = req[q]
  BY FinishType DEF IInv
<1>2. ASSUME NEW q \in Requests, Busy(q)', req'[q].kind \in Kinds
      PROVE  /\ q # p /\ req'[q] = req[q]
             /\ EventOf(req[q]) \in Events
             /\ event'[EventOf(req[q])] = "received"
  <2>1. q # p /\ req'[q] = req[q]
    BY <1>1, <1>2 DEF Busy
  <2>2. EventOf(req[q]) \in Events /\ event[EventOf(req[q])] = "received"
    BY <1>2, <2>1, EventType DEF Busy
  <2>3. req[p].kind \in Kinds => EventOf(req[q]) # EventOf(req[p])
    BY <1>2, <2>1 DEF IInv, OneHandler, Busy
  <2> QED
    BY <2>1, <2>2, <2>3 DEF IInv, TypeOK
<1>3. Handling'
  BY <1>1, <1>2 DEF IInv, Handling, Busy, EventOf
<1>4. OneHandler'
  BY <1>1 DEF IInv, OneHandler, EventOf
<1> QED
  BY <1>3, <1>4 DEF Handled

\* ... and when a delivery is taken: the row of its event said that nobody is
\* handling it.
LEMMA HandledReceive ==
    ASSUME IInv, NEW p \in Requests, NEW e \in Events, Receive(p, e)
    PROVE  Handled'
<1>1. e[1] \in Kinds /\ e[2] \in Orders /\ e = <<e[1], e[2]>>
  BY BillingAssumption
<1>2. /\ req'[p].kind = e[1] /\ EventOf(req'[p]) = e
      /\ req'[p].kind \in KindsAt[req'[p].at]
      /\ req[p] = Idle
      /\ \A q \in Requests \ {p} : req'[q] = req[q]
  BY <1>1 DEF IInv, TypeOK, Receive, EventOf, KindsAt, Points, Kinds
<1>3. /\ event[e] # "received" /\ event'[e] = "received"
      /\ \A f \in Events \ {e} : event'[f] = event[f]
  BY DEF IInv, TypeOK, Receive
<1>4. ASSUME NEW q \in Requests \ {p}, Busy(q), req[q].kind \in Kinds
      PROVE  /\ EventOf(req[q]) \in Events \ {e}
             /\ event[EventOf(req[q])] = "received"
  BY <1>3, <1>4, EventType
<1>5. Handling'
  <2> SUFFICES ASSUME NEW q \in Requests, Busy(q)'
               PROVE  /\ req'[q].kind \in KindsAt[req'[q].at]
                      /\ req'[q].kind \in Kinds =>
                           /\ EventOf(req'[q]) \in Events
                           /\ event'[EventOf(req'[q])] = "received"
    BY DEF Handling, Busy, EventOf
  <2>1. CASE q = p
    BY <1>2, <1>3, <2>1
  <2>2. CASE q # p
    BY <1>2, <1>3, <1>4, <2>2 DEF IInv, Handling, Busy
  <2> QED
    BY <2>1, <2>2
<1>6. OneHandler'
  <2> SUFFICES ASSUME NEW q \in Requests, NEW r \in Requests, Busy(q)', Busy(r)',
                      req'[q].kind \in Kinds, EventOf(req'[q]) = EventOf(req'[r])
               PROVE  q = r
    BY DEF OneHandler, Busy, EventOf
  <2>1. CASE q # p /\ r # p
    BY <1>2, <2>1 DEF IInv, OneHandler, Busy
  <2>2. CASE q = p /\ r # p
    <3>1. req[r].kind \in Kinds /\ Busy(r)
      BY <1>1, <1>2, <2>2 DEF EventOf, Busy
    <3> QED
      BY <1>2, <1>4, <2>2, <3>1
  <2>3. CASE q # p /\ r = p
    BY <1>2, <1>4, <2>3 DEF Busy
  <2> QED
    BY <2>1, <2>2, <2>3
<1> QED
  BY <1>5, <1>6 DEF Handled

\* A cancellation handles no event.
LEMMA HandledCancel ==
    ASSUME IInv, NEW p \in Requests, NEW kind \in Cancels, Cancel(p, kind)
    PROVE  Handled'
<1>1. /\ req'[p].kind = kind /\ kind \notin Kinds
      /\ req'[p].kind \in KindsAt[req'[p].at]
      /\ \A q \in Requests \ {p} : req'[q] = req[q]
      /\ UNCHANGED event
  BY DEF IInv, TypeOK, Cancel, KindsAt, Points, Kinds, Cancels
<1>2. Handling'
  BY <1>1 DEF IInv, Handling, Busy, EventOf
<1>3. OneHandler'
  <2> SUFFICES ASSUME NEW q \in Requests, NEW r \in Requests, Busy(q)', Busy(r)',
                      req'[q].kind \in Kinds, EventOf(req'[q]) = EventOf(req'[r])
               PROVE  q = r
    BY DEF OneHandler, Busy, EventOf
  <2>1. q # p /\ r # p
    BY <1>1 DEF EventOf
  <2> QED
    BY <1>1, <2>1 DEF IInv, OneHandler, Busy
<1> QED
  BY <1>2, <1>3 DEF Handled

\* The statements of the handlers.
LEMMA HandledStep ==
    ASSUME IInv, NEW p \in Requests, Step(p)
    PROVE  Handled'
<1>t. TypeOK
  BY DEF IInv
<1>1. Busy(p)
  BY DEF Step, Status, Reread, Revive, FailOrder, Find, ChangePlan, SetSubscription,
         Clear, Mark, Request, At, Busy
<1>2. /\ req[p].kind \in KindsAt[req[p].at] /\ req[p].at \in Points
      /\ req[p].kind \in Kinds \cup Cancels
  BY <1>t, <1>1, BusyType DEF IInv, Handling
<1>3. ASSUME NEW point \in Points, Go(p, point), req[p].kind \in KindsAt[point],
             UNCHANGED event
      PROVE  Handled'
  <2>1. /\ req'[p].kind = req[p].kind /\ req'[p].order = req[p].order
        /\ req'[p].at = point
        /\ \A q \in Requests \ {p} : req'[q] = req[q]
    BY <1>t, <1>1, <1>3, GoType
  <2> QED
    BY <1>1, <1>3, <2>1, HandledMoves
<1>4. CASE Status(p)
  BY <1>2, <1>3, <1>4 DEF Status, At, KindsAt, Points, Kinds
<1>5. CASE Reread(p)
  BY <1>2, <1>3, <1>5 DEF Reread, At, KindsAt, Points, Kinds
<1>6. CASE Revive(p)
  BY <1>2, <1>3, <1>6 DEF Revive, At, KindsAt, Points, Kinds
<1>7. CASE FailOrder(p)
  <2>1. req[p].kind \in Kinds /\ req[p].kind \in KindsAt["mark"]
    BY <1>2, <1>7 DEF FailOrder, At, KindsAt, Points, Kinds
  <2>2. CASE Finish(p)
    BY <1>1, <1>7, <2>1, <2>2, HandledEnds DEF FailOrder
  <2>3. CASE Go(p, "mark") /\ UNCHANGED event
    BY <1>3, <2>1, <2>3 DEF Points
  <2> QED
    BY <1>7, <2>2, <2>3 DEF FailOrder
<1>8. CASE Find(p)
  <2>1. /\ req[p].kind \in KindsAt["mark"]
        /\ req[p].kind \in KindsAt["plan"]
        /\ req[p].kind \in KindsAt["subscription"]
        /\ UNCHANGED event
    BY <1>2, <1>8 DEF Find, At, KindsAt, Points, Kinds
  <2>2. CASE subscription = req[p].order
    <3> DEFINE next == IF req[p].kind = "renewed" THEN "subscription" ELSE "plan"
    <3>1. req' = [req EXCEPT ![p] = [req[p] EXCEPT !.at = next, !.free = (plan = "free")]]
      BY <1>t, <1>8, <2>2 DEF Find, TypeOK
    <3>2. req[p] \in Jobs
      BY <1>t, <1>1, BusyType
    <3>3. /\ req'[p].kind = req[p].kind /\ req'[p].order = req[p].order
          /\ req'[p].at = next
          /\ \A q \in Requests \ {p} : req'[q] = req[q]
      BY <1>t, <3>1, <3>2 DEF TypeOK, Jobs
    <3> QED
      BY <1>1, <2>1, <3>3, HandledMoves
  <2>3. CASE subscription # req[p].order
    BY <1>3, <1>8, <2>1, <2>3 DEF Find, Points
  <2> QED
    BY <2>2, <2>3
<1>9. CASE ChangePlan(p)
  BY <1>2, <1>3, <1>9 DEF ChangePlan, At, KindsAt, Points, Kinds, Cancels
<1>10. CASE SetSubscription(p)
  <2>1. CASE Finish(p)
    BY <1>1, <1>10, <2>1, HandledEnds DEF SetSubscription
  <2>2. CASE ~Finish(p)
    BY <1>2, <1>3, <1>10, <2>2 DEF SetSubscription, At, KindsAt, Points, Kinds, Cancels
  <2> QED
    BY <2>1, <2>2
<1>11. CASE Clear(p)
  <2>1. CASE Finish(p)
    BY <1>1, <1>11, <2>1, HandledEnds DEF Clear
  <2>2. CASE ~Finish(p)
    BY <1>2, <1>3, <1>11, <2>2 DEF Clear, At, KindsAt, Points, Kinds, Cancels
  <2> QED
    BY <2>1, <2>2
<1>12. CASE Mark(p)
  <2>1. req[p].kind \in Kinds
    BY <1>2, <1>12 DEF Mark, At, KindsAt, Points
  <2> QED
    BY <1>1, <1>12, <2>1, HandledEnds DEF Mark
<1>13. CASE Request(p)
  BY <1>1, <1>13, HandledEnds DEF Request
<1> QED
  BY <1>4, <1>5, <1>6, <1>7, <1>8, <1>9, <1>10, <1>11, <1>12, <1>13 DEF Step

-----------------------------------------------------------------------------
(* Orders, and the rights they give *)

Paid == {"paid", "refunded"}

\* How far a step may move an order: what was paid stays paid or is refunded,
\* and only an expiry is taken back.
LEMMA OrderStep ==
    ASSUME IInv, [Next]_vars, NEW o \in Orders
    PROVE  /\ order[o] \in Paid => order'[o] \in Paid
           /\ order[o] \in {"canceled", "failed", "refunded"} => order'[o] = order[o]
<1>t. TypeOK
  BY DEF IInv
<1>1. ASSUME NEW p \in Requests, Step(p)
      PROVE  \/ UNCHANGED order
             \/ \E x \in Orders, to \in {"paid", "refunded", "failed"} :
                   /\ order' = [order EXCEPT ![x] = to]
                   /\ to = "refunded" => order[x] = "paid"
                   /\ to # "refunded" => order[x] \in {"pending", "expired"}
  <2>1. Busy(p)
    BY <1>1 DEF Step, Status, Reread, Revive, FailOrder, Find, ChangePlan,
                SetSubscription, Clear, Mark, Request, At, Busy
  <2>2. /\ req[p].kind \in KindsAt[req[p].at] /\ req[p].at \in Points
        /\ req[p].kind \in Kinds => req[p].order \in Orders
    BY <1>t, <2>1, BusyType, EventType DEF IInv, Handling
  <2>3. CASE Status(p)
    <3>1. req[p].kind \in {"paid", "refunded"} /\ req[p].order \in Orders
      BY <2>2, <2>3 DEF Status, At, KindsAt, Points, Kinds
    <3> QED
      BY <2>3, <3>1 DEF Status
  <2>4. CASE Revive(p)
    <3>1. req[p].order \in Orders
      BY <2>2, <2>4 DEF Revive, At, KindsAt, Points, Kinds
    <3> QED
      BY <2>4, <3>1 DEF Revive
  <2>5. CASE FailOrder(p)
    <3>1. req[p].order \in Orders
      BY <2>2, <2>5 DEF FailOrder, At, KindsAt, Points, Kinds
    <3> QED
      BY <2>5, <3>1 DEF FailOrder
  <2>6. CASE \/ Reread(p) \/ Find(p) \/ ChangePlan(p) \/ SetSubscription(p)
             \/ Clear(p) \/ Mark(p) \/ Request(p)
    BY <2>6 DEF Reread, Find, ChangePlan, SetSubscription, Clear, Mark, Request
  <2> QED
    BY <1>1, <2>3, <2>4, <2>5, <2>6 DEF Step
<1>2. ASSUME NEW p \in Requests, Step(p)
      PROVE  /\ order[o] \in Paid => order'[o] \in Paid
             /\ order[o] \in {"canceled", "failed", "refunded"} => order'[o] = order[o]
  <2>1. CASE UNCHANGED order
    BY <2>1
  <2>2. ASSUME NEW x \in Orders, NEW to \in {"paid", "refunded", "failed"},
               order' = [order EXCEPT ![x] = to],
               to = "refunded" => order[x] = "paid",
               to # "refunded" => order[x] \in {"pending", "expired"}
        PROVE  /\ order[o] \in Paid => order'[o] \in Paid
               /\ order[o] \in {"canceled", "failed", "refunded"} => order'[o] = order[o]
    BY <1>t, <2>2 DEF TypeOK, Paid
  <2> QED
    BY <1>1, <1>2, <2>1, <2>2
<1>3. ASSUME NEW x \in Orders,
             Checkout(x) \/ CancelOrder(x) \/ ExpireOrder(x) \/ Pay(x)
      PROVE  /\ order[o] \in Paid => order'[o] \in Paid
             /\ order[o] \in {"canceled", "failed", "refunded"} => order'[o] = order[o]
  BY <1>t, <1>3 DEF Checkout, CancelOrder, ExpireOrder, Pay, TypeOK, Paid
<1>4. ASSUME NEW p \in Requests,
             \/ \E e \in Events : Receive(p, e)
             \/ Fail(p) \/ Crash(p)
             \/ \E kind \in Cancels : Cancel(p, kind)
      PROVE  UNCHANGED order
  BY <1>4 DEF Receive, Fail, Crash, Cancel
<1>5. CASE PeriodEnds \/ ExpireWorkspace \/ UNCHANGED vars
  BY <1>5 DEF PeriodEnds, ExpireWorkspace, vars
<1> QED
  BY <1>2, <1>3, <1>4, <1>5 DEF Next

Rights == GivesWhatWasPaid /\ RightsWerePaid

\* What keeps Rights: whoever is about to give an order its rights, or has
\* them given, finds it paid.
LEMMA RightsFollow ==
    ASSUME IInv, [Next]_vars,
           \A q \in Requests : Busy(q)' /\ Gives(req'[q]) =>
               \/ Busy(q) /\ Gives(req[q]) /\ req'[q].order = req[q].order
               \/ req'[q].order \in Orders /\ order'[req'[q].order] \in Paid,
           \A o \in Orders : plan' = o \/ subscription' = o =>
               plan = o \/ subscription = o \/ order[o] \in Paid
    PROVE  Rights'
<1>t. TypeOK
  BY DEF IInv
<1>1. ASSUME NEW q \in Requests, Busy(q), Gives(req[q])
      PROVE  req[q].order \in Orders /\ order'[req[q].order] \in Paid
  <2>1. req[q].kind \in Kinds
    BY <1>1 DEF Gives, Kinds
  <2>2. req[q].order \in Orders
    BY <1>1, <2>1, EventType
  <2> QED
    BY <1>1, <2>2, OrderStep DEF IInv, GivesWhatWasPaid, Paid
<1>2. GivesWhatWasPaid'
  BY <1>1 DEF GivesWhatWasPaid, Busy, Gives, Paid
<1>3. RightsWerePaid'
  BY OrderStep DEF IInv, RightsWerePaid, Paid
<1> QED
  BY <1>2, <1>3 DEF Rights

\* The statements: what they give was paid.
LEMMA RightsStep ==
    ASSUME IInv, NEW p \in Requests, Step(p)
    PROVE  Rights'
<1>t. TypeOK
  BY DEF IInv
<1>n. [Next]_vars
  BY DEF Next
<1>1. Busy(p)
  BY DEF Step, Status, Reread, Revive, FailOrder, Find, ChangePlan, SetSubscription,
         Clear, Mark, Request, At, Busy
<1>2. /\ req[p].kind \in KindsAt[req[p].at] /\ req[p].at \in Points
      /\ req[p].kind \in Kinds => req[p].order \in Orders
  BY <1>t, <1>1, BusyType, EventType DEF IInv, Handling
\* a request that ends, or moves on, gives nothing new,
<1>3. ASSUME Finish(p) \/ \E point \in Points : Go(p, point) /\
               (\/ req[p].kind \notin {"paid", "renewed"}
                \/ point \notin {"plan", "subscription"}
                \/ req[p].at \in {"plan", "subscription"}
                \/ order'[req[p].order] \in Paid),
             NEW q \in Requests, Busy(q)', Gives(req'[q])
      PROVE  \/ Busy(q) /\ Gives(req[q]) /\ req'[q].order = req[q].order
             \/ req'[q].order \in Orders /\ order'[req'[q].order] \in Paid
  <2>1. CASE Finish(p)
    BY <1>t, <1>3, <2>1, FinishType DEF Busy
  <2>2. ASSUME NEW point \in Points, Go(p, point),
               \/ req[p].kind \notin {"paid", "renewed"}
               \/ point \notin {"plan", "subscription"}
               \/ req[p].at \in {"plan", "subscription"}
               \/ order'[req[p].order] \in Paid
        PROVE  \/ Busy(q) /\ Gives(req[q]) /\ req'[q].order = req[q].order
               \/ req'[q].order \in Orders /\ order'[req'[q].order] \in Paid
    <3>1. /\ req'[p].kind = req[p].kind /\ req'[p].order = req[p].order
          /\ req'[p].at = point
          /\ \A x \in Requests \ {p} : req'[x] = req[x]
      BY <1>t, <1>1, <2>2, GoType
    <3> QED
      BY <1>1, <1>2, <1>3, <2>2, <3>1 DEF Busy, Gives, Kinds
  <2> QED
    BY <1>3, <2>1, <2>2
\* and neither does a statement that leaves the plan and the subscription.
<1>4. ASSUME UNCHANGED <<plan, subscription>>,
             Finish(p) \/ \E point \in Points : Go(p, point) /\
               (\/ req[p].kind \notin {"paid", "renewed"}
                \/ point \notin {"plan", "subscription"}
                \/ req[p].at \in {"plan", "subscription"}
                \/ order'[req[p].order] \in Paid)
      PROVE  Rights'
  BY <1>3, <1>4, <1>n, RightsFollow
<1>5. CASE Status(p)
  <2>1. req[p].kind \in {"paid", "refunded"} /\ req[p].order \in Orders
    BY <1>2, <1>5 DEF Status, At, KindsAt, Points, Kinds
  <2>2. order[req[p].order] = (IF req[p].kind = "paid" THEN "pending" ELSE "paid")
           => order'[req[p].order] \in Paid
    BY <1>t, <1>5, <2>1 DEF Status, Paid, TypeOK
  <2> QED
    BY <1>4, <1>5, <2>2 DEF Status, Points, workspace
<1>6. CASE Reread(p)
  <2>1. order' = order
    BY <1>6 DEF Reread
  <2> QED
    BY <1>4, <1>6, <2>1 DEF Reread, Points, Paid, workspace
<1>7. CASE Revive(p)
  <2>1. req[p].order \in Orders
    BY <1>2, <1>7 DEF Revive, At, KindsAt, Points, Kinds
  <2>2. order[req[p].order] = "expired" => order'[req[p].order] \in Paid
    BY <1>t, <1>7, <2>1 DEF Revive, Paid, TypeOK
  <2> QED
    BY <1>4, <1>7, <2>2 DEF Revive, Points, workspace
<1>8. CASE FailOrder(p)
  BY <1>4, <1>8 DEF FailOrder, Points, workspace
<1>9. CASE Find(p)
  <2>1. req[p].kind \in {"renewed", "ended"} /\ req[p].order \in Orders
    BY <1>2, <1>9 DEF Find, At, KindsAt, Points, Kinds
  <2>2. CASE subscription = req[p].order
    <3> DEFINE next == IF req[p].kind = "renewed" THEN "subscription" ELSE "plan"
    <3>1. req' = [req EXCEPT ![p] = [req[p] EXCEPT !.at = next, !.free = (plan = "free")]]
      BY <1>t, <1>9, <2>2 DEF Find, TypeOK
    <3>2. req[p] \in Jobs
      BY <1>t, <1>1, BusyType
    <3>3. /\ req'[p].order = req[p].order
          /\ \A q \in Requests \ {p} : req'[q] = req[q]
      BY <1>t, <3>1, <3>2 DEF TypeOK, Jobs
    <3>4. order'[req[p].order] \in Paid
      BY <1>9, <2>1, <2>2 DEF Find, IInv, RightsWerePaid, Paid
    <3>5. ASSUME NEW q \in Requests, Busy(q)', Gives(req'[q])
          PROVE  \/ Busy(q) /\ Gives(req[q]) /\ req'[q].order = req[q].order
                 \/ req'[q].order \in Orders /\ order'[req'[q].order] \in Paid
      BY <2>1, <3>3, <3>4, <3>5 DEF Busy
    <3>6. UNCHANGED <<plan, subscription>>
      BY <1>9 DEF Find, workspace
    <3> QED
      BY <1>n, <3>5, <3>6, RightsFollow
  <2>3. CASE subscription # req[p].order
    BY <1>4, <1>9, <2>3 DEF Find, Points, workspace
  <2> QED
    BY <2>2, <2>3
<1>10. CASE ChangePlan(p)
  <2>1. \E point \in Points : Go(p, point) /\ req[p].at \in {"plan", "subscription"}
    BY <1>10 DEF ChangePlan, At, Points
  <2>2. ASSUME NEW o \in Orders, plan' = o \/ subscription' = o
        PROVE  subscription = o \/ order[o] \in Paid
    <3>1. CASE plan' = o
      <4>1. req[p].kind \in {"paid", "renewed"} /\ req[p].order = o
        BY <1>10, <3>1, BillingAssumption DEF ChangePlan
      <4> QED
        BY <1>1, <1>10, <4>1 DEF ChangePlan, At, IInv, GivesWhatWasPaid, Gives, Paid
    <3>2. CASE subscription' = o
      BY <1>10, <3>2 DEF ChangePlan
    <3> QED
      BY <2>2, <3>1, <3>2
  <2> QED
    BY <1>3, <1>n, <2>1, <2>2, RightsFollow
<1>11. CASE SetSubscription(p)
  <2>1. Finish(p) \/ \E point \in Points :
           Go(p, point) /\ req[p].at \in {"plan", "subscription"}
    BY <1>11 DEF SetSubscription, At, Points
  <2>2. ASSUME NEW o \in Orders, plan' = o \/ subscription' = o
        PROVE  plan = o \/ order[o] \in Paid
    <3>1. CASE subscription' = o
      <4>1. req[p].kind \in {"paid", "renewed"} /\ req[p].order = o
        BY <1>11, <3>1, BillingAssumption DEF SetSubscription
      <4> QED
        BY <1>1, <1>11, <4>1 DEF SetSubscription, At, IInv, GivesWhatWasPaid, Gives, Paid
    <3>2. CASE plan' = o
      BY <1>11, <3>2 DEF SetSubscription
    <3> QED
      BY <2>2, <3>1, <3>2
  <2> QED
    BY <1>3, <1>n, <2>1, <2>2, RightsFollow
<1>12. CASE Clear(p)
  BY <1>4, <1>12 DEF Clear, Points
<1>13. CASE Mark(p) \/ Request(p)
  BY <1>4, <1>13 DEF Mark, Request, workspace
<1> QED
  BY <1>5, <1>6, <1>7, <1>8, <1>9, <1>10, <1>11, <1>12, <1>13 DEF Step

-----------------------------------------------------------------------------
(* The invariant *)

LEMMA IInvInit == Init => IInv
<1> SUFFICES ASSUME Init PROVE IInv
  OBVIOUS
<1>1. TypeOK
  BY TypeInit
<1>2. \A p \in Requests : ~Busy(p)
  BY DEF Init, Busy
<1>3. \A o \in Orders : plan # o /\ subscription # o
  BY BillingAssumption DEF Init
<1> QED
  BY <1>1, <1>2, <1>3
     DEF IInv, Handling, OneHandler, GivesWhatWasPaid, RightsWerePaid, Busy

LEMMA IInvStep == IInv /\ [Next]_vars => IInv'
<1> SUFFICES ASSUME IInv, [Next]_vars PROVE Handled' /\ Rights'
  BY TypeStep DEF IInv, Handled, Rights
<1>t. TypeOK
  BY DEF IInv
<1>1. ASSUME NEW o \in Orders,
             Checkout(o) \/ CancelOrder(o) \/ ExpireOrder(o) \/ Pay(o)
      PROVE  Handled' /\ Rights'
  <2>1. UNCHANGED <<plan, subscription, event, req>>
    BY <1>1 DEF Checkout, CancelOrder, ExpireOrder, Pay, workspace
  <2>2. Handled'
    BY <2>1 DEF IInv, Handled, Handling, OneHandler, Busy, EventOf
  <2>3. Rights'
    BY <2>1, RightsFollow DEF Busy, Gives
  <2> QED
    BY <2>2, <2>3
<1>2. ASSUME NEW p \in Requests, NEW e \in Events, Receive(p, e)
      PROVE  Handled' /\ Rights'
  <2>1. /\ UNCHANGED <<plan, subscription>>
        /\ req'[p].at \notin {"plan", "subscription"}
        /\ \A q \in Requests \ {p} : req'[q] = req[q]
    BY <1>t, <1>2 DEF Receive, TypeOK, workspace
  <2>2. Rights'
    BY <2>1, RightsFollow DEF Busy, Gives
  <2> QED
    BY <1>2, <2>2, HandledReceive
<1>3. ASSUME NEW p \in Requests, Fail(p) \/ Crash(p)
      PROVE  Handled' /\ Rights'
  <2>1. Busy(p) /\ Finish(p) /\ UNCHANGED <<plan, subscription>>
    BY <1>3 DEF Fail, Crash, Busy, workspace
  <2>2. \/ UNCHANGED event
        \/ /\ req[p].kind \in Kinds
           /\ \E s : event' = [event EXCEPT ![EventOf(req[p])] = s]
    BY <1>t, <1>3, <2>1, BusyType DEF Fail, Crash
  <2>3. req'[p] = Idle /\ \A q \in Requests \ {p} : req'[q] = req[q]
    BY <1>t, <2>1, FinishType
  <2>4. Rights'
    BY <2>1, <2>3, RightsFollow DEF Busy, Gives
  <2> QED
    BY <2>1, <2>2, <2>4, HandledEnds
<1>4. ASSUME NEW p \in Requests, NEW kind \in Cancels, Cancel(p, kind)
      PROVE  Handled' /\ Rights'
  <2>1. /\ UNCHANGED <<plan, subscription>>
        /\ req'[p].kind = kind
        /\ \A q \in Requests \ {p} : req'[q] = req[q]
    BY <1>t, <1>4 DEF Cancel, TypeOK, workspace
  <2>2. Rights'
    BY <2>1, RightsFollow DEF Busy, Gives, Cancels
  <2> QED
    BY <1>4, <2>2, HandledCancel
<1>5. CASE PeriodEnds \/ ExpireWorkspace \/ UNCHANGED vars
  <2>1. /\ UNCHANGED <<subscription, event, req>>
        /\ plan' \in {plan, "free"}
    BY <1>5 DEF PeriodEnds, ExpireWorkspace, vars
  <2>2. Handled'
    BY <2>1 DEF IInv, Handled, Handling, OneHandler, Busy, EventOf
  <2>3. \A o \in Orders : plan' = o => plan = o
    BY <2>1, BillingAssumption
  <2>4. Rights'
    BY <2>1, <2>3, RightsFollow DEF Busy, Gives
  <2> QED
    BY <2>2, <2>4
<1> QED
  BY <1>1, <1>2, <1>3, <1>4, <1>5, HandledStep, RightsStep DEF Next

\* The invariant behind the other theorems holds under any deliveries, failures
\* and crashes (billing/app/service.go).
THEOREM InvariantHolds == Spec => []IInv
  BY IInvInit, IInvStep, PTL DEF Spec

\* The orders, the workspace, the events and the requests stay in their types:
\* every statement a handler reaches finds the order it writes.
THEOREM TypeCorrect == Spec => []TypeOK
  BY InvariantHolds, PTL DEF IInv

\* No two requests handle one event, for any number of requests and deliveries:
\* the row of an event that is being handled says "received", which is what
\* InsertPaymentEvent does not take (HandleWebhook).
THEOREM HandledOnce == Spec => []OneHandler
  BY InvariantHolds, PTL DEF IInv

\* A workspace has only rights that were paid for, whatever handlers interleave
\* with each other, with users, administrators and the sweepers: who writes the
\* plan or the subscription of an order has seen it paid, and a paid order is
\* never again anything but paid or refunded (handlePaid, handleRenewal).
THEOREM OnlyPaidRights == Spec => []RightsWerePaid
  BY InvariantHolds, PTL DEF IInv

\* No late, repeated or concurrent event moves an order that was canceled by a
\* person, failed or was refunded (UpdateOrderStatus, ReviveOrderAfterExpiry,
\* FailOrder).
THEOREM Final == Spec => FinalStaysFinal
<1>1. IInv /\ [Next]_vars =>
        [\A o \in Orders : order[o] \in {"canceled", "failed", "refunded"}
                              => order'[o] = order[o]]_vars
  BY OrderStep
<1> QED
  BY <1>1, InvariantHolds, PTL DEF Spec, FinalStaysFinal
=============================================================================
