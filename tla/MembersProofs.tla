--------------------------- MODULE MembersProofs ---------------------------
(***************************************************************************)
(* Proofs about Members, for any users, requests, invitations and links.   *)
(***************************************************************************)
EXTENDS Members, FiniteSetTheorems, TLAPS

-----------------------------------------------------------------------------
(* Types *)

\* The operation of a request determines the fields it has.
LEMMA RequestType ==
    ASSUME TypeOK, NEW p \in Requests
    PROVE  /\ req[p].op \in {"role", "remove"} =>
                /\ req[p].user \in Users /\ req[p].row \in Nat
                /\ req[p].others \in BOOLEAN
           /\ req[p].op \in {"promote", "demote"} =>
                req[p] \in [op: {"promote", "demote"}, from: Users, to: Users]
           /\ req[p].op = "accept" =>
                /\ req[p].id \in Invitations /\ req[p].user \in Users
           /\ req[p].op = "redeem" =>
                /\ req[p].id \in Links /\ req[p].user \in Users
<1>1. req[p] \in RequestStates
  BY DEF TypeOK
<1> QED
  BY <1>1 DEF RequestStates, Idle

\* A request that begins or ends keeps the type of req.
LEMMA ReqTypes ==
    ASSUME TypeOK, NEW p \in Requests
    PROVE  /\ End(p) => req' \in [Requests -> RequestStates]
           /\ \A r \in RequestStates :
                Begin(p, r) => req' \in [Requests -> RequestStates]
<1>1. Idle \in RequestStates
  BY DEF RequestStates
<1> QED
  BY <1>1 DEF TypeOK, End, Begin

\* The invariant of type speaks of the variables one by one.
LEMMA TypeStep == TypeOK /\ [Next]_vars => TypeOK'
<1> SUFFICES ASSUME TypeOK, [Next]_vars PROVE TypeOK'
  OBVIOUS
<1>1. ASSUME NEW p \in Requests, NEW u \in Users, NEW op \in {"role", "remove"},
             Update(p, op, u)
      PROVE  TypeOK'
  <2>1. OtherOwners(u) \in BOOLEAN /\ row[u] \in Nat
    BY DEF OtherOwners, TypeOK
  <2>2. [op |-> op, user |-> u, row |-> row[u], others |-> OtherOwners(u)]
          \in RequestStates
    BY <2>1 DEF RequestStates
  <2> QED
    BY <1>1, <2>2, ReqTypes DEF Update, TypeOK
<1>2. ASSUME NEW p \in Requests, NEW from \in Users, NEW to \in Users,
             Transfer(p, from, to)
      PROVE  TypeOK'
  <2>1. [op |-> "promote", from |-> from, to |-> to] \in RequestStates
    BY DEF RequestStates
  <2> QED
    BY <1>2, <2>1, ReqTypes DEF Transfer, TypeOK
<1>3. ASSUME NEW p \in Requests, NEW i \in Invitations, Accept(p, i)
      PROVE  TypeOK'
  <2>1. invitation[i].user \in Users
    BY DEF TypeOK, InvitationRows
  <2>2. [op |-> "accept", id |-> i, user |-> invitation[i].user,
         already |-> invitation[i].user \in Active] \in RequestStates
    BY <2>1 DEF RequestStates
  <2> QED
    BY <1>3, <2>2, ReqTypes DEF Accept, TypeOK
<1>4. ASSUME NEW p \in Requests, NEW l \in Links, NEW u \in Users,
             Redeem(p, l, u)
      PROVE  TypeOK'
  <2>1. [op |-> "redeem", id |-> l, user |-> u, already |-> u \in Active]
          \in RequestStates
    BY DEF RequestStates
  <2> QED
    BY <1>4, <2>1, ReqTypes DEF Redeem, TypeOK
<1>5. ASSUME NEW p \in Requests, Delete(p)
      PROVE  TypeOK'
  <2>1. [op |-> "delete"] \in RequestStates
    BY DEF RequestStates
  <2> QED
    BY <1>5, <2>1, ReqTypes DEF Delete, TypeOK
<1>6. ASSUME NEW p \in Requests, Updated(p)
      PROVE  TypeOK'
  BY <1>6, ReqTypes DEF Updated, TypeOK, Roles
<1>7. ASSUME NEW p \in Requests, Promote(p)
      PROVE  TypeOK'
  <2>1. CASE member[req[p].to] = "member"
    <3>1. [req[p] EXCEPT !.op = "demote"] \in RequestStates
      BY <1>7, RequestType DEF Promote, RequestStates
    <3>2. req' = [req EXCEPT ![p] = [req[p] EXCEPT !.op = "demote"]]
      BY <1>7, <2>1 DEF Promote, TypeOK
    <3> QED
      BY <1>7, <3>1, <3>2 DEF Promote, TypeOK
  <2>2. CASE member[req[p].to] # "member"
    BY <1>7, <2>2, ReqTypes DEF Promote, TypeOK
  <2> QED
    BY <2>1, <2>2
<1>8. ASSUME NEW p \in Requests, Demote(p)
      PROVE  TypeOK'
  BY <1>8, ReqTypes DEF Demote, TypeOK, Roles
<1>9. ASSUME NEW p \in Requests, Accepted(p)
      PROVE  TypeOK'
  <2>1. req[p].id \in Invitations /\ req[p].user \in Users
    BY <1>9, RequestType DEF Accepted
  <2>2. invitation' \in [Invitations -> InvitationRows]
    BY <1>9, <2>1 DEF Accepted, TypeOK, InvitationRows
  <2> QED
    BY <1>9, <2>1, <2>2, ReqTypes DEF Accepted, Inserted, TypeOK, Roles
<1>10. ASSUME NEW p \in Requests, Redeemed(p)
       PROVE  TypeOK'
  <2>1. req[p].id \in Links /\ req[p].user \in Users
    BY <1>10, RequestType DEF Redeemed
  <2>2. link' \in [Links -> LinkRows]
    BY <1>10, <2>1 DEF Redeemed, TypeOK, LinkRows
  <2> QED
    BY <1>10, <2>1, <2>2, ReqTypes DEF Redeemed, Inserted, TypeOK, Roles
<1>11. ASSUME NEW p \in Requests, Cascade(p)
       PROVE  TypeOK'
  <2>1. invitation' \in [Invitations -> InvitationRows]
    BY <1>11 DEF Cascade, TypeOK, InvitationRows
  <2>2. link' \in [Links -> LinkRows]
    BY <1>11 DEF Cascade, TypeOK, LinkRows
  <2> QED
    BY <1>11, <2>1, <2>2, ReqTypes DEF Cascade, TypeOK, Roles
<1>12. ASSUME NEW p \in Requests, Rollback(p)
       PROVE  TypeOK'
  BY <1>12, ReqTypes DEF Rollback, TypeOK
<1>13. ASSUME NEW i \in Invitations, NEW u \in Users, Invite(i, u)
       PROVE  TypeOK'
  <2>1. [status |-> "pending", user |-> u, expired |-> FALSE] \in InvitationRows
    BY DEF InvitationRows
  <2> QED
    BY <1>13, <2>1 DEF Invite, TypeOK
<1>14. ASSUME NEW i \in Invitations, Expire(i)
       PROVE  TypeOK'
  BY <1>14 DEF Expire, TypeOK, InvitationRows
<1>15. ASSUME NEW i \in Invitations, NEW answer \in {"revoked", "declined"},
              Answer(i, answer)
       PROVE  TypeOK'
  BY <1>15 DEF Answer, TypeOK, InvitationRows
<1>16. ASSUME NEW l \in Links, CreateLink(l) \/ CloseLink(l)
       PROVE  TypeOK'
  BY <1>16 DEF CreateLink, CloseLink, TypeOK, LinkRows
<1>17. CASE UNCHANGED vars
  BY <1>17 DEF vars, TypeOK
<1> QED
  BY <1>1, <1>2, <1>3, <1>4, <1>5, <1>6, <1>7, <1>8, <1>9, <1>10, <1>11,
     <1>12, <1>13, <1>14, <1>15, <1>16, <1>17 DEF Next, Progress

LEMMA TypeInit == Init => TypeOK
  BY MembersAssumption DEF Init, TypeOK, Roles, InvitationRows, LinkRows,
     RequestStates

\* Rows, requests and histories keep their types.
THEOREM TypeCorrect == Spec => []TypeOK
  BY TypeInit, TypeStep, PTL DEF Spec

-----------------------------------------------------------------------------
(* Ownership *)

\* What AtMostOneOwner says without counting.
SoleOwner ==
    \A u, v \in Users : member[u] = "owner" /\ member[v] = "owner" => u = v

LEMMA SoleOwnerCounts == SoleOwner => AtMostOneOwner
<1> SUFFICES ASSUME SoleOwner PROVE Cardinality(Owners) <= 1
  BY DEF AtMostOneOwner
<1>1. CASE Owners = {}
  BY <1>1, FS_EmptySet
<1>2. CASE Owners # {}
  <2>1. PICK u \in Users : Owners = {u}
    BY <1>2 DEF Owners, SoleOwner
  <2> QED
    BY <2>1, FS_Singleton
<1> QED
  BY <1>1, <1>2

\* Only the second UPDATE of a transfer makes an owner, of the user it promotes,
\* and it takes the role from the only one there was.
LEMMA SoleOwnerStep == TypeOK /\ SoleOwner /\ [Next]_vars => SoleOwner'
<1> SUFFICES ASSUME TypeOK, SoleOwner, [Next]_vars PROVE SoleOwner'
  OBVIOUS
<1>1. ASSUME \A u \in Users : member'[u] = "owner" => member[u] = "owner"
      PROVE  SoleOwner'
  BY <1>1 DEF SoleOwner
<1>2. ASSUME NEW p \in Requests, Demote(p)
      PROVE  SoleOwner'
  <2>1. CASE member[req[p].from] = "owner"
    <3>1. /\ req[p].from \in Users /\ req[p].to \in Users
          /\ member' = [member EXCEPT ![req[p].from] = "member",
                                      ![req[p].to] = "owner"]
      BY <1>2, <2>1, RequestType DEF Demote
    <3>2. \A u \in Users : member'[u] = "owner" => u = req[p].to
      BY <2>1, <3>1 DEF TypeOK, SoleOwner
    <3> QED
      BY <3>2 DEF SoleOwner
  <2>2. CASE member[req[p].from] # "owner"
    BY <1>2, <2>2 DEF Demote, SoleOwner
  <2> QED
    BY <2>1, <2>2
<1>3. ASSUME NEW p \in Requests,
             Updated(p) \/ Accepted(p) \/ Redeemed(p) \/ Cascade(p)
      PROVE  SoleOwner'
  <2>1. \A u \in Users : member'[u] = "owner" => member[u] = "owner"
    BY <1>3 DEF Updated, Accepted, Redeemed, Inserted, Cascade, TypeOK
  <2> QED
    BY <1>1, <2>1
<1>4. CASE UNCHANGED member
  BY <1>4 DEF SoleOwner
<1> QED
  BY <1>2, <1>3, <1>4
     DEF Next, Progress, vars, Update, Transfer, Promote, Invite, Expire, Answer,
         Accept, CreateLink, CloseLink, Redeem, Delete, Rollback

\* However transfers, removals, joins and the deletion interleave, a workspace
\* has at most one owner (TransferOwnershipTx, lastOwnerGuardSQL).
THEOREM OneOwner == Spec => []AtMostOneOwner
<1>1. Init => SoleOwner
  BY DEF Init, SoleOwner
<1>2. Spec => []SoleOwner
  BY <1>1, SoleOwnerStep, TypeCorrect, PTL DEF Spec
<1> QED
  BY <1>2, SoleOwnerCounts, PTL

-----------------------------------------------------------------------------
(* Invitations and links *)

\* What a request that joins has locked is as it found it, and locked by no
\* other: the invitation is pending, the link has a use left.
LocksHold ==
    \A p \in Requests :
        /\ req[p].op = "accept" => invitation[req[p].id].status = "pending"
        /\ req[p].op = "redeem" => link[req[p].id].uses < MaxUses
        /\ req[p].op \in {"accept", "redeem"} =>
             \A q \in Requests \ {p} :
                req[q].op \in {"accept", "redeem"} => req[q].id # req[p].id

\* EntriesAuthorized is not inductive alone: that the entry an acceptance adds is
\* the first, and that the link has room for it, is known from the lock.
Joins == TypeOK /\ LocksHold /\ EntriesAuthorized

LEMMA JoinsStep == Joins /\ TypeOK' /\ [Next]_vars => Joins'
<1> SUFFICES ASSUME TypeOK, LocksHold, EntriesAuthorized, [Next]_vars
             PROVE  LocksHold' /\ EntriesAuthorized'
  BY DEF Joins
<1>1. ASSUME NEW p \in Requests, NEW i \in Invitations, Accept(p, i)
      PROVE  LocksHold' /\ EntriesAuthorized'
  <2>1. /\ req'[p].op = "accept" /\ req'[p].id = i
        /\ \A q \in Requests \ {p} : req'[q] = req[q]
        /\ \A q \in Requests : req[q].op \in {"accept", "redeem"} => req[q].id # i
    BY <1>1 DEF Accept, Begin, Locked, TypeOK
  <2>2. UNCHANGED <<invitation, link, entries>>
    BY <1>1 DEF Accept
  <2>3. invitation[i].status = "pending"
    BY <1>1 DEF Accept
  <2> QED
    BY <2>1, <2>2, <2>3 DEF LocksHold, EntriesAuthorized
<1>2. ASSUME NEW p \in Requests, NEW l \in Links, NEW u \in Users,
             Redeem(p, l, u)
      PROVE  LocksHold' /\ EntriesAuthorized'
  <2>1. /\ req'[p].op = "redeem" /\ req'[p].id = l
        /\ \A q \in Requests \ {p} : req'[q] = req[q]
        /\ \A q \in Requests : req[q].op \in {"accept", "redeem"} => req[q].id # l
    BY <1>2 DEF Redeem, Begin, Locked, TypeOK
  <2>2. UNCHANGED <<invitation, link, entries>>
    BY <1>2 DEF Redeem
  <2>3. link[l].uses < MaxUses
    BY <1>2 DEF Redeem
  <2> QED
    BY <2>1, <2>2, <2>3 DEF LocksHold, EntriesAuthorized
<1>3. ASSUME NEW p \in Requests,
             \/ \E u \in Users, op \in {"role", "remove"} : Update(p, op, u)
             \/ \E from, to \in Users : Transfer(p, from, to)
             \/ Delete(p) \/ Updated(p) \/ Promote(p) \/ Demote(p) \/ Rollback(p)
      PROVE  LocksHold' /\ EntriesAuthorized'
  <2>1. /\ req'[p].op \notin {"accept", "redeem"}
        /\ \A q \in Requests \ {p} : req'[q] = req[q]
    BY <1>3, RequestType
       DEF Update, Transfer, Delete, Updated, Promote, Demote, Rollback,
           Begin, End, Idle, TypeOK
  <2>2. UNCHANGED <<invitation, link, entries>>
    BY <1>3 DEF Update, Transfer, Delete, Updated, Promote, Demote, Rollback
  <2> QED
    BY <2>1, <2>2 DEF LocksHold, EntriesAuthorized
<1>4. ASSUME NEW p \in Requests, Accepted(p)
      PROVE  LocksHold' /\ EntriesAuthorized'
  <2> DEFINE i == req[p].id
  <2>1. /\ i \in Invitations
        /\ invitation[i].status = "pending"
        /\ \A q \in Requests \ {p} :
              req[q].op \in {"accept", "redeem"} => req[q].id # i
    BY <1>4, RequestType DEF Accepted, LocksHold
  <2>2. /\ req'[p].op = "none"
        /\ \A q \in Requests \ {p} : req'[q] = req[q]
        /\ UNCHANGED link
    BY <1>4 DEF Accepted, End, Idle, TypeOK
  <2>3. \/ UNCHANGED <<invitation, entries>>
        \/ /\ invitation' = [invitation EXCEPT ![i].status = "accepted"]
           /\ \/ UNCHANGED entries
              \/ entries' = [entries EXCEPT ![i] = @ + 1]
    BY <1>4 DEF Accepted, Inserted
  <2>4. entries[i] = 0
    BY <2>1 DEF EntriesAuthorized, TypeOK
  <2>5. LocksHold'
    <3>1. ASSUME NEW q \in Requests, req'[q].op = "accept"
          PROVE  invitation'[req'[q].id].status = "pending"
      <4>1. q # p /\ req'[q] = req[q]
        BY <2>2, <3>1
      <4>2. req[q].id \in Invitations \ {i}
        BY <2>1, <3>1, <4>1, RequestType
      <4> QED
        BY <2>3, <3>1, <4>1, <4>2 DEF LocksHold, TypeOK
    <3> QED
      BY <2>2, <3>1 DEF LocksHold
  <2>6. \A x \in Invitations :
           entries'[x] <= 1 /\ (entries'[x] = 1 => invitation'[x].status = "accepted")
    <3>1. /\ \A x \in Invitations \ {i} : /\ invitation'[x] = invitation[x]
                                          /\ entries'[x] = entries[x]
          /\ \/ entries'[i] = 0
             \/ entries'[i] = 1 /\ invitation'[i].status = "accepted"
      BY <2>1, <2>3, <2>4 DEF TypeOK, InvitationRows
    <3> QED
      BY <2>1, <3>1 DEF EntriesAuthorized
  <2>7. \A l \in Links : entries'[l] = entries[l]
    BY <2>1, <2>3, MembersAssumption DEF TypeOK
  <2> QED
    BY <2>2, <2>5, <2>6, <2>7 DEF EntriesAuthorized
<1>5. ASSUME NEW p \in Requests, Redeemed(p)
      PROVE  LocksHold' /\ EntriesAuthorized'
  <2> DEFINE l == req[p].id
  <2>1. /\ l \in Links
        /\ link[l].uses < MaxUses
        /\ \A q \in Requests \ {p} :
              req[q].op \in {"accept", "redeem"} => req[q].id # l
    BY <1>5, RequestType DEF Redeemed, LocksHold
  <2>2. /\ req'[p].op = "none"
        /\ \A q \in Requests \ {p} : req'[q] = req[q]
        /\ UNCHANGED invitation
    BY <1>5 DEF Redeemed, End, Idle, TypeOK
  <2>3. \/ UNCHANGED <<link, entries>>
        \/ /\ link' = [link EXCEPT ![l].uses = @ + 1]
           /\ \/ UNCHANGED entries
              \/ entries' = [entries EXCEPT ![l] = @ + 1]
    BY <1>5 DEF Redeemed, Inserted
  <2>4. \A k \in Links \ {l} : link'[k] = link[k] /\ entries'[k] = entries[k]
    BY <2>1, <2>3 DEF TypeOK
  <2>5. /\ entries'[l] <= link'[l].uses
        /\ link'[l].uses <= MaxUses
    BY <2>1, <2>3, MembersAssumption DEF EntriesAuthorized, TypeOK, LinkRows
  <2>6. LocksHold'
    <3>1. ASSUME NEW q \in Requests, req'[q].op = "redeem"
          PROVE  link'[req'[q].id].uses < MaxUses
      <4>1. q # p /\ req'[q] = req[q]
        BY <2>2, <3>1
      <4>2. req[q].id \in Links \ {l}
        BY <2>1, <3>1, <4>1, RequestType
      <4> QED
        BY <2>4, <3>1, <4>1, <4>2 DEF LocksHold
    <3> QED
      BY <2>2, <3>1 DEF LocksHold
  <2>7. \A x \in Invitations : entries'[x] = entries[x]
    BY <2>1, <2>3, MembersAssumption DEF TypeOK
  <2> QED
    BY <2>2, <2>4, <2>5, <2>6, <2>7 DEF EntriesAuthorized
<1>6. ASSUME NEW p \in Requests, Cascade(p)
      PROVE  LocksHold' /\ EntriesAuthorized'
  <2>1. \A q \in Requests : req'[q].op \notin {"accept", "redeem"}
    BY <1>6 DEF Cascade, End, Idle, TypeOK
  <2>2. UNCHANGED entries
    BY <1>6 DEF Cascade
  <2>3. \A x \in Invitations :
           invitation[x].status = "accepted" => invitation'[x].status = "accepted"
    BY <1>6 DEF Cascade, TypeOK, InvitationRows
  <2>4. \A l \in Links : link'[l].uses = link[l].uses
    BY <1>6 DEF Cascade, TypeOK, LinkRows
  <2> QED
    BY <2>1, <2>2, <2>3, <2>4 DEF LocksHold, EntriesAuthorized
<1>7. ASSUME NEW i \in Invitations,
             \/ \E u \in Users : Invite(i, u)
             \/ Expire(i)
             \/ \E answer \in {"revoked", "declined"} : Answer(i, answer)
      PROVE  LocksHold' /\ EntriesAuthorized'
  <2>1. UNCHANGED <<req, link, entries>>
    BY <1>7 DEF Invite, Expire, Answer
  <2>2. /\ \A x \in Invitations \ {i} : invitation'[x] = invitation[x]
        /\ invitation[i].status \in {"none", "pending"}
        /\ invitation'[i].status = "pending" \/ ~Locked(i)
    BY <1>7 DEF Invite, Expire, Answer, TypeOK, InvitationRows
  <2>3. entries[i] # 1
    BY <2>2 DEF EntriesAuthorized
  <2>4. LocksHold'
    <3>1. ASSUME NEW q \in Requests, req[q].op = "accept"
          PROVE  invitation'[req[q].id].status = "pending"
      <4>1. req[q].id \in Invitations
        BY <3>1, RequestType
      <4> QED
        BY <2>2, <3>1, <4>1 DEF LocksHold, Locked
    <3> QED
      BY <2>1, <3>1 DEF LocksHold
  <2> QED
    BY <2>1, <2>2, <2>3, <2>4 DEF EntriesAuthorized
<1>8. ASSUME NEW l \in Links, CreateLink(l) \/ CloseLink(l)
      PROVE  LocksHold' /\ EntriesAuthorized'
  <2>1. UNCHANGED <<req, invitation, entries>>
    BY <1>8 DEF CreateLink, CloseLink
  <2>2. \A k \in Links : link'[k].uses = link[k].uses
    BY <1>8 DEF CreateLink, CloseLink, TypeOK, LinkRows
  <2> QED
    BY <2>1, <2>2, RequestType DEF LocksHold, EntriesAuthorized
<1>9. CASE UNCHANGED vars
  BY <1>9 DEF vars, LocksHold, EntriesAuthorized
<1> QED
  BY <1>1, <1>2, <1>3, <1>4, <1>5, <1>6, <1>7, <1>8, <1>9 DEF Next, Progress

LEMMA JoinsInit == Init => Joins
  BY TypeInit, MembersAssumption DEF Init, Joins, LocksHold, EntriesAuthorized, Idle

\* Nobody joins by an invitation that was not accepted or by one that was used,
\* and a link lets in no more than max_uses, for any number of requests
\* (AcceptInvitationTx, RedeemShareLinkTx).
THEOREM JoinsAuthorized == Spec => []EntriesAuthorized
<1>1. Spec => []Joins
  BY JoinsInit, JoinsStep, TypeCorrect, PTL DEF Spec
<1> QED
  BY <1>1, PTL DEF Joins
=============================================================================
