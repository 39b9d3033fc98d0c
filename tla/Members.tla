------------------------------ MODULE Members ------------------------------
(***************************************************************************)
(* The members of one workspace (workspace/): roles, removal and leaving,  *)
(* transfer of ownership, invitations, share links, and the deletion of    *)
(* the workspace, as PostgreSQL runs them at READ COMMITTED.               *)
(*                                                                         *)
(* Requests run concurrently.  An UPDATE that waited for a row lock        *)
(* evaluates its condition again on the new version of the row, while a    *)
(* sub-select in it still reads the snapshot the statement began with.  A  *)
(* statement is therefore one step when its condition is about its own row *)
(* and two, the snapshot and the write, when it has a sub-select.  A       *)
(* transaction commits with its last write; what it locked before is kept  *)
(* in its request.                                                         *)
(*                                                                         *)
(* Who may ask for what is left open: an administrator of the platform may *)
(* ask for anything.  "member" stands for both roles that can be assigned. *)
(***************************************************************************)
EXTENDS Integers, FiniteSets

CONSTANTS
    Users,
    Founder,        \* created the workspace and is its owner
    Requests,       \* requests served at the same time
    Invitations,    \* rows of workspace_invitation; each is made once
    Links,          \* rows of workspace_share_link; each is made once
    MaxUses         \* workspace_share_link.max_uses

ASSUME MembersAssumption ==
    /\ Founder \in Users
    /\ Invitations \cap Links = {}
    /\ MaxUses \in Nat \ {0}

VARIABLES
    alive,          \* whether the row of the workspace exists
    member,         \* the role of the active row of each user, or "none"
    row,            \* how many rows of member each user has had
    invitation,     \* status, the user of its email, whether it has expired
    link,           \* status and uses
    req,            \* what each request is doing
    entries         \* history: rows inserted for each invitation and link

vars == <<alive, member, row, invitation, link, req, entries>>

-----------------------------------------------------------------------------
(* Rows, requests and locks *)

Roles == {"owner", "member"}
Active == {u \in Users : member[u] # "none"}
Owners == {u \in Users : member[u] = "owner"}

InvitationRows ==
    [status: {"none", "pending", "accepted", "declined", "revoked"},
     user: Users, expired: BOOLEAN]
LinkRows == [status: {"none", "live", "gone"}, uses: Nat]

Idle == [op |-> "none"]
RequestStates ==
    {Idle, [op |-> "delete"]}
    \cup [op: {"role", "remove"}, user: Users, row: Nat, others: BOOLEAN]
    \cup [op: {"promote", "demote"}, from: Users, to: Users]
    \cup [op: {"accept"}, id: Invitations, user: Users, already: BOOLEAN]
    \cup [op: {"redeem"}, id: Links, user: Users, already: BOOLEAN]

\* The locks that outlast a statement: the promoted row, the invitation, the
\* link, and the row of the workspace that is being deleted.
MemberLocked(u) == \E q \in Requests : req[q].op = "demote" /\ req[q].to = u
Locked(id) ==
    \E q \in Requests : req[q].op \in {"accept", "redeem"} /\ req[q].id = id
Deleting == \E q \in Requests : req[q].op = "delete"

Begin(p, r) == req[p] = Idle /\ req' = [req EXCEPT ![p] = r]
End(p) == req' = [req EXCEPT ![p] = Idle]

Init ==
    /\ alive = TRUE
    /\ member = [u \in Users |-> IF u = Founder THEN "owner" ELSE "none"]
    /\ row = [u \in Users |-> IF u = Founder THEN 1 ELSE 0]
    /\ invitation = [i \in Invitations |->
                       [status |-> "none", user |-> Founder, expired |-> FALSE]]
    /\ link = [l \in Links |-> [status |-> "none", uses |-> 0]]
    /\ req = [p \in Requests |-> Idle]
    /\ entries = [x \in Invitations \cup Links |-> 0]

-----------------------------------------------------------------------------
(* UpdateMemberRole, RemoveMember and Leave *)

\* lastOwnerGuardSQL on the current version of the row of u; others is the
\* sub-select, from the snapshot.
LastOwnerGuard(u, others) == member[u] = "owner" => others

OtherOwners(u) == Owners \ {u} # {}

\* The checks of the service, and the snapshot of the UPDATE.
Update(p, op, u) ==
    /\ u \in Active /\ LastOwnerGuard(u, OtherOwners(u))
    /\ Begin(p, [op |-> op, user |-> u, row |-> row[u], others |-> OtherOwners(u)])
    /\ UNCHANGED <<alive, member, row, invitation, link, entries>>

\* The write, once nobody else holds the row; the row of a user who was removed
\* and came back is another one.
Updated(p) ==
    LET r == req[p] IN
    /\ r.op \in {"role", "remove"} /\ ~MemberLocked(r.user)
    /\ member' = IF r.user \in Active /\ row[r.user] = r.row
                    /\ LastOwnerGuard(r.user, r.others)
                 THEN [member EXCEPT ![r.user] =
                         IF r.op = "role" THEN "member" ELSE "none"]
                 ELSE member
    /\ End(p)
    /\ UNCHANGED <<alive, row, invitation, link, entries>>

-----------------------------------------------------------------------------
(* TransferOwnership *)

\* The reads before the transaction, and the hook BeforeOwnerChange after them.
Transfer(p, from, to) ==
    /\ member[from] = "owner" /\ member[to] = "member"
    /\ Begin(p, [op |-> "promote", from |-> from, to |-> to])
    /\ UNCHANGED <<alive, member, row, invitation, link, entries>>

\* Mutant: a promotion that finds no row is tried again.
PromoteAgain(p) ==
    LET r == req[p] IN
    /\ r.op = "promote" /\ ~MemberLocked(r.to) /\ member[r.to] = "member"
    /\ req' = [req EXCEPT ![p].op = "demote"]
    /\ UNCHANGED <<alive, member, row, invitation, link, entries>>

\* The first UPDATE; no row is ErrNotFound.
Promote(p) ==
    LET r == req[p] IN
    /\ r.op = "promote" /\ ~MemberLocked(r.to)
    /\ IF member[r.to] = "member"
       THEN req' = [req EXCEPT ![p].op = "demote"]
       ELSE End(p)
    /\ UNCHANGED <<alive, member, row, invitation, link, entries>>

\* Mutant: the second UPDATE does not ask for an owner.
DemoteAnyone(p) ==
    LET r == req[p] IN
    /\ r.op = "demote" /\ ~MemberLocked(r.from)
    /\ member' = IF member[r.from] # "none"
                 THEN [member EXCEPT ![r.from] = "member", ![r.to] = "owner"]
                 ELSE member
    /\ End(p)
    /\ UNCHANGED <<alive, row, invitation, link, entries>>

\* The second UPDATE and the commit of both; no row rolls both back.
Demote(p) ==
    LET r == req[p] IN
    /\ r.op = "demote" /\ ~MemberLocked(r.from)
    /\ member' = IF member[r.from] = "owner"
                 THEN [member EXCEPT ![r.from] = "member", ![r.to] = "owner"]
                 ELSE member
    /\ End(p)
    /\ UNCHANGED <<alive, row, invitation, link, entries>>

-----------------------------------------------------------------------------
(* Invitations *)

\* A pending invitation bars another one, also when it has expired: the unique
\* index does not know of time.
Invite(i, u) ==
    /\ alive /\ ~Deleting
    /\ invitation[i].status = "none" /\ u \notin Active
    /\ \A j \in Invitations :
          ~(invitation[j].status = "pending" /\ invitation[j].user = u)
    /\ invitation' = [invitation EXCEPT ![i] =
                        [status |-> "pending", user |-> u, expired |-> FALSE]]
    /\ UNCHANGED <<alive, member, row, link, req, entries>>

Expire(i) ==
    /\ invitation[i].status = "pending" /\ ~invitation[i].expired
    /\ invitation' = [invitation EXCEPT ![i].expired = TRUE]
    /\ UNCHANGED <<alive, member, row, link, req, entries>>

\* RevokeInvitation and DeclineInvitation.
Answer(i, answer) ==
    /\ invitation[i].status = "pending" /\ ~Locked(i)
    /\ invitation' = [invitation EXCEPT ![i].status = answer]
    /\ UNCHANGED <<alive, member, row, link, req, entries>>

\* The UPDATE of the invitation and the look at member.
Accept(p, i) ==
    LET u == invitation[i].user IN
    /\ invitation[i].status = "pending" /\ ~invitation[i].expired /\ ~Locked(i)
    /\ Begin(p, [op |-> "accept", id |-> i, user |-> u, already |-> u \in Active])
    /\ UNCHANGED <<alive, member, row, invitation, link, entries>>

\* A row of u inserted on account of x.
Inserted(u, x) ==
    /\ member' = [member EXCEPT ![u] = "member"]
    /\ row' = [row EXCEPT ![u] = @ + 1]
    /\ entries' = [entries EXCEPT ![x] = @ + 1]

\* The INSERT and the commit; if u joined in between, the unique index rolls the
\* transaction back and the invitation stays pending.
Accepted(p) ==
    LET r == req[p] IN
    /\ r.op = "accept"
    /\ \/ /\ r.already
          /\ invitation' = [invitation EXCEPT ![r.id].status = "accepted"]
          /\ UNCHANGED <<member, row, entries>>
       \/ /\ ~r.already /\ ~Deleting /\ r.user \notin Active
          /\ invitation' = [invitation EXCEPT ![r.id].status = "accepted"]
          /\ Inserted(r.user, r.id)
       \/ /\ ~r.already /\ ~Deleting /\ r.user \in Active
          /\ UNCHANGED <<member, row, invitation, entries>>
    /\ End(p)
    /\ UNCHANGED <<alive, link>>

-----------------------------------------------------------------------------
(* Share links *)

CreateLink(l) ==
    /\ alive /\ ~Deleting /\ link[l].status = "none"
    /\ link' = [link EXCEPT ![l].status = "live"]
    /\ UNCHANGED <<alive, member, row, invitation, req, entries>>

\* RevokeShareLink waits for a redemption; the end of the link's time does not.
CloseLink(l) ==
    /\ link[l].status = "live"
    /\ link' = [link EXCEPT ![l].status = "gone"]
    /\ UNCHANGED <<alive, member, row, invitation, req, entries>>

\* Mutant: the link is read without FOR UPDATE.
RedeemUnlocked(p, l, u) ==
    /\ link[l].status = "live" /\ link[l].uses < MaxUses
    /\ Begin(p, [op |-> "redeem", id |-> l, user |-> u, already |-> u \in Active])
    /\ UNCHANGED <<alive, member, row, invitation, link, entries>>

\* SELECT ... FOR UPDATE of the link and the look at member.
Redeem(p, l, u) ==
    /\ link[l].status = "live" /\ link[l].uses < MaxUses /\ ~Locked(l)
    /\ Begin(p, [op |-> "redeem", id |-> l, user |-> u, already |-> u \in Active])
    /\ UNCHANGED <<alive, member, row, invitation, link, entries>>

\* A use is counted; the row is inserted unless u joined in between.
Redeemed(p) ==
    LET r == req[p] IN
    /\ r.op = "redeem"
    /\ \/ /\ r.already
          /\ UNCHANGED <<member, row, link, entries>>
       \/ /\ ~r.already /\ ~Deleting
          /\ link' = [link EXCEPT ![r.id].uses = @ + 1]
          /\ IF r.user \in Active THEN UNCHANGED <<member, row, entries>>
                                  ELSE Inserted(r.user, r.id)
    /\ End(p)
    /\ UNCHANGED <<alive, invitation>>

-----------------------------------------------------------------------------
(* DeleteWorkspace, and failures *)

\* DELETE takes the row of the workspace first.
Delete(p) ==
    /\ alive /\ ~Deleting
    /\ Begin(p, [op |-> "delete"])
    /\ UNCHANGED <<alive, member, row, invitation, link, entries>>

\* Then the rows that refer to it, which may be locked, and commits.
Cascade(p) ==
    /\ req[p].op = "delete"
    /\ \A q \in Requests : req[q].op \notin {"accept", "redeem", "demote"}
    /\ alive' = FALSE
    /\ member' = [u \in Users |-> "none"]
    /\ invitation' = [i \in Invitations |-> [invitation[i] EXCEPT !.status =
                        IF @ = "pending" THEN "revoked" ELSE @]]
    /\ link' = [l \in Links |-> [link[l] EXCEPT !.status = "gone"]]
    /\ End(p)
    /\ UNCHANGED <<row, entries>>

\* A transaction fails: the user is disabled, a hook refuses, the connection is
\* lost, or PostgreSQL breaks a deadlock.
Rollback(p) ==
    /\ req[p].op \in {"promote", "demote", "accept", "redeem", "delete"}
    /\ End(p)
    /\ UNCHANGED <<alive, member, row, invitation, link, entries>>

\* A join holds a row the deletion waits for, and waits for the workspace.
Deadlocked(p) ==
    /\ req[p].op \in {"accept", "redeem"} /\ ~req[p].already
    /\ Deleting

-----------------------------------------------------------------------------

Progress(p) ==
    \/ Updated(p) \/ Promote(p) \/ Demote(p)
    \/ Accepted(p) \/ Redeemed(p) \/ Cascade(p)

Next ==
    \/ \E p \in Requests :
          \/ \E u \in Users, op \in {"role", "remove"} : Update(p, op, u)
          \/ \E from, to \in Users : Transfer(p, from, to)
          \/ \E i \in Invitations : Accept(p, i)
          \/ \E l \in Links, u \in Users : Redeem(p, l, u)
          \/ Delete(p)
          \/ Progress(p)
          \/ Rollback(p)
    \/ \E i \in Invitations :
          \/ \E u \in Users : Invite(i, u)
          \/ Expire(i)
          \/ \E answer \in {"revoked", "declined"} : Answer(i, answer)
    \/ \E l \in Links : CreateLink(l) \/ CloseLink(l)

Spec == Init /\ [][Next]_vars

\* A request goes on when it can; row locks are granted in the order of arrival,
\* so that it can after some time, and PostgreSQL finds a deadlock in a second.
FairSpec ==
    /\ Spec
    /\ \A p \in Requests :
          SF_vars(Progress(p)) /\ WF_vars(Deadlocked(p) /\ Rollback(p))

-----------------------------------------------------------------------------
(* Properties *)

TypeOK ==
    /\ alive \in BOOLEAN
    /\ member \in [Users -> Roles \cup {"none"}]
    /\ row \in [Users -> Nat]
    /\ invitation \in [Invitations -> InvitationRows]
    /\ link \in [Links -> LinkRows]
    /\ req \in [Requests -> RequestStates]
    /\ entries \in [Invitations \cup Links -> Nat]

\* Transfers that started from the same owner, or from one who has passed the
\* workspace on and got it back, never leave two owners behind.
AtMostOneOwner == Cardinality(Owners) <= 1

\* Nobody is a member on account of an invitation that was revoked or declined,
\* or twice on account of one, and a link lets in no more people than it has
\* uses, however many redeem it at once and come in another way meanwhile.
EntriesAuthorized ==
    /\ \A i \in Invitations :
          entries[i] <= 1 /\ (entries[i] = 1 => invitation[i].status = "accepted")
    /\ \A l \in Links : entries[l] <= link[l].uses /\ link[l].uses <= MaxUses

\* Every request ends, also one that joins a workspace that is being deleted.
RequestsReturn == \A p \in Requests : req[p] # Idle ~> req[p] = Idle

\* workspace/app/ports.go:95, ErrLastOwner: "last active owner protected".  A
\* workspace that exists has an owner.
HasOwner == alive => Owners # {}

=============================================================================
