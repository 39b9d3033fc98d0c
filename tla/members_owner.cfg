SPECIFICATION Spec

CONSTANTS
    Users = {u1, u2}
    Founder = u1
    Requests = {p1, p2}
    Invitations = {i1}
    Links = {l1}
    MaxUses = 1
    u1 = u1
    u2 = u2
    p1 = p1
    p2 = p2
    i1 = i1
    l1 = l1

INVARIANTS
    HasOwner

CHECK_DEADLOCK FALSE
