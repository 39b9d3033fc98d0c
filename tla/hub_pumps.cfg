SPECIFICATION Spec

CONSTANTS
    Clients = {c1, c2}
    Topics = {t1}
    UserRoom = u
    Broadcasters = {b1}
    Events = {e1}
    SendBuffer = 1
    DedupDepth = 1
    b1 = b1
    c1 = c1
    c2 = c2
    e1 = e1
    t1 = t1
    u = u

INVARIANTS
    ConnsCounted
    CallbacksBalance
    OneCopyPerEvent
    RememberedIsQueued

SYMMETRY ClientSymmetry

CHECK_DEADLOCK FALSE
