SPECIFICATION Spec

CONSTANTS
    Accounts = {a1}
    Clients = {c1, c2}
    ResKeys = {k1, k2}
    ConsumeKeys = {i1}
    CallKeys = {x1, x2}
    Refs = {}
    NoKey = NoKey
    Limits = {1, 2}
    Modes = {"hard"}
    Unlimited = 9
    MaxAmount = 2
    MaxUsed = 1
    ConsumeAmounts = {1}
    ReserveAmounts = {2}
    SettleAmounts = {1}
    ReleaseAmounts = {0, 1, 2}
    RefundAmounts = {2}
    GrantAmounts = {}
    TTLs = {0}
    Batch = 2
    MaxTime = 1
    a1 = a1
    c1 = c1
    c2 = c2
    i1 = i1
    k1 = k1
    k2 = k2
    x1 = x1
    x2 = x2
    Calendar <- TwoMonths

SYMMETRY KeySymmetry

INVARIANTS
    TypeOK
    ReadsAreCurrent
    ReservedIsOutstanding
    UsedIsLedger

PROPERTIES
    ClosedForGood
    ImplementsCapacity
