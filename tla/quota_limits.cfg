SPECIFICATION FairSpec

CONSTANTS
    Accounts = {a1}
    Clients = {c1, c2}
    ResKeys = {k1}
    ConsumeKeys = {}
    CallKeys = {x1}
    Refs = {r1}
    NoKey = NoKey
    Limits <- PlanLimits
    Modes = {"hard", "soft"}
    Unlimited = 2
    MaxAmount = 2
    MaxUsed = 1
    ConsumeAmounts = {1}
    ReserveAmounts = {1}
    SettleAmounts = {2}
    ReleaseAmounts = {}
    RefundAmounts = {}
    GrantAmounts = {1}
    TTLs = {0}
    Batch = 1
    MaxTime = 1
    a1 = a1
    c1 = c1
    c2 = c2
    k1 = k1
    r1 = r1
    x1 = x1
    Calendar <- TwoMonths

INVARIANTS
    NoOversell
    RefreshedOnce

PROPERTIES
    EventuallyClosed
    EventuallyRefreshed
