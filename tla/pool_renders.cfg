SPECIFICATION FairSpec

CONSTANTS
    Callers = {c1, c2}
    Impatient = {c1}
    Nobody = Nobody
    Size = 1
    MaxBuilt = 3
    MaxFaults = 2
    c1 = c1
    c2 = c2

INVARIANTS
    OneHolder
    CapacityKept

PROPERTIES
    AcceptedReturns
    HandedOver
    CloseReturns

CHECK_DEADLOCK FALSE
