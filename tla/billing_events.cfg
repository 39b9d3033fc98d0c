SPECIFICATION FairSpec

CONSTANTS
    a = a
    Orders = {a}
    Events <- AllEvents
    Requests = {p1, p2}
    MaxFaults = 1
    p1 = p1
    p2 = p2

INVARIANTS
    OneHandler
    RightsWerePaid

PROPERTIES
    FinalStaysFinal
    PaidIsGranted

CHECK_DEADLOCK FALSE
