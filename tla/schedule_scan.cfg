SPECIFICATION FairSpec

CONSTANTS
    Plans = {p1}
    often = often
    rare = rare
    feb30 = feb30
    Crons = {often, rare, feb30}
    Bad = Bad
    Fires <- SomeFires
    Misfires = {"once", "skip"}
    Scanners = {s1, s2}
    Editors = {e1}
    Batch = 1
    Grace = 0
    Penalty = 7
    MaxEdits = 1
    MaxFaults = 1
    MaxTime = 3
    e1 = e1
    p1 = p1
    s1 = s1
    s2 = s2

INVARIANTS
    NextMatchesCron
    NoFireLost

PROPERTIES
    OneClaimPerFire
    EventuallyServed
