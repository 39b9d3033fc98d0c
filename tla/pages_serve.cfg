SPECIFICATION Spec

CONSTANTS
    Requests = {r1, r2}
    Publishers = {p1}
    Nobody = Nobody
    TTL = 1
    PoisonTTL = 1
    MaxVersion = 2
    MaxFaults = 2
    r1 = r1
    r2 = r2
    p1 = p1

SYMMETRY ProcSymmetry

INVARIANTS
    InvalidatedIsGone
    TTLBacksUp

