SPECIFICATION Spec

CONSTANTS
    Subs = {s1}
    Events = {e1}
    Ids = {d1, d2}
    Workers = {w1, w2}
    NoSub = NoSub
    Wants <- WantsAll
    RetryBackoff <- OneRung
    Window = 1
    Batch = 1
    Outcomes = {"ok", "fail"}
    MaxCrashes = 0
    MaxFailures = 1
    MaxTime = 1
    d1 = d1
    d2 = d2
    e1 = e1
    s1 = s1
    w1 = w1
    w2 = w2

INVARIANTS
    WindowSpansNoSuccess
    DeadIsReported

PROPERTIES
    ImplementsQueue

SYMMETRY WorkerIdSymmetry
