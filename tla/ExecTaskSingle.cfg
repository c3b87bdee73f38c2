SPECIFICATION Spec
CONSTANTS
    t1 = t1
    t2 = t2
    Threads = {t1, t2}
    Runners = {t1}
    x1 = x1
    x2 = x2
    e1 = e1
    e2 = e2
    Recs = {x1, x2}
    Events = {e1, e2}
    NoEvent = NoEvent
    MaxWorkers = 2
    Requests = {"run", "edit", "cancel","delete"}
SYMMETRY Symmetric
INVARIANTS
    CancelFindsRun
    CompletedHidesNoFailure
CHECK_DEADLOCK FALSE
