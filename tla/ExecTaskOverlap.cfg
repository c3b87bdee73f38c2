SPECIFICATION Spec
CONSTANTS
    t1 = t1
    t2 = t2
    Threads = {t1, t2}
    Runners = {t1, t2}
    x1 = x1
    x2 = x2
    e1 = e1
    e2 = e2
    Recs = {x1}
    Events = {e1, e2}
    NoEvent = NoEvent
    MaxWorkers = 1
    Requests = {"run", "schedule", "approve", "cancel", "delete", "rollback"}
SYMMETRY Symmetric
INVARIANTS
    TypeOK
    RunningTaskHasRun
    RunningRowHasWorker
PROPERTIES
    StrandedUntilDecision
    CancelIsFinal
CHECK_DEADLOCK FALSE
