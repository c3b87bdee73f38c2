SPECIFICATION Spec
CONSTANTS
    t1 = t1
    Threads = {t1}
    Runners = {t1}
    x1 = x1
    e1 = e1
    e2 = e2
    Recs = {x1}
    Events = {e1, e2}
    NoEvent = NoEvent
    MaxWorkers = 1
    Requests = {"run", "schedule", "approve"}
PROPERTIES
    RunsOnlyApproved
CHECK_DEADLOCK FALSE
