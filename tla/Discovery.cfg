SPECIFICATION FairSpec
CONSTANTS
    t1 = t1
    t2 = t2
    Threads = {t1, t2}
    w1 = w1
    Pool = {w1}
    c = c
    Cron = c
    e1 = e1
    e2 = e2
    e3 = e3
    Events = {e1, e2, e3}
    NoEvent = NoEvent
    MaxRuns = 2
INVARIANTS
    TypeOK
    RunningHasRun
    EventHasRun
PROPERTIES
    StopIsObeyed
    RunSettles
    StopSticks
