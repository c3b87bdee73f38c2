SPECIFICATION Spec
CONSTANTS
    t1 = t1
    t2 = t2
    u1 = u1
    u2 = u2
    Threads = {t1, t2}
    Users = {u1, u2}
    Open = Open
    Configs <- LongConfigs
    Initial <- LongConfigs
INVARIANTS
    TypeOK
    StageOrder
    ApprovedInEveryStage
    NoDeadEnd
PROPERTIES
    StagedSpec
