SPECIFICATION FairSpec
CONSTANTS
    Flow = {f1, f2, f3, f4}
    Stoppers = {"stop1", "stop2"}
    Limit = 2
    MaxPacket = 2
INVARIANTS
    TypeOK
    MemoryBounded
    NeverOvercounted
    StopLosesOnePacket
PROPERTIES
    LedgerSpec
    QueuedRecordsSettle
    StopEnds
CHECK_DEADLOCK FALSE
