SPECIFICATION FairSpec
CONSTANTS
    Polls = {"p1"}
    Others = {"w1"}
    Methods = {"ping", "snmp"}
    Alerts = {1, 2, 3, 4}
    Limit = 2
    Rules = {"none", "rename"}
    MaxMoves = 2
INVARIANTS
    TypeOK
    OutageHasOneAlert
PROPERTIES
    StatusConverges
    AlarmConverges
    OutageSpec
