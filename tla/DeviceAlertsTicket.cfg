SPECIFICATION FairSpec
CONSTANTS
    Polls = {"p1"}
    Others = {"w1"}
    Methods = {"ping", "snmp"}
    Alerts = {1, 2, 3, 4}
    Limit = 2
    Rules = {"ticket"}
    MaxMoves = 1
PROPERTIES
    StatusConverges
