SPECIFICATION Spec
CONSTANTS
    a1 = a1
    a2 = a2
    Alerts = {a1, a2}
    NPolicies = 2
    g = g
    Groups = {g}
    cron = cron
    req = req
    Runs = {cron, req}
    Severity = {"warning", "critical"}
    Scope <- MCScope
    From <- MCFrom
    Target <- MCTarget
    Most <- MCMost
    Repeats = {1}
    AutoOrder = {1, 2}
    GroupOf <- MCGroupOf
    Rated = {a1}
    MaxFaults = 1
SYMMETRY Symmetric
INVARIANTS
    TypeOK
    MessagesAccounted
    LevelsBounded
    
PROPERTIES
    SeverityHasLog
