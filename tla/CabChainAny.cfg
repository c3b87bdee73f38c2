SPECIFICATION Spec
CONSTANTS
    t1 = t1
    u1 = u1
    u2 = u2
    Threads = {t1}
    Users = {u1, u2}
    Open = Open
    Configs <- JustTwo
    Initial <- JustTwo
INVARIANTS
    AnyModePasses
