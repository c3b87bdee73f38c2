SPECIFICATION Spec
CONSTANTS
    t1 = t1
    t2 = t2
    Threads = {t1, t2}
    Tasks = {1, 10}
    Hits <- MCHits
SYMMETRY Symmetric
INVARIANTS
    TypeOK
    JobFollowsRow
