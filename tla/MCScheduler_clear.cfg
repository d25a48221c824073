\* clear_all racing enqueues and a dequeue.
SPECIFICATION FairSpec
CONSTANTS
    k1 = k1
    k2 = k2
    Keys = {k1, k2}
    Tasks <- MCTasksOneKey
    Producers = {p1, p2}
    Workers = {w1}
    Clearers = {c1}
    MaxEnqueues = 3
    CountModulus = 8
    NoTask = NoTask
INVARIANTS
    TypeOK
    HintCovered
PROPERTIES
    PoolSpec
