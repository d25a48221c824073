\* Two producers, two workers, three enqueues.
SPECIFICATION FairWakeSpec
CONSTANTS
    k1 = k1
    k2 = k2
    Keys = {k1, k2}
    Tasks <- MCTasks
    Producers = {p1, p2}
    Workers = {w1, w2}
    Clearers = {}
    MaxEnqueues = 3
    CountModulus = 8
    NoTask = NoTask
INVARIANTS
    WakeTypeOK
    HintCovered
    CountAccounts
    GenerationsBelongTogether
    FlagHasTaker
    NoLostWakeup
PROPERTIES
    PoolServed
