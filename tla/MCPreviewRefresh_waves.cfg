\* Two edits, two workers, one pulled tile; it stops when all is done.
SPECIFICATION Spec
CONSTANTS
    Commands = {main}
    Workers = {w1, w2}
    Handlers = {h1}
    Layers = {l1}
    MaxRequests = 2
    MaxPulls = 1
    MaxWave = 1
    BusyModulus = 16
    QueueModulus = 16
    NoRefresh = NoRefresh
CHECK_DEADLOCK FALSE
INVARIANTS
    TypeOK
    ClearNotLost
    WaveClosed
