\* Three rows of two tiles, partly evicted, two workers, one repeated request.
SPECIFICATION Spec
CONSTANTS
    Cols = 2
    Rows = 3
    Evicted <- LeftFresh
    MaxSchedules = 1
    Workers = {w1, w2}
    None = None
CHECK_DEADLOCK FALSE
INVARIANTS
    TypeOK
    GatesMatchCalls
    NothingDropped
    CausalParkersWoken
SYMMETRY WorkerSymmetry
