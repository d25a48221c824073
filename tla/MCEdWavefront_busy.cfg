\* Two rows from scratch: tasks that park on their own row.
SPECIFICATION Spec
CONSTANTS
    Cols = 2
    Rows = 2
    Evicted <- FromScratch
    MaxSchedules = 1
    Workers = {w1, w2}
    None = None
CHECK_DEADLOCK FALSE
INVARIANTS
    BusyParkersWoken
SYMMETRY WorkerSymmetry
