\* One filter edit, two workers: the epoch goes back.
SPECIFICATION Spec
CONSTANTS
    Workers = {w1, w2}
    EditKinds <- FilterEdits
    MaxEdits = 1
    MaxUndos = 0
    None = None
CHECK_DEADLOCK FALSE
INVARIANTS
    FreshShowsLive
SYMMETRY WorkerSymmetry
