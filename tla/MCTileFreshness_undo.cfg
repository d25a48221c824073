\* A palette edit and a filter edit, one undo, one worker.
SPECIFICATION FairSpec
CONSTANTS
    Workers = {w1}
    EditKinds <- PaletteThenFilter
    MaxEdits = 2
    MaxUndos = 1
    None = None
CHECK_DEADLOCK FALSE
INVARIANTS
    StampNamesPixels
PROPERTIES
    FreshUnlessCacheAhead
