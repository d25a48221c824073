\* Two edits, one worker; the system may stop when the tile is fresh.
SPECIFICATION FairSpec
CONSTANTS
    Workers = {w1}
    EditKinds <- AnyEdits
    MaxEdits = 2
    MaxUndos = 0
    None = None
CHECK_DEADLOCK FALSE
INVARIANTS
    TypeOK
    FreshShowsLive
    RestIsFresh
PROPERTIES
    EventuallyFresh
    QueueIsPool
