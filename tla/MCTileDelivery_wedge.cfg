\* The first display of a tile, without any edit.
SPECIFICATION FairSpec
CONSTANTS
    EditKinds = {"document-changed"}
    MaxEdits = 0
    MaxRetries = 1
    MaxEvents = 2
    MaxFetches = 2
    None = None
CHECK_DEADLOCK FALSE
PROPERTIES
    PendingIsRefetched
