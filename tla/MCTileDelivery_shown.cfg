\* The first display of a tile and one edit of either kind.
SPECIFICATION FairSpec
CONSTANTS
    EditKinds = {"content-changed", "document-changed"}
    MaxEdits = 1
    MaxRetries = 1
    MaxEvents = 2
    MaxFetches = 2
    None = None
CHECK_DEADLOCK FALSE
INVARIANTS
    TypeOK
    RestShowsLive
PROPERTIES
    NeverOlder
    EventuallyShown
    EventuallyQuiet
