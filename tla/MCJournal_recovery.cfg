\* Edits around one writer, then a save, a closed tab or a crash; or a crash before.
SPECIFICATION FairSpec
CONSTANTS
    a = a
    b = b
    c = c
    Docs <- MCDocs
    First = a
    Blobs <- MCBlobs
    BlobsOf <- MCBlobsOf
    Revision <- MCRevision
    Moves <- MCMoves
    NoRaw = {2}
    MaxSessions = 2
    Cap = 2
    MaxEdits = 2
    MaxCommands = 1
    None = None
    Gap = Gap
CHECK_DEADLOCK FALSE
INVARIANTS
    TypeOK
    NothingLost
PROPERTIES
    EventuallyJournaled
