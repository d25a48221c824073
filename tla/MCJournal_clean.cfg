\* An edit while the project file is being written.
SPECIFICATION Spec
CONSTANTS
    a = a
    b = b
    c = c
    Docs <- MCDocs
    First = a
    Blobs <- MCBlobs
    BlobsOf <- MCBlobsOf
    Revision <- MCRevision
    Moves <- MCMoves
    NoRaw = {2}
    MaxSessions = 1
    Cap = 2
    MaxEdits = 1
    MaxCommands = 1
    None = None
    Gap = Gap
CHECK_DEADLOCK FALSE
INVARIANTS
    CleanIsSaved
