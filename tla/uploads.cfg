SPECIFICATION MCSpec
CONSTANTS
    Uploads = {u1, u2}
    Sessions = {s1}
    NoSession = NoSession
    Users = {ana, bob}
    Opener = ana
    Limit = 1
    WakeAttempts = 2
    MaxFaults = 1
    ChunkSize = 3
    Overlap = 1
    Texts <- MCTexts
INVARIANTS
    IInv
    StoredWithinLimit
    OrphansHaveTickets
    OwnedIsStored
    ScopesAgree
    ToldIsTrue
    StoredOnce
    FilesHaveDocuments
    ChunksCover
PROPERTIES
    ImplementsUploadLedger
    UploadsEnd
CHECK_DEADLOCK FALSE
