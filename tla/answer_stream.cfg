SPECIFICATION Spec
CONSTANTS
    Chunks = {1, 2, 3, 4}
    RrfK = 60
    MinCandidates = 2
    TopKs = {1, 2}
    Deltas <- MCDeltas
    MaxDeltas = 2
    MaxFaults = 1
    MaxFrame = 8
INVARIANTS
    StreamInv
    CitationsRanked
    ReportIsRecorded
    ConversationMatchesRun
    ParsedIsReceived
    RefusalsExplained
PROPERTIES
    OutcomeIsFinal
    ImplementsRun
CHECK_DEADLOCK FALSE
