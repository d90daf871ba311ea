SPECIFICATION Spec
CONSTANTS
    Chunks = {1}
    RrfK = 60
    MinCandidates = 2
    TopKs = {1}
    Deltas <- MCDeltas
    MaxDeltas = 1
    MaxFaults = 0
    MaxFrame = 8
INVARIANT OnlyOversizedRefused
CHECK_DEADLOCK FALSE
