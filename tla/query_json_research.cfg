SPECIFICATION Spec
CONSTANTS
    Queries = {q1, q2}
    RequestIds = {r1, r2}
    Routes = {"json", "research"}
    Allowance = 1
    StaleAfter = 1
    WakeAttempts = 2
    MaxFaults = 1
SYMMETRY Symmetry
INVARIANTS
    AnswerIsPaid
    ReleaseIsReal
    ReleasedWasNotAnswered
    ClosedIsSettled
