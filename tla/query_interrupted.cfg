SPECIFICATION Spec
CONSTANTS
    Queries = {q1, q2}
    RequestIds = {r1, r2}
    Routes = {"stream"}
    Allowance = 1
    StaleAfter = 1
    WakeAttempts = 2
    MaxFaults = 0
INVARIANTS
    InterruptedIsReleased
