SPECIFICATION Spec
CONSTANTS
    Queries = {q1, q2}
    RequestIds = {r1, r2}
    Routes = {"research"}
    Allowance = 1
    StaleAfter = 2
    WakeAttempts = 2
    MaxFaults = 0
INVARIANTS
    OneActiveRequest
