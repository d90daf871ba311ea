SPECIFICATION MCFairSpec
CONSTANTS
    Queries = {q1, q2}
    RequestIds = {r1, r2}
    Routes = {"research"}
    Allowance = 1
    StaleAfter = 1
    WakeAttempts = 1
    MaxFaults = 1
PROPERTIES
    EventuallySettled
    NeverWedged
