SPECIFICATION Spec
CONSTANTS
    c1 = c1  c2 = c2  c3 = c3
    w1 = w1  w2 = w2
    Calls = {c1, c2}
    Workers = {w1, w2}
    WorkerOf <- MCWorkerOf
    PoolSize = 2
    Subjects = {ana}
    Agents = {documents}
    RequestIds = {r1, r2}
    Allowance = 1
    StaleAfter = 2
    MaxTime = 2
    NoCall = NoCall
    NoArg = NoArg
SYMMETRY Symmetry
INVARIANTS
    IInv
    QuotaRespected
    ReservationsSpaced
PROPERTIES
    AdmittedAlone
    SettledForever
    ImplementsLedger
