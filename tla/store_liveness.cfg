SPECIFICATION FairSpec
CONSTANTS
    c1 = c1  c2 = c2  c3 = c3
    w1 = w1  w2 = w2
    Calls = {c1, c2, c3}
    Workers = {w1, w2}
    WorkerOf <- MCWorkerOf
    PoolSize = 1
    Subjects = {ana}
    Agents = {documents}
    RequestIds = {r1}
    Allowance = 1
    StaleAfter = 1
    MaxTime = 0
    NoCall = NoCall
    NoArg = NoArg
PROPERTIES
    CallsEnd
