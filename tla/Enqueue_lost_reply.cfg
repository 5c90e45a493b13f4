CONSTANTS
    r1 = r1  r2 = r2  r3 = r3
    u1 = u1  p1 = p1  p2 = p2
    w1 = w1  w2 = w2  o1 = o1
    Requests = {r1, r2}
    Users = {u1}
    Projects = {p1}
    Workers = {w1}
    OneShots = {}
    UserOf <- MCUserOf
    ProjectOf <- MCProjectOf
    PriceOf <- MCPriceOf
    Opening <- Rich
    DevMode = FALSE
    MaxAttempts = 1
    MaxFaults = 1
    InsertReplyLoss = TRUE
    NoWorker = NoWorker
    NoJob = NoJob
SPECIFICATION Spec
INVARIANT
    RefundAtMostOnce
