CONSTANTS
    r1 = r1  r2 = r2  r3 = r3
    u1 = u1  p1 = p1  p2 = p2
    w1 = w1  w2 = w2  o1 = o1
    Requests = {r1, r2}
    Users = {u1}
    Projects = {p1}
    Workers = {w1, w2, o1}
    OneShots = {o1}
    UserOf <- MCUserOf
    ProjectOf <- MCProjectOf
    PriceOf <- MCPriceOf
    Opening <- Rich
    DevMode = FALSE
    MaxAttempts = 2
    MaxFaults = 1
    InsertReplyLoss = FALSE
    NoWorker = NoWorker
    NoJob = NoJob
SPECIFICATION Spec
SYMMETRY LoopSymmetry
INVARIANTS
    TypeOK
    RefundAtMostOnce
    RefundOnlyUndelivered
    JobsArePaidFor
    OneActiveJobPerProject
    AttemptsWithinLimit
    EveryFailureIsOwed
PROPERTIES
    TerminalIsFinal
    SettlesAsPromised
