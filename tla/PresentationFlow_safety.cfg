CONSTANTS
    t1 = t1  t2 = t2
    a1 = a1  a2 = a2  x1 = x1  e1 = e1
    g1 = g1  g2 = g2  g3 = g3
    Texts = {t1, t2}
    OwnInitiative = {t2}
    Approvals = {a1, a2}
    Rejections = {x1}
    Entries = {e1}
    Paid = {g1}
    Regenerations = {g2}
    WebJobs = {g3}
    Articles = {g4}
    Files = {d1}
    Continues = {c1}
    Answers = {n1, n2}
    Revisions = {r1}
    MaxQuestions = 2
    Grantors <- MCGrantors
    DailyCap = 1
    WeeklyCap = 2
    ProjectCap = 2
    Earlier = {1}
    MaxDay = 1
    Conversations = {"presentation", "article"}
    g4 = g4  d1 = d1  c1 = c1  n1 = n1  n2 = n2  n3 = n3  r1 = r1
    FixLimit = 1
    MaxFaults = 1
    NoChange = NoChange
    Free = Free
SPECIFICATION Spec
SYMMETRY PressSymmetry
INVARIANTS
    TypeOK
    EditsWithinAllowance
    TurnsAreSerialized
    FreeCreditsWithinCaps
PROPERTIES
    AppliedAsApproved
    ChargeIsServedOrReturned
CHECK_DEADLOCK FALSE
