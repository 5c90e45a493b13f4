CONSTANTS
    p = p  q = q  x = x  y = y  z = z
    title = title  take = take
    s1 = s1  s2 = s2  s3 = s3  s4 = s4  s5 = s5  r1 = r1  r2 = r2
    quiz1 = quiz1  quiz2 = quiz2  quiz3 = quiz3
    Persons = {p, q}
    Tokens = {x, y, z}
    Ids = {s1, s2, s3, s4, s5, r1, r2}
    TitleId = title
    TakeawayId = take
    QuizIds = {quiz1, quiz2, quiz3}
    Plans <- MCPlans
    Drafts <- MCDrafts
    Rewrites <- MCRewrites
    Readings <- MCReadings
    ClaimSets <- MCClaimSets
    MaxAttempts = 3
    MaxSlides = 7
    NoPlan = NoPlan
    NoClaims = NoClaims
    g1 = g1  g2 = g2  e1 = e1
    html = html  pptx = pptx
    Generations = {g1, g2}
    Edits = {e1}
    Fixes <- MCFixes
    Requested <- MCRequested
    ByBot = {g1}
    Order <- MCOrder
    Figures = {s2}
    People = {}
    Budget = 1
    Formats = {html, pptx}
    NoDeck = NoDeck
    Overlap = FALSE
    t1 = t1  t2 = t2
    Turns = {t1, t2}
    Conversational = {t1, t2}
    Nobody = Nobody
    Ttl = 3
    Margin = 1
    CreateTimeout = 1
    MaxClock = 3
    MaxIterations = 2
    MaxRetries = 1
    ThrottleBase = 1
    ThrottleCap = 2
    ThrottleBudget = 1
    MaxCalls = 2
    Uploads = 2
    MaxPages <- MCMaxPages
    MaxClaims = 1
    Lengths = {0, 1, 6}
    Density = 2
    ChunkSize = 5
    ChunkOverlap = 2
    MinChunkSize = 2
    c1 = c1  c2 = c2  m1 = m1  m2 = m2  m3 = m3
    Sources <- MCSources
    MaxQuestions = 3
    Template <- MCTemplate
    SourceClaims = {c1, c2}
    OutlineAnswers <- MCOutlineAnswers
    Texts <- MCTexts
    MaxQuality = 1
    Bibliographies <- MCBibliographies
    i1 = i1  i2 = i2  d1 = d1
    Sought = {i1, i2}
    Drawn = {d1}
    ShownOn <- MCShownOn
    Lived <- MCLived
    Unknown = Unknown
    Results <- MCResults
    Overlaps <- MCOverlaps
    MinOverlap = 2
    MaxDrawRetries = 1
    NoteSpace = 2
    NobodyFound = NobodyFound
    Remark = Remark
    d2 = d2  d3 = d3
    Outlines <- MCOutlines
    Domains <- MCDomains
    General = "general"
    KeywordShares <- MCKeywordShares
    ProvidersOf <- MCProvidersOf
    Topics = {1, 2, 3, 4, 5, 6}
    Popular <- MCPopular
    Apis <- MCApis
    Found <- MCFound
    Ages = {3, 5}
    Untold = Untold
    NoDoi = NoDoi
    Lower <- MCLower
    RelevanceThreshold = 600
    PerSection = 3
    MaxConcurrent = 3
    PerCall = 5
    MaxApproved = 1
SPECIFICATION Spec
INVARIANTS
    TypeOK
    EvidenceIsTraceable
    VerdictIsClean
    ShippedDeckIsSound
    FilesShowTheDeck
    PortraitsAreRightAndCredited
    SuggestionsAreTheBest
    ArticleHoldsTogether
PROPERTIES
    EditsTouchOnlyTheirSlides
    AnswersReachTheirEvidence
    EveryTurnIsServed
    EveryoneIsAnswered
