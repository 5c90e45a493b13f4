CONSTANTS
    e1 = e1  t1 = t1  t2 = t2  a1 = a1  a2 = a2  p1 = p1
    m1 = m1  m2 = m2  m3 = m3  g1 = g1  g2 = g2  g3 = g3  k1 = k1  k2 = k2  b1 = b1
    c1 = c1  c2 = c2  c3 = c3  c4 = c4  c5 = c5  c6 = c6  c7 = c7  c8 = c8  c9 = c9  c10 = c10  ip = ip
    u1 = u1  u2 = u2  o1 = o1  o2 = o2  f1 = f1  f2 = f2  h1 = h1  h2 = h2
    s1 = s1  s2 = s2  y1 = y1  y2 = y2
    Emails = {e1}
    Telegrams = {t1, t2}
    AuthUsers = {a1, a2}
    Projects = {p1}
    None = None
    Requests <- MCRequests
    Rows <- MCRequests
    Calls <- MCCalls
    Mixes <- MCMixes
    UserKeys <- MCRequests
    Addresses = {ip}
    Address = ip
    UserLimit = 1
    AddressLimit = 2
    MaxDay = 1
    MaxFiles = 1
    MaxFaults = 1
    Overlap = FALSE
    Files = {f1, f2}
    FileName <- MCFileName
    Attaches = {h1, h2}
    Batch <- MCBatch
    Sends = {s1, s2}
    Confirms = {y1, y2}
    Uploads = {u1, u2}
    Orders = {o1, o2}
    Shares <- MCShares
    Visits <- MCVisits
    Mount = Mount
    MaxJobs = 2
    Followed = {"accounts", "creation", "workspace"}
SPECIFICATION SiteSpec
INVARIANTS
    SiteTypeOK
    OneAccountPerPerson
    
    AdmittedWithinLimit
    OrderIsWhatWasConfirmed
    WorkspaceSettles
PROPERTIES
    OnlyRotationRevokes
CHECK_DEADLOCK FALSE
