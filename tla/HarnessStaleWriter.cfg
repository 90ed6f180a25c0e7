SPECIFICATION HarnessSpec
CONSTANTS
    t1 = t1
    t2 = t2
    t3 = t3
    o1 = o1
    o2 = o2
    h1 = h1
    h2 = h2
    k1 = k1
    k2 = k2
    gReal = gReal
    gRecon = gRecon
    v1 = v1
    v2 = v2
    s1 = s1
    NoOwner = NoOwner
    NoGrant = NoGrant
    NoResult = NoResult
    NoPayload = NoPayload
    NoRequest = NoRequest
    Threads = {t1, t2}
    Token <- OwnTokens
    Mortal = {o1}
    Owners = {o1, o2}
    Requests = {h1}
    IdemKey <- SolveKeys
    SemKey <- SolveKeys
    Cost <- UnitCosts
    Physical = {h1}
    Ambiguous = {h1}
    GrantOf <- SolveGrants
    Grants = {gReal, gRecon}
    RealGrants = {gReal}
    Authorization = gReal
    ReconcileGrants = {gRecon}
    ExpiringGrants = {}
    Results = {v1}
    States = {s1}
    EventIds = {}
    Payloads = {}
    BudgetLimit = 2
    MaxLaunches = 2
    MaxFence = 3
CHECK_DEADLOCK FALSE
PROPERTIES
    StaleWriterAdmitsNothing
