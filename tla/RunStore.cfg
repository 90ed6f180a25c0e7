SPECIFICATION Spec
CONSTANTS
    o1 = o1
    o2 = o2
    h1 = h1
    h2 = h2
    a1 = a1
    a2 = a2
    k1 = k1
    k2 = k2
    k3 = k3
    k4 = k4
    gReal = gReal
    gRecon = gRecon
    v1 = v1
    v2 = v2
    s1 = s1
    s2 = s2
    p1 = p1
    e1 = e1
    NoOwner = NoOwner
    NoGrant = NoGrant
    NoResult = NoResult
    NoPayload = NoPayload
    Owners <- MCOwners
    Requests = {h1, h2, a1, a2}
    IdemKey <- TwinIdemKeys
    SemKey <- TwinSemKeys
    Cost <- MixedCosts
    Physical = {h1, h2}
    Ambiguous = {h1, h2}
    GrantOf <- SolveGrants
    Grants = {gReal, gRecon}
    RealGrants = {gReal}
    Authorization = gReal
    ReconcileGrants = {gRecon}
    ExpiringGrants = {gRecon}
    Results = {v1}
    States = {s1, s2}
    EventIds = {e1}
    Payloads = {p1}
    BudgetLimit = 4
    MaxLaunches = 1
    MaxFence = 2
CHECK_DEADLOCK FALSE
SYMMETRY OwnerSymmetry
INVARIANTS
    ControlInv
    BudgetRespected
    LaunchCeiling
    UnknownHoldsRun
    OneOperationPerAction
    VerdictHasOneSource
    HistoryNeverReplayed
PROPERTIES
    NoRefund
    SettledIsFinal
    ImplementsActionLedger
