SPECIFICATION SharedSpec
CONSTANTS
    g1 = g1
    i1 = i1
    n1 = n1
    r1 = r1
    v1 = v1
    VmId = {v1, v2}
    Name = {n1, n2}
    Item = {i1, i2, i3, i4}
    TooLarge = {i4}
    MaxCas = 3
    MaxId = 3
    MaxMetric = 2
    MaxKeys = 1
    MaxQueueItems = 2
    MaxQueues = 2
    MaxMetrics = 2
    Guest = {g1, g2}
    Store = {1, 2}
    Unserved = {}
    LongName = {}
    Root = {r1, r2}
    Period = {1, 2}
    Delta <- Deltas
    MaxSharedNames = 2
    MaxWrites = 4
INVARIANTS
    TypeOK
    IdsAgree
    RegistrantsAlive
    ItemsConserved
    StoreLimits
    GuestLimits
    ChangesTell
PROPERTIES
    NoLostUpdate
    EveryItemNoticed
    ImplementsSharing
CHECK_DEADLOCK FALSE
