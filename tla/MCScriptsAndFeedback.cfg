SPECIFICATION FileSpec
CONSTANTS
    Deployer = Deployer
    Agents = {o, c}
    FreshWallets = {w1, w2, w3, w4}
    Nobody = Nobody
    Tracks = {t1, t2}
    MaxContracts = 8
    MaxRuns = 4
    MaxCrashes = 1
    Consumers = {p1}
    Services = {v1}
    OkHashes = {h1}
    Reasons = {r1}
    Reporting = TRUE
    Price = 1
    Minute = 1
    Hour = 2
    CapPerMinute = 2
    CapPerHour = 2
    MaxTime = 1
    MaxPayments = 2
    MaxFeedback = 2
INVARIANTS
    FilesDescribeTheChain
    WiredWalletsCanAct
    KeysAreLostOnlyByCrashOrRerun
    IdentitiesAreAccounted
    FeedbackRepeatsOnlyWhenUnknown
PROPERTIES
    BondsFitTheirParts
    PendingIsResolved
\* The operator's scripts come to an end.
CHECK_DEADLOCK FALSE
