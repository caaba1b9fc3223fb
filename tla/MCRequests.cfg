SPECIFICATION RequestSpec
CONSTANTS
    NoOne = NoOne
    r1 = r1
    r2 = r2
    Clients = {r1, r2}
    Queries <- TwoEvents
    ChunkSize = 1
    CacheTtl = 2
    MaxRetries = 1
    MaxBlocks = 2
    MaxTime = 2
    p1 = p1
    f1 = f1
    f2 = f2
    PremiumIds = {p1}
    ForeignIds = {f1, f2}
    MaxAnalyses = 2
    MaxAge = 0
    MaxPosts = 3
    MaxPremiumTime = 1
    TrackCount = 2
    PricePerTrack = 2
    Budget = 3
    RateMax = 1
    RateWindow = 2
    MaxRequests = 2
    MaxAnswers = 2
    MaxAcquisitionTime = 2
INVARIANTS
    TotalsAreExact
    CacheIsFresh
    SalesAreJust
    RecentAnalysesAreServed
    RequestsAreRationed
    NoIntervalIsLeaked
PROPERTIES
    PollsAreAnswered
    AcceptedJobsEnd
\* The form, its jobs and its clock may all come to an end.
CHECK_DEADLOCK FALSE
