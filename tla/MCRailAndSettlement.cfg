SPECIFICATION PaymentSpec
CONSTANTS
    a1 = a1
    a2 = a2
    a3 = a3
    f1 = f1
    f2 = f2
    f3 = f3
    j1 = j1
    j2 = j2
    co1 = co1
    co2 = co2
    Jobs = {j1, j2}
    Company = co1
    Outsiders = {co2}
    Artists = {a1, a2, a3}
    Fingerprints = {f1, f2, f3}
    Registrations <- SmallRegistrations
    Corpora <- SmallCorpora
    Amounts = {5}
    InitialFunds = 5
    Owner = Owner
    Ingestor = Ingestor
    PoolContract = PoolContract
    ClaimContract = ClaimContract
    Nobody = Nobody
    MaxPools = 2
    Consumers = {p1}
    Services = {v1, v2}
    OkHashes = {h1}
    Reasons = {}
    Reporting = FALSE
    Price = 1
    Minute = 1
    Hour = 2
    CapPerMinute = 1
    CapPerHour = 2
    MaxTime = 3
    MaxPayments = 3
    MaxFeedback = 1
CONSTRAINT RegisteredEarly
SYMMETRY Symmetry
INVARIANTS
    PoolsAreBacked
    AllocationIsExact
    ClaimsAreFunded
    JobsKeepToTheirPools
    SpendIsCapped
    PaidOncePerInteraction
PROPERTIES
    OnlyResumeClearsBreaker
