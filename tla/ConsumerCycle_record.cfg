SPECIFICATION CycleSpec
CONSTANTS
    Consumers = {p1}
    Services = {v1, v2}
    OkHashes = {h1}
    Reasons = {}
    Reporting = FALSE
    Price = 1
    Minute = 1
    Hour = 2
    CapPerMinute = 1
    CapPerHour = 2
    MaxTime = 3
    MaxPayments = 3
    MaxFeedback = 1
INVARIANTS
    EachSettlementIsRecorded
