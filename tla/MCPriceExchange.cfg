SPECIFICATION Spec
CONSTANTS
    c1 = c1
    o1 = o1
    NoOne = NoOne
    Consumers = {c1}
    Oracle = o1
    Flags <- SomeFlags
    RequireRegistered = TRUE
    RegistrySet = TRUE
    MaxAge = 0
    FaultAge = 1
    MaxVerdicts = 2
    Cooldown = 1
    MaxCycles = 2
    MaxPosted = 1
    MaxTime = 1
CONSTRAINT StrangersMeetAPlainConsumer
INVARIANTS
    VerdictsAreEarned
    FeedMatchesCounters
