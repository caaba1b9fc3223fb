SPECIFICATION CallersSpec
CONSTANTS
    o1 = o1
    c1 = c1
    c2 = c2
    c3 = c3
    k1 = k1
    l1 = l1
    s1 = s1
    s2 = s2
    r1 = r1
    h1 = h1
    Agents = {o1}
    Consumers = {c1, c2, c3}
    Payouts = {c2}
    Slashers = {s1, Guard}
    Hashes = {h1}
    BondContract = BondContract
    NoAdapter = NoAdapter
    Adapters = {}
    InitialFunds = 2
    PostAmounts = {2}
    EpochDuration = 1
    BpsDenominator = 10
    InitialConfig <- PipelineConfig
    ScheduleInputs = {}
    FeeInputs = {}
    ThresholdInputs = {}
    ChallengeInputs <- Challenges
    MaxTime = 2
    MaxDisputes = 1
    Guard = Guard
    Keys = {k1}
    Zero = Zero
    Lifetimes = {0}
    AmountCaps = {1}
    Loops = {l1}
    Signer = s1
    SessionKey = k1
    ConsumerWallet = c1
    Oracle = o1
    Recharge = 2
INVARIANTS
    ProceedsReachGrantedPayouts
PROPERTIES
    RouteMirrorsContract
    NoSlashOutsideSession
    LossIsCapped
    DisputeTermsAreFixed
    DisputesClose
