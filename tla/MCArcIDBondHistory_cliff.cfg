SPECIFICATION HSpec
CONSTANTS
    a1 = a1
    c1 = c1
    s1 = s1
    h1 = h1
    h2 = h2
    r1 = r1
    NoAdapter = NoAdapter
    BondContract = BondContract
    BpsDenominator = 10
    Agents = {a1}
    Consumers = {c1}
    Slashers = {s1}
    Hashes = {h1}
    Adapters = {}
    InitialFunds = 9
    PostAmounts = {1, 7}
    EpochDuration = 2
    MaxTime = 5
    MaxDisputes = 2
    InitialConfig <- SmallConfig
    ScheduleInputs = {}
    FeeInputs = {}
    ThresholdInputs = {}
    ChallengeInputs = {}
INVARIANTS
    BarsArePastThreshold
