SPECIFICATION Spec
CONSTANTS
    w1 = w1
    w2 = w2
    f1 = f1
    f2 = f2
    Wallets = {w1, w2}
    Bounty = Bounty
    ClaimBond = ClaimBond
    Escrows = {Bounty, ClaimBond}
    Nobody = Nobody
    InitialFunds = 1
    MaxTime = 1
    Deployer = Deployer
    Verifier = Verifier
    Invariants = {"reentrancy", "other"}
    Reentrancy = "reentrancy"
    BountyAmounts = {1}
    Submissions = {1}
    MaxTargets = 2
    Tracks = {f1, f2}
    Corpora <- BothTracks
    BondAmounts = {1}
    Windows = {1}
SYMMETRY Symmetry
INVARIANTS
    BalancesAreExplained
    LicensedTracksAreBonded
