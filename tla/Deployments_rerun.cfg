SPECIFICATION Spec
CONSTANTS
    Deployer = Deployer
    Agents = {o, c}
    FreshWallets = {w1, w2, w3, w4}
    Nobody = Nobody
    Tracks = {t1, t2}
    MaxContracts = 8
    MaxRuns = 4
    MaxCrashes = 1
PROPERTIES
    CatalogReusesItsKeys
CHECK_DEADLOCK FALSE
