SPECIFICATION Spec
CONSTANTS
    alice = alice
    maya = maya
    k1 = k1
    k2 = k2
    k3 = k3
    k4 = k4
    None = None
    Users <- MCUsers
    Fans <- MCBuyers
    Creators <- MCCreators
    Keys <- MCKeys
    Deposits <- MCDeposits
    Grants <- MCGrants
    Contents <- MCContents
    Products <- MCProducts
    Prices = {5}
    Quantities = {1, 2}
    RefundTypes = {}
    Sweepers = {s1}
    MaxEntries = 4
    MaxTime = 1
    MaxCrashes = 1
SYMMETRY KeySymmetry
CHECK_DEADLOCK FALSE
INVARIANTS
    LogExplainsBalances
    BooksAgree
    ReconcilesBalances
    ExpiredOnce
    WalletsCoverLots
