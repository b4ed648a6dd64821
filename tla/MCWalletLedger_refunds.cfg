SPECIFICATION Spec
CONSTANTS
    alice = alice
    maya = maya
    k1 = k1
    k2 = k2
    k3 = k3
    k4 = k4
    None = None
    Users <- MCUsers
    Fans <- MCFans
    Creators <- MCCreators
    Keys <- MCKeys
    Deposits <- MCDeposits
    Grants <- MCGrants
    Contents <- MCContents
    Products <- MCProducts
    Prices = {5}
    Quantities = {1, 2}
    RefundTypes = {"LIVE_TIP", "INTERACTION_FEE", "PPV_PURCHASE", "PRODUCT_PURCHASE"}
    Sweepers = {}
    MaxEntries = 5
    MaxTime = 1
    MaxCrashes = 0
SYMMETRY KeySymmetry
CHECK_DEADLOCK FALSE
INVARIANTS
    TypeOK
    LogExplainsBalances
    CreditsConserved
    BooksAgree
    RefundedOnce
PROPERTY SpendsExpiringFirst
