SPECIFICATION FairSpec
CONSTANTS
    alice = alice
    bob = bob
    maya = maya
    k1 = k1
    k2 = k2
    k3 = k3
    Nobody = Nobody
    Creator = maya
    Fans <- MCFans
    Keys <- MCKeys
    Opening <- MCOpening
    Load <- Mixed
    Requests <- MCRequests
    Kind <- MCKind
    Fan <- MCFan
    Amount <- MCAmount
    Key <- MCKey
    Stock = 1
CHECK_DEADLOCK FALSE
INVARIANT BalancesAreDoneWork
PROPERTY EveryRequestEnds
