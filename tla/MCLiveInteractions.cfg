SPECIFICATION Spec
CONSTANTS
    maya = maya
    velvet = velvet
    dance = dance
    p1 = p1
    p2 = p2
    k1 = k1
    r1 = r1
    r2 = r2
    Creators = {maya, velvet}
    NoAlias = NoAlias
    Alias <- MCAlias
    Seeds <- MCSeeds
    Offers = {dance}
    Price <- MCPrice
    Stock <- MCStock
    Purchases = {p1, p2}
    Of <- MCOf
    Refunds = {r1, r2}
    On <- MCOn
    Credits = 4
    Remembered = {0, 4}
    MaxMoves = 1
SYMMETRY Symmetry
CHECK_DEADLOCK FALSE
INVARIANTS
    QueuesInOrder
    PaidIsQueued
    MarksAreBacked
PROPERTY NobodyFallsBack
