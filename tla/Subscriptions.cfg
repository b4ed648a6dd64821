SPECIFICATION FairSpec
CONSTANTS
    MaxCalls = 2
    MaxBatches = 2
    Period = 1
    Grace = 0
    MaxAttempts = 2
    MaxTime = 2
    MaxTroubles = 1
CHECK_DEADLOCK FALSE
INVARIANTS
    PeriodIsPaid
    RenewedOnce
PROPERTIES
    PaidIsGiven
    PastDueEnds
