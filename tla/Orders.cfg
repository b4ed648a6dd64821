SPECIFICATION Spec
CONSTANTS
    MaxOrders = 2
    MaxRefunds = 2
    MaxCrashes = 1
    Keys = {k1}
    None = None
CHECK_DEADLOCK FALSE
INVARIANTS
    KeyChargedOnce
    AccessIsPaid
    RefundedIsUndone
