SPECIFICATION Spec
CONSTANTS
    alice = alice
    bob = bob
    p1 = p1
    p2 = p2
    k1 = k1
    Fans = {alice, bob}
    Windows <- MCWindows
    Payments = {}
    Keys = {k1}
    Fresh = Fresh
    Methods = {"FIAT_CARD"}
    TicksPerSecond = 2
    HoldTicks = 3
    RemindAhead = 2
    MaxTime = 3
    MaxHolds = 3
    MaxBookings = 2
SYMMETRY Symmetry
CHECK_DEADLOCK FALSE
INVARIANTS
    TypeOK
    HoldsDisjoint
    BookedOnce
PROPERTY NoBookingOverHold
