SPECIFICATION Spec
CONSTANTS
    c1 = c1
    c2 = c2
    s1 = s1
    h1 = h1
    h2 = h2
    Callers = {c1, c2}
    Sales = {s1}
    Holds = {h1, h2}
    Analysts = {a1, a2}
    Amount <- MCAmount
    Credits = 4
    MaxRetries = 2
    None = None
CHECK_DEADLOCK FALSE
INVARIANT HoldsAreLocked
PROPERTY TakesWhatIsFree
