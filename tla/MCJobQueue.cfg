SPECIFICATION FairSpec
CONSTANTS
    web = web
    w1 = w1
    w2 = w2
    j1 = j1
    j2 = j2
    k1 = k1
    NoKey = NoKey
    Sites = {web}
    Workers = {w1, w2}
    Jobs = {j1, j2}
    From <- MCFrom
    Key <- MCKey
    Delayed = {j2}
    Score <- MCScore
    MaxRetries <- MCMaxRetries
    Concurrency = 1
    MaxOutages = 1
    MaxEnds = 1
CHECK_DEADLOCK FALSE
INVARIANTS
    AnsweredIsKept
    FirstAttemptOnce
PROPERTY EveryJobEnds
