SPECIFICATION MCSpec
CONSTANTS
    P = 1
    M = 5
    W = 2
    QuietStreak = 1
    MinWindow = 1
    d1 = d1
    d2 = d2
    Directions = {d1, d2}
    MaxThreads = 2
    Buckets = {0, 1}
    Validators = {v1, v2}
    Hash <- Bucket
    ProofSlack = 1
    ProofStep = 1
INVARIANTS BlockTypeOK EachRowOnce RescreenedAfterGrowth InfiniteIsComplete BudgetMatchesSketch
PROPERTIES RouteEnds ImplementsTail ImplementsRouter
