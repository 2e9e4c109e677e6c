SPECIFICATION Spec
CONSTANTS
    Threads = {t1}
    Rows = {r1, r2}
    GreyStore = 1
    Kinds = {"router", "rejected"}
    MaxCalls = 2
    MaxEvents = 1
    MaxChecks = 1
SYMMETRY Symmetry
INVARIANTS RejectedCallIsClean
