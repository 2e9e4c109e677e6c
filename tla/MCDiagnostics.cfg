SPECIFICATION Spec
CONSTANTS
    Threads = {t1, t2}
    Rows = {r1, r2, r3}
    GreyStore = 2
    Kinds = {"router", "rejected", "route", "stream", "counters"}
    MaxCalls = 2
    MaxEvents = 3
    MaxChecks = 1
SYMMETRY Symmetry
INVARIANTS TypeOK SnapshotOfOneCall GreyIsHistory CountersOfOneCall
