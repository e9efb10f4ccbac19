SPECIFICATION Spec
CONSTANTS
    Goroutines = {g1, g2}
    Connections = {c1, c2, c3}
    HostOf <- OneHost
    Headers = {c1, c2}
    Limit = 2
    Window = 2
    MaxTime = 2
    MaxAdmitted = 4
SYMMETRY GoroutineSymmetry
CHECK_DEADLOCK FALSE
INVARIANTS
    TypeOK
    WithinLimit
    RefusalJustified
    CountedWereAdmitted
