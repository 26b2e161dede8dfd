SPECIFICATION Spec
SYMMETRY Symmetry
CONSTANTS
    n = n
    t1 = t1
    t2 = t2
    NodeTimer = n
    Timers <- MC_Timers
    Periods <- MC_Periods
    BatchSize = 2
    MaxTime = 3
INVARIANTS
    TypeOK
    RateBound
    DrainedOnReturn
    TargetSafe
