CONSTANTS
    g1 = g1
    g2 = g2
    s1 = s1
    s2 = s2
    t1 = t1
    w1 = w1
    none = none
    torn = torn
    Generation = {g1, g2}
    Run = {s1, s2}
    Trainer = {t1}
    Worker = {w1}
    LoanCount = 3
    EventCount = 2
    Chunk = 2
    Owner <- MCOwner
SPECIFICATION PipelineSpec
INVARIANTS
    DoneIsComplete
    OrphanHasCause
    MixHasCause
    MissingTablesHaveCause
SYMMETRY MCSymmetry
CHECK_DEADLOCK FALSE
