CONSTANTS
    pass = pass
    i1 = i1
    i2 = i2
    Writer = {pass, i1, i2}
    Batch <- MCBatch
    Query <- MCQuery
    Late = 2
SPECIFICATION Spec
INVARIANTS
    MissHasCause
    RepeatHasCause
CHECK_DEADLOCK FALSE
