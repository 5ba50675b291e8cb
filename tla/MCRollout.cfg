CONSTANTS
    p1 = p1
    p2 = p2
    t1 = t1
    t2 = t2
    torn = torn
    none = none
    Process = {p1, p2}
    Trainer = {t1, t2}
SPECIFICATION RolloutSpec
INVARIANTS
    CheckedModelInPlace
PROPERTIES
    NoPassOnceStopping
    ShutdownTerminates
    LoopKeepsScanning
