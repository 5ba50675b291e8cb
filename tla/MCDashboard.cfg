CONSTANTS
    k1 = k1
    k2 = k2
    k3 = k3
    none = none
    Startup = {k1, k2, k3}
    Full = 2
    LogSize = 2
    MaxEntries = 4
SPECIFICATION FairSpec
INVARIANTS
    TimersFollowButton
    NewestOnTop
PROPERTIES
    OverlayGoesAway
