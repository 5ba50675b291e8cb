CONSTANTS
    Event <- MCEvent
    Principal = 20
    PerDay = 2
    Start = 180
    MaxDays = 2
    MaxEvents = 4
SPECIFICATION Spec
INVARIANTS
    OrderDoesNotMatter
    SharesInRange
    OldEventsForgotten
CHECK_DEADLOCK FALSE
