CONSTANTS
    noLoan = noLoan
    Tenor = {6}
    MaxMonths = 2
    Principal = 1000
    Predicted = {50, 4000}
    Factor = {7, 12, 15, 28, 30, 60}
    Dpd = {0, 14, 29, 30, 60, 89, 90, 120}
    Day = {0, 6}
    Hour = {22}
    Clock = {0, 23}
    Zone <- MCZone
SPECIFICATION GeneratorSpec
INVARIANTS
    EventsWithinLife
    SettledMonthly
CHECK_DEADLOCK FALSE
