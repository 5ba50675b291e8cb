CONSTANTS
    l1 = l1
    b1 = b1
    b2 = b2
    r1 = r1
    r2 = r2
    w1 = w1
    w2 = w2
    loop1 = loop1
    Loan = {l1}
    Funded = {l1}
    Request = {r1, r2}
    Body <- MCBody
    LoanId <- MCLoanId
    Sweeper = {loop1}
    Threshold <- MCThreshold
    WarningDays = 30
    DefaultDays = 90
    Score <- MCScore
    Worker = {w1, w2}
    ServedBy <- MCServedBy
    Home <- MCHome
    Background = {loop1}
    Row <- MCRow
    MaxRound = 0
SPECIFICATION FairSpec
INVARIANTS
    SweepCatchesInlineMiss
    VerdictIsFresh
PROPERTIES
    ImplementsLedger
    EventuallyFlagged
