CONSTANTS
    l1 = l1
    nobody = nobody
    b1 = b1
    b2 = b2
    b3 = b3
    r1 = r1
    r2 = r2
    r3 = r3
    r4 = r4
    w1 = w1
    w2 = w2
    Loan = {l1}
    Funded = {l1}
    Request = {r1, r2, r3, r4}
    Body <- MCBody
    LoanId <- MCLoanId
    Sweeper = {}
    Threshold <- MCThreshold
    WarningDays = 30
    DefaultDays = 90
    Score <- MCScore
    Worker = {w1, w2}
    ServedBy <- MCServedBy
SPECIFICATION IngestSpec
INVARIANTS
    AckedDurable
    FailureLeavesNothing
    EventAndAlertTogether
    AlertJustified
    MissNeedsOverlap
    SerialIngestScoresTheLoan
CHECK_DEADLOCK FALSE
