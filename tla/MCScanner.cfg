CONSTANTS
    l1 = l1
    l2 = l2
    b1 = b1
    r1 = r1
    w1 = w1
    loop1 = loop1
    post1 = post1
    Loan = {l1, l2}
    Funded = {l1, l2}
    Request = {r1}
    Body <- MCBody
    LoanId <- MCLoanId
    Sweeper = {loop1, post1}
    Threshold <- MCThreshold
    WarningDays = 30
    DefaultDays = 90
    Score <- MCScore
    Worker = {w1}
    Home <- MCHome
    Background = {loop1}
    Row <- MCRow
    MaxRound = 2
SPECIFICATION ScannerSpec
INVARIANTS
    PassAllOrNothing
    StoredPassCovers
    OneAlertPerKind
    GaugeNeverAhead
CONSTRAINT NumbersLast
