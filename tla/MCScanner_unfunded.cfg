CONSTANTS
    l1 = l1
    l2 = l2
    b1 = b1
    r1 = r1
    w1 = w1
    loop1 = loop1
    post1 = post1
    Loan = {l1, l2}
    Funded = {l1}
    Request = {r1}
    Body <- MCBody
    LoanId <- MCLoanId
    Sweeper = {loop1}
    Threshold <- MCThreshold
    WarningDays = 30
    DefaultDays = 90
    Score <- MCScore
    Worker = {w1}
    Home <- MCHomeOne
    Background = {loop1}
    Row <- MCRowGrace
    MaxRound = 0
SPECIFICATION ScannerFairSpec
PROPERTIES
    EventuallyFlagged
