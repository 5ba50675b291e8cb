CONSTANTS
    l1 = l1
    l2 = l2
    q1 = q1
    q2 = q2
    w1 = w1
    Loan = {l1, l2}
    Row <- MCRow
    Query = {q1, q2}
    Worker = {w1}
    ServedBy <- MCServedBy
    Window = 0
    Horizon = 1
SPECIFICATION Spec
INVARIANTS
    RateOfTheMeantime
    RecentCoversDefaults
    StaleNeedsOverlap
SYMMETRY MCSymmetry
