CONSTANTS
    l1 = l1
    l2 = l2
    l3 = l3
    Loan = {l1, l2, l3}
    Cohort = {"a", "b"}
    Row <- MCRow
    Epoch <- MCEpoch
    Months = 3
    Unit = 2
    Blend <- MCBlend
SPECIFICATION Spec
INVARIANTS
    MobCountsMonths
    CurveAccumulates
    DriftHasCause
    GridBreaksBookDown
    IndexMeasuresConcentration
SYMMETRY MCSymmetry
