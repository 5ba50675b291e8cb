------------------------------- MODULE Vintage ------------------------------
(***************************************************************************)
(* Vintage curves and PD drift (ml/vintage_analyzer.py), asked of a book   *)
(* on which loans are originated, default and are written off while the    *)
(* months go by.  The analytics are pure functions of the rows; what can   *)
(* go wrong is the calendar, the accumulation over months on book, and     *)
(* what a snapshot of the statuses can know about the past.                *)
(*                                                                         *)
(* A date is its year and month.  Probabilities are multiples of 1/Unit,   *)
(* and a share of a cohort is a count, out of the size of the cohort.      *)
(***************************************************************************)
EXTENDS Integers, Sequences, FiniteSets, Functions

CONSTANTS
    Loan,         \* ids that loans may get
    Cohort,       \* values of loans.cohort
    Row,          \* what a row may say: [status, predicted, current, ...]
    Epoch,        \* the month in which the book is empty
    Months,       \* bound: how many months are looked at
    Unit,         \* probability 1
    Blend(_)      \* 1 - exp(-mob / 6), in units

LoanStatus == {"ACTIVE", "IN_GRACE", "DEFAULTED", "REPAID", "WRITTEN_OFF"}

Date == [y : Nat, m : 1 .. 12]

ASSUME VintageAssumption ==
    /\ \A row \in Row : /\ row.status \in LoanStatus
                        /\ row.predicted \in Nat
                        /\ row.current \in Nat
    /\ Epoch \in Date
    /\ Months \in Nat
    /\ Unit \in Nat \ {0}
    /\ \A k \in 0 .. Months : Blend(k) \in 0 .. Unit

VARIABLES
    asOf,         \* the current month
    rows,         \* rows[l]: row of l, <<>> before its origination
    cohort,       \* cohort[l]
    origination,  \* origination[l]
    elapsed,      \* history: months since Epoch
    born,         \* history: elapsed when l was originated
    realised      \* history: the loans that have ever been DEFAULTED

loanVars == <<rows, cohort, origination, born, realised>>
vars == <<asOf, elapsed, loanVars>>

Book == {l \in Loan : rows[l] # <<>>}

Init ==
    /\ asOf = Epoch
    /\ rows = [l \in Loan |-> <<>>]
    /\ cohort \in [Loan -> Cohort]
    /\ origination = [l \in Loan |-> Epoch]
    /\ elapsed = 0
    /\ born = [l \in Loan |-> 0]
    /\ realised = {}

-----------------------------------------------------------------------------
(* The book moves on (external). *)

NextMonth(d) == IF d.m = 12 THEN [y |-> d.y + 1, m |-> 1] ELSE [d EXCEPT !.m = @ + 1]

MonthPasses ==
    /\ elapsed < Months
    /\ asOf' = NextMonth(asOf)
    /\ elapsed' = elapsed + 1
    /\ UNCHANGED loanVars

Originate(l) ==
    /\ l \notin Book
    /\ \E row \in Row :
         /\ row.status = "ACTIVE"
         /\ rows' = [rows EXCEPT ![l] = row]
    /\ origination' = [origination EXCEPT ![l] = asOf]
    /\ born' = [born EXCEPT ![l] = elapsed]
    /\ UNCHANGED <<asOf, elapsed, cohort, realised>>

Service(l) ==
    /\ l \in Book
    /\ \E row \in Row :
         /\ row.predicted = rows[l].predicted
         /\ rows' = [rows EXCEPT ![l] = row]
         /\ realised' = IF row.status = "DEFAULTED" THEN realised \cup {l} ELSE realised
    /\ UNCHANGED <<asOf, elapsed, cohort, origination, born>>

Next ==
    \/ MonthPasses
    \/ \E l \in Loan : Originate(l) \/ Service(l)

Spec == Init /\ [][Next]_vars

-----------------------------------------------------------------------------
(* build_vintage_curve *)

Floor(n) == IF n < 0 THEN 0 ELSE n

(* mutant: the months of the calendar year only *)
MonthsOfYear(a, b) == Floor(b.m - a.m)

(* Calendar months between two dates, floored to 0. *)
MonthsBetween(a, b) == Floor((b.y - a.y) * 12 + (b.m - a.m))

Mob(l) == MonthsBetween(origination[l], asOf)

Members(c) == {l \in Book : cohort[l] = c}

(* by_mob: the ages in a cohort, and sorted(by_mob) *)
Ages(c) == {Mob(l) : l \in Members(c)}

MobsOf(c) ==
    CHOOSE mobs \in [1 .. Cardinality(Ages(c)) -> Ages(c)] :
        \A i, j \in DOMAIN mobs : i < j => mobs[i] < mobs[j]

DefaultsAt(c, mob) ==
    Cardinality({l \in Members(c) : Mob(l) = mob /\ rows[l].status = "DEFAULTED"})

(* mutant: the defaults of the month, not accumulated *)
DefaultsOfMonth(c, mobs) == [i \in DOMAIN mobs |-> DefaultsAt(c, mobs[i])]

CumulativeDefaults(c, mobs) ==
    LET defaults == [i \in DOMAIN mobs |-> DefaultsAt(c, mobs[i])]
    IN  [i \in DOMAIN mobs |-> SumFunctionOnSet(defaults, 1 .. i)]

(* min(1, average of pd_predicted * Blend), times the size of the cohort,  *)
(* in units of 1 / Unit^2                                                  *)
Expected(c, mob) ==
    LET p == SumFunction([l \in Members(c) |-> rows[l].predicted]) * Blend(mob)
        one == Cardinality(Members(c)) * Unit * Unit
    IN  IF p < one THEN p ELSE one

Curve(c) ==
    LET mobs == MobsOf(c)
        cumulative == CumulativeDefaults(c, mobs)
    IN  [i \in DOMAIN mobs |->
            [months_on_book |-> mobs[i], actual |-> cumulative[i],
             expected |-> Expected(c, mobs[i]), size |-> Cardinality(Members(c))]]

(* compute_pd_drift *)

(* mutant: the loans of every status *)
EverySample == {l \in Book : rows[l].predicted > 0}

DriftSample ==
    {l \in Book : rows[l].status \in {"ACTIVE", "IN_GRACE"} /\ rows[l].predicted > 0}

(* The sum of the ratios less 1, over the product of the denominators. *)
Drift ==
    LET predicted == [l \in DriftSample |-> rows[l].predicted]
        others(l) == FoldFunctionOnSet(LAMBDA p, q : p * q, 1, predicted, DriftSample \ {l})
    IN  SumFunction([l \in DriftSample |->
                       (rows[l].current - rows[l].predicted) * others(l)])

-----------------------------------------------------------------------------
TypeOK ==
    /\ asOf \in Date
    /\ rows \in [Loan -> Row \cup {<<>>}]
    /\ cohort \in [Loan -> Cohort]
    /\ origination \in [Loan -> Date]
    /\ elapsed \in 0 .. Months
    /\ born \in [Loan -> 0 .. Months]
    /\ realised \subseteq Loan

(* Months on book count the midnights of the calendar that turned a month, *)
(* over the end of a year too: a loan's point on the curve moves by one    *)
(* each month and loans of one month stay together.                        *)
MobCountsMonths == \A l \in Book : Mob(l) = elapsed - born[l]

(* The curve of a cohort is a proper cumulative distribution: one point    *)
(* for each age, in order, each with the defaults of its age and younger,  *)
(* the last with all of them (tests/test_vintage_analyzer.py).  Both PDs   *)
(* of a point are probabilities, whatever pd_predicted the book holds (no  *)
(* constraint bounds the column).                                          *)
CurveAccumulates ==
    \A c \in Cohort :
        LET curve == Curve(c)
            upTo(mob) == {l \in Members(c) : Mob(l) <= mob /\ rows[l].status = "DEFAULTED"}
        IN  /\ curve = <<>> <=> Members(c) = {}
            /\ \A i, j \in DOMAIN curve :
                 i < j => curve[i].months_on_book < curve[j].months_on_book
            /\ \A i \in DOMAIN curve :
                 curve[i].actual = Cardinality(upTo(curve[i].months_on_book))
            /\ curve # <<>> =>
                 curve[Len(curve)].actual =
                   Cardinality({l \in Members(c) : rows[l].status = "DEFAULTED"})
            /\ \A i \in DOMAIN curve :
                 /\ curve[i].actual <= curve[i].size
                 /\ curve[i].expected <= curve[i].size * Unit * Unit

(* The drift has a sign only if some loan on the book has strayed from its *)
(* predicted PD that way: loans that have left the book do not count.      *)
DriftHasCause ==
    LET strayed(sign) == \E l \in Book :
            /\ rows[l].status \in {"ACTIVE", "IN_GRACE"}
            /\ rows[l].predicted > 0
            /\ sign * (rows[l].current - rows[l].predicted) > 0
    IN  /\ Drift > 0 => strayed(1)
        /\ Drift < 0 => strayed(-1)

(* Why they hold: IInv is inductive (AnalyticsProofs). *)
MonthNumber(d) == d.y * 12 + d.m

CalendarInv ==
    /\ TypeOK
    /\ MonthNumber(asOf) = MonthNumber(Epoch) + elapsed
    /\ MonthsBetween(Epoch, asOf) = elapsed
    /\ \A l \in Book :
         /\ MonthNumber(origination[l]) = MonthNumber(Epoch) + born[l]
         /\ born[l] <= elapsed

(* Loans are originated one at a time. *)
IInv == CalendarInv /\ IsFiniteSet(Book)

(* vintage_analyzer.py: "'actual' curve is realized DPD>=90 events".  The  *)
(* last point of a cohort counts every loan that has defaulted.  It does   *)
(* not hold: a default that is written off, or cured, vanishes from it.    *)
ActualIsRealised ==
    \A c \in Cohort :
        LET curve == Curve(c)
        IN  curve # <<>> =>
              curve[Len(curve)].actual = Cardinality(Members(c) \cap realised)

=============================================================================
