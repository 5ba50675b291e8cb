----------------------------- MODULE Generator -----------------------------
(***************************************************************************)
(* One loan and its events as scripts/generate_synthetic_data.py makes     *)
(* them up: every draw is a choice, and of a week's events only their      *)
(* kinds and times are kept.                                               *)
(*                                                                         *)
(* Hours are counted from midnight UTC of the day of as_of_dt, days from   *)
(* that day.  as_of_date is date.today(), of the local time zone.  A pd is *)
(* counted in 1/10000, its factor in tenths, and as_of has no minutes.     *)
(***************************************************************************)
EXTENDS Integers, FiniteSets

CONSTANTS
    Tenor,         \* tenors to draw from
    MaxMonths,     \* the oldest loan
    Principal,     \* principal_aed
    Predicted,     \* pd_predicted, clipped to 0.005 .. 0.4
    Factor,        \* pd_current / pd_predicted, of all behaviours
    Dpd,           \* days past due, of all behaviours
    Day,           \* day of an event in its week
    Hour,          \* hours that a POS inflow is past the start of its day
    Clock,         \* hour of as_of_dt
    Zone,          \* offset of the local time zone, in hours
    noLoan         \* no loan yet

ASSUME GeneratorAssumption ==
    /\ Tenor \subseteq Nat \ {0}
    /\ MaxMonths \in 0 .. 24
    /\ Principal \in Nat \ {0}
    /\ Predicted \subseteq 50 .. 4000
    /\ Factor \subseteq Nat
    /\ Dpd \subseteq Nat
    /\ Day \subseteq 0 .. 6
    /\ Hour \subseteq 8 .. 22
    /\ Clock \subseteq 0 .. 23
    /\ Zone \subseteq -12 .. 14

VARIABLES
    clock,         \* as_of_dt
    today,         \* as_of_date
    loan,          \* the loan
    week,          \* the weeks w that are done
    batch,         \* the events of the last of them: [type, ts]
    settled        \* REPAYMENT or MISSED_PAYMENT events that are due payments

generatorVars == <<clock, today, loan, week, batch, settled>>

GeneratorInit ==
    /\ clock \in Clock
    /\ \E zone \in Zone : today = (clock + zone) \div 24
    /\ loan = noLoan
    /\ week = 0
    /\ batch = {}
    /\ settled = 0

-----------------------------------------------------------------------------
(* synthesize_loan *)

Smaller(a, b) == IF a < b THEN a ELSE b
Larger(a, b) == IF a > b THEN a ELSE b

(* What becomes of a loan that was given p. *)
Realised(p) ==
    LET current(low, high) == {(p * f) \div 10 : f \in Factor \cap (low .. high)}
        outcome(behavior, status, low, high, pds) ==
            [behavior : {behavior}, status : {status}, dpd : Dpd \cap (low .. high), pd_current : pds]
        clipped == {Smaller(10000, q) : q \in current(30, 60)}
    IN  UNION {outcome("good", "ACTIVE", 0, 14, current(7, 12)),
               outcome("bumpy", "ACTIVE", 15, 29, current(15, 28)),
               outcome("bumpy", "IN_GRACE", 30, 60, current(15, 28)),
               outcome("bad", "IN_GRACE", 60, 89, clipped),
               outcome("bad", "DEFAULTED", 90, 120, clipped)}

Outstanding(tenor, months, status) ==
    IF status = "DEFAULTED" THEN (6 * Principal) \div 10
    ELSE (Principal * (tenor - months)) \div tenor

SynthesizeLoan ==
    /\ loan = noLoan
    /\ \E tenor \in Tenor, p \in Predicted :
       \E months \in 0 .. Smaller(tenor, MaxMonths), r \in Realised(p) :
         loan' = [behavior |-> r.behavior, status |-> r.status, dpd |-> r.dpd,
                  pd_predicted |-> p, pd_current |-> r.pd_current,
                  origination |-> today - 30 * months,
                  outstanding |-> Outstanding(tenor, months, r.status)]
    /\ UNCHANGED <<clock, today, week, batch, settled>>

-----------------------------------------------------------------------------
(* synthesize_events *)

(* months_ago, anew, from the date of as_of_dt, which is day 0 *)
Months == (0 - loan.origination) \div 30

(* mutant: as many weeks as there were days *)
WeeksByDays == Larger(1, (0 - loan.origination + 7) \div 7)

WeeksActive == Larger(1, Months * 4)

(* week_ts *)
WeekStart(w) == clock - 168 * (WeeksActive - w)

PosPerWeek ==
    CASE loan.behavior = "good" -> 3 .. 5
      [] loan.behavior = "bumpy" -> 2 .. 4
      [] loan.behavior = "bad" -> 0 .. 2

At(type, hours) == {[type |-> type, ts |-> WeekStart(week) + h] : h \in hours}

(* Up to n inflows: two may fall on the same hour. *)
PosInflows ==
    UNION {{At("POS_INFLOW", H) : H \in {X \in SUBSET {24 * d + h : d \in Day, h \in Hour} :
                                            Cardinality(X) <= n /\ (X = {} <=> n = 0)}} :
           n \in PosPerWeek}

(* An event of the type on some day of the week, or none. *)
Perhaps(type) == {{}} \cup {At(type, {24 * d}) : d \in Day}

(* mutant: the cadence is off by one *)
DueFirst(w) == w % 4 = 0

Due(w) == w % 4 = 3

Settlement == {At(type, {48}) : type \in {"REPAYMENT", "MISSED_PAYMENT"}}

(* One turn of the loop over range(weeks_active). *)
SynthesizeWeek ==
    /\ loan # noLoan
    /\ week < WeeksActive
    /\ \E pos \in PosInflows, nsf \in Perhaps("NSF"), overdraft \in Perhaps("OVERDRAFT") :
       \E payment \in IF Due(week) THEN Settlement ELSE Perhaps("MISSED_PAYMENT") :
         batch' = UNION {pos, nsf, overdraft, payment}
    /\ settled' = settled + (IF Due(week) THEN 1 ELSE 0)
    /\ week' = week + 1
    /\ UNCHANGED <<clock, today, loan>>

GeneratorNext == SynthesizeLoan \/ SynthesizeWeek

GeneratorSpec == GeneratorInit /\ [][GeneratorNext]_generatorVars

-----------------------------------------------------------------------------
GeneratorTypeOK ==
    /\ clock \in 0 .. 23
    /\ today \in -1 .. 1
    /\ loan # noLoan => loan.origination \in Int /\ loan.dpd \in Nat /\ loan.pd_current \in Nat
    /\ week \in Nat
    /\ batch \subseteq [type : {"POS_INFLOW", "REPAYMENT", "MISSED_PAYMENT", "NSF", "OVERDRAFT"}, ts : Int]
    /\ settled \in Nat

(* The history of a loan lies between its origination and now, whatever    *)
(* the time zone and the hour at which the script runs: training and the   *)
(* first sweep see no event to come.  Only a loan of today has events of   *)
(* the week before it existed.                                             *)
EventsWithinLife ==
    \A e \in batch :
        /\ e.ts < clock
        /\ loan.origination < today => e.ts >= 24 * loan.origination

(* A loan of m months has had m payments due, or one less where the local  *)
(* date is ahead of UTC: counting four weeks to the month loses no month   *)
(* that is counted in thirty days.                                         *)
SettledMonthly ==
    loan # noLoan /\ week = WeeksActive =>
        LET months == (today - loan.origination) \div 30
        IN  settled = Larger(0, IF today > 0 THEN months - 1 ELSE months)

(* A seeded loan that is on the book (scanner.py:53) is less than 90 days  *)
(* past due, and one of 30 days is not ACTIVE: the limits that the scanner *)
(* has by default find breaches in the seeded book, and none that is       *)
(* CRITICAL.                                                               *)
StatusFollowsDpd ==
    loan # noLoan =>
        /\ loan.status # "DEFAULTED" <=> loan.dpd < 90
        /\ loan.status = "ACTIVE" <=> loan.dpd < 30

(* A pd_current that is no probability is that of a loan that is bumpy and *)
(* started above 0.35: the one product that is not clipped.                *)
PdAboveOneHasCause ==
    loan # noLoan /\ loan.pd_current > 10000 =>
        loan.behavior = "bumpy" /\ loan.pd_predicted > 3500

(* Why these hold.  GeneratorIInv is inductive (ScriptsProofs). *)

(* A loan is a whole number of months of thirty days old, by local time. *)
WholeMonths == loan # noLoan => \E m \in 0 .. MaxMonths : loan.origination = today - 30 * m

(* The week that was done last lies in its place before now, and every     *)
(* fourth has settled a payment.                                           *)
WeekInPlace ==
    /\ loan = noLoan => week = 0
    /\ week = 0 => batch = {}
    /\ loan # noLoan => week <= WeeksActive
    /\ \A e \in batch : WeekStart(week - 1) <= e.ts /\ e.ts < WeekStart(week)
    /\ settled = week \div 4

GeneratorIInv ==
    /\ GeneratorTypeOK /\ WholeMonths /\ WeekInPlace
    /\ StatusFollowsDpd /\ PdAboveOneHasCause

(* generate_synthetic_data.py:3, "realistic-shape portfolio".  That no     *)
(* loan is past due for longer than it has existed does not hold: days     *)
(* past due and age are drawn apart.                                       *)
DpdWithinLife == loan # noLoan => loan.dpd <= today - loan.origination

=============================================================================
