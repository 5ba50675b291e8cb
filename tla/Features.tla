------------------------------ MODULE Features ------------------------------
(***************************************************************************)
(* build_features (ml/features.py): the features of one loan from the list *)
(* of its events, as the events come in and the days go by.                *)
(*                                                                         *)
(* Time is counted in steps of 1/PerDay of a day, amounts are integers.  A *)
(* ratio is a pair <<numerator, denominator>>, the two deviations stay     *)
(* squared, and sums are exact where the code adds floats.                 *)
(***************************************************************************)
EXTENDS Integers, Sequences, FiniteSets, FiniteSetsExt, Functions

CONSTANTS
    Event,         \* events that may come in: [ts, amount, type]
    Principal,     \* principal_aed
    PerDay,        \* steps in a day
    Start,         \* as_of of the first state
    MaxDays,       \* bound: days that pass
    MaxEvents      \* bound: events of the loan

EventType == {"REPAYMENT", "NSF", "OVERDRAFT", "POS_INFLOW",
              "BANK_DEPOSIT", "MISSED_PAYMENT", "DISBURSEMENT"}

ASSUME FeaturesAssumption ==
    /\ Event \subseteq [ts : Int, amount : Int, type : EventType]
    /\ Principal \in Nat \ {0}
    /\ PerDay \in Nat \ {0}
    /\ Start \in Int
    /\ MaxDays \in Nat
    /\ MaxEvents \in Nat

VARIABLES
    events,        \* loan.events, in the order the database returns them
    asOf           \* as_of
vars == <<events, asOf>>

Init ==
    /\ events = <<>>
    /\ asOf = Start

(* An ingest (loans.py:59-70). *)
Arrive ==
    /\ Len(events) < MaxEvents
    /\ \E e \in Event : events' = Append(events, e)
    /\ UNCHANGED asOf

DayPasses ==
    /\ asOf < Start + MaxDays * PerDay
    /\ asOf' = asOf + PerDay
    /\ UNCHANGED events

Next == Arrive \/ DayPasses

Spec == Init /\ [][Next]_vars

-----------------------------------------------------------------------------
(* Windows over a list E, as sets of its places. *)

(* mutant: days are counted whole *)
WindowWhole(E, days) == {i \in DOMAIN E : (asOf - E[i].ts) \div PerDay <= days}

Window(E, days) == {i \in DOMAIN E : E[i].ts >= asOf - days * PerDay}

Of(E, I, types) == {i \in I : E[i].type \in types}
Inflows(E, I) == {i \in I : E[i].amount > 0}
Outflows(E, I) == {i \in I : E[i].amount < 0}
Total(E, I) == SumFunction([i \in I |-> E[i].amount])
Squares(E, I) == SumFunction([i \in I |-> E[i].amount * E[i].amount])
Size(n) == IF n < 0 THEN -n ELSE n
Turnover(E, I) == SumFunction([i \in I |-> Size(E[i].amount)])
PosInflows(E) == Of(E, Inflows(E, Window(E, 30)), {"POS_INFLOW"})

(* (as_of - e.ts).days *)
Age(e) == (asOf - e.ts) \div PerDay

(* mutant: not sorted *)
Unsorted(E, I) ==
    [k \in 1 .. Cardinality(I) |-> CHOOSE i \in I : Cardinality({j \in I : j < i}) = k - 1]

Earlier(E, i, j) == E[i].ts < E[j].ts \/ (E[i].ts = E[j].ts /\ i < j)

(* sorted(events, key=ts), stable: k - 1 of the places in I come before    *)
(* the k-th.                                                               *)
Sorted(E, I) ==
    [k \in 1 .. Cardinality(I) |->
        CHOOSE i \in I : Cardinality({j \in I : Earlier(E, j, i)}) = k - 1]

-----------------------------------------------------------------------------
(* The features that are more than a count or a sum of a window. *)

(* daily_buckets *)
Buckets(E) ==
    LET W == Window(E, 30)
    IN  [d \in {Age(E[i]) : i \in W} |-> Total(E, {i \in W : Age(E[i]) = d})]

(* The square of the deviation of the buckets, over the square of their number. *)
Volatility(E) ==
    LET B == Buckets(E)
        D == DOMAIN B
        sum == SumFunction(B)
    IN  IF Cardinality(D) > 1
        THEN Cardinality(D) * SumFunction([d \in D |-> B[d] * B[d]]) - sum * sum
        ELSE 0

(* mutant: not clamped *)
InconsistencyUnclamped(E) ==
    LET sum == Total(E, PosInflows(E))
    IN  IF PosInflows(E) = {} THEN <<1, 1>>
        ELSE <<Cardinality(PosInflows(E)) * Squares(E, PosInflows(E)) - sum * sum, sum * sum>>

(* (1 - consistency)^2: the coefficient of variation, clamped. *)
Inconsistency(E) ==
    LET P == PosInflows(E)
        sum == Total(E, P)
        spread == Cardinality(P) * Squares(E, P) - sum * sum
    IN  IF P = {} THEN <<1, 1>>
        ELSE <<IF spread < sum * sum THEN spread ELSE sum * sum, sum * sum>>

Drawdown(E) ==
    LET worst == IF DOMAIN Buckets(E) = {} THEN 0
                 ELSE Min({Buckets(E)[d] : d \in DOMAIN Buckets(E)})
    IN  <<IF worst < 0 THEN -worst ELSE 0, Principal>>

(* days_since_last_inflow *)
Recency(E) ==
    LET s == Sorted(E, DOMAIN E)
        inflows == {k \in DOMAIN s : E[s[k]].amount > 0}
    IN  IF inflows = {} THEN 999 ELSE Age(E[s[Max(inflows)]])

(* pos_inflow_cadence_days: the mean of the gaps.  The gaps are between    *)
(* POS_INFLOW events of any amount.                                        *)
Cadence(E) ==
    LET pos == Sorted(E, Of(E, Window(E, 30), {"POS_INFLOW"}))
        gaps == [i \in 1 .. Len(pos) - 1 |-> E[pos[i + 1]].ts - E[pos[i]].ts]
    IN  IF Cardinality(PosInflows(E)) >= 2
        THEN <<SumFunction(gaps), PerDay * (Len(pos) - 1)>>
        ELSE <<30, 1>>

OverZero(n, d) == IF d > 0 THEN <<n, d>> ELSE <<0, 1>>

CashOnly(E) ==
    OverZero(Total(E, Of(E, Inflows(E, Window(E, 30)), {"BANK_DEPOSIT"})),
             Total(E, Inflows(E, Window(E, 30))))

(* ts.weekday() in (5, 6), day 0 being a Monday *)
Weekend(E) ==
    LET W == Window(E, 30)
    IN  OverZero(Cardinality({i \in W : (E[i].ts \div PerDay) % 7 \in {5, 6}}), Cardinality(W))

(* The vector, by feature. *)
Vector(E) ==
    LET W == Window(E, 30)
        Q == Window(E, 90)
        inflow == Total(E, Inflows(E, W))
        outflow == Turnover(E, Outflows(E, W))
        count(type) == Cardinality(Of(E, Q, {type}))
    IN  [cashflow_volatility_30d |-> Volatility(E),
         pos_inflow_consistency_score |-> Inconsistency(E),
         nsf_event_count_90d |-> count("NSF"),
         overdraft_count_90d |-> count("OVERDRAFT"),
         missed_payment_count_90d |-> count("MISSED_PAYMENT"),
         avg_balance_30d |-> <<inflow - outflow, 30>>,
         inflow_outflow_ratio |-> OverZero(inflow, outflow),
         inflow_total_30d |-> inflow,
         outflow_total_30d |-> outflow,
         event_count_30d |-> Cardinality(W),
         max_drawdown_pct |-> Drawdown(E),
         days_since_last_inflow |-> Recency(E),
         cash_only_inflow_ratio |-> CashOnly(E),
         repayment_to_principal_ratio |-> <<Turnover(E, Of(E, W, {"REPAYMENT"})), Principal>>,
         avg_pos_inflow_amt |-> OverZero(Total(E, PosInflows(E)), Cardinality(PosInflows(E))),
         pos_inflow_cadence_days |-> Cadence(E),
         weekend_activity_ratio |-> Weekend(E),
         large_outflow_count_30d |->
            Cardinality({i \in Outflows(E, W) : 20 * Size(E[i].amount) >= Principal})]

-----------------------------------------------------------------------------
TypeOK == events \in Seq(Event) /\ asOf \in Int

(* The list of the events at the places p[1], p[2] ... of events. *)
Listed(p) == [k \in DOMAIN p |-> events[p[k]]]

(* Ways to list n events, each at most once. *)
Listings(n) == {p \in [1 .. n -> DOMAIN events] : IsInjective(p)}

(* features.py:78, "Order does not matter": rows come back from the        *)
(* database in any order, the vector is that of the set of events.         *)
OrderDoesNotMatter ==
    LET V == Vector(events)
    IN  \A p \in Listings(Len(events)) : Vector(Listed(p)) = V

(* The shares are shares, and the cadence is a length of time: what the    *)
(* model was trained on and nothing beyond, whatever the signs of the      *)
(* amounts (EventIngest bounds neither sign nor size).                     *)
SharesInRange ==
    LET V == Vector(events)
        share(r) == 0 <= r[1] /\ r[1] <= r[2] /\ r[2] > 0
    IN  /\ share(V.pos_inflow_consistency_score)
        /\ share(V.cash_only_inflow_ratio)
        /\ share(V.weekend_activity_ratio)
        /\ V.pos_inflow_cadence_days[1] >= 0 /\ V.pos_inflow_cadence_days[2] > 0

(* Events older than 90 days count for nothing but the days since the last *)
(* inflow: leaving some of them out leaves the rest of the vector as it is.*)
OldEventsForgotten ==
    LET but(V) == [V EXCEPT !.days_since_last_inflow = 0]
        rest == but(Vector(events))
        recent == {i \in DOMAIN events : events[i].ts >= asOf - 90 * PerDay}
    IN  \A n \in 0 .. Len(events) : \A p \in Listings(n) :
            recent \subseteq {p[k] : k \in 1 .. n} =>
                but(Vector(Listed(p))) = rest

(* features.py:79, "features look back from here".  It does not hold: the  *)
(* windows have no upper end, and the ts of an event is what its sender    *)
(* says (schemas/event.py:20).                                             *)
LooksBack ==
    LET past == SelectSeq(events, LAMBDA e : e.ts <= asOf)
    IN  Vector(past) = Vector(events)

=============================================================================
