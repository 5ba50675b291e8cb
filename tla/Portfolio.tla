------------------------------ MODULE Portfolio -----------------------------
(***************************************************************************)
(* GET /v1/portfolio/health (api/routes/portfolio.py): three SELECTs over  *)
(* table loans (services/portfolio_service.py), each of which sees what is *)
(* committed when it runs, then the worker's three gauges are set.         *)
(* Queries overlap, loans are rewritten between the SELECTs, and the       *)
(* counting of recent defaults goes by updated_at (db/base.py).            *)
(*                                                                         *)
(* A sum is represented by the amounts that it adds up, the PD drift by    *)
(* the rows that it is computed from; the average case score, one more     *)
(* column of the first SELECT, is left out.                                *)
(***************************************************************************)
EXTENDS Integers, FiniteSets

CONSTANTS
    Loan,         \* ids with a row in table loans
    Row,          \* what a row may say: [status, outstanding]
    Query,        \* callers of GET /v1/portfolio/health, one call at a time
    Worker,       \* worker processes, each with its own gauges
    ServedBy,     \* ServedBy[q]: the worker that q reaches
    Window,       \* the 30 days of a recent default
    Horizon       \* bound: the last day that is looked at

LoanStatus == {"ACTIVE", "IN_GRACE", "DEFAULTED", "REPAID", "WRITTEN_OFF"}

ASSUME PortfolioAssumption ==
    /\ IsFiniteSet(Loan)
    /\ Row \subseteq [status : LoanStatus, outstanding : Int]
    /\ ServedBy \in [Query -> Worker]
    /\ Window \in Nat
    /\ Horizon \in Nat

VARIABLES
    today,        \* the day, counted from the seeding of the table
    loans,        \* committed rows
    updated,      \* updated[l]: the day of loans.updated_at
    defaulted,    \* history: the day l last became DEFAULTED
    stage,        \* stage[q]: how far q's current or last call has come
    totals,       \* totals[q]: what its first SELECT returned
    recent,       \* recent[q]: what its second SELECT returned
    book,         \* book[q]: <<loan, row>> as its third SELECT returned them
    quiet,        \* history: no loan was written since q's first SELECT
    raced,        \* history: another call of q's worker was under way too
    before,       \* history: recent defaults when q's first SELECT ran
    after,        \* history: active loans when q's second SELECT ran
    downhill,     \* history: no loan became active or left default between
    gauges        \* gauges[w]: the portfolio gauges that w exposes

tableVars == <<today, loans, updated, defaulted>>
betweenVars == <<before, after, downhill>>
queryVars == <<stage, totals, recent, book, quiet, raced, betweenVars>>
vars == <<tableVars, queryVars, gauges>>

-----------------------------------------------------------------------------
(* The KPIs. *)

With(status) == {l \in Loan : loans[l].status = status}

TotalsNow ==
    [aum |-> [l \in Loan |-> loans[l].outstanding],
     active |-> Cardinality(With("ACTIVE")),
     defaulted |-> Cardinality(With("DEFAULTED"))]

RecentNow == Cardinality({l \in With("DEFAULTED") : updated[l] >= today - Window})

BookNow == {<<l, loans[l]>> : l \in With("ACTIVE") \cup With("IN_GRACE")}

(* default_rate_30d as <<numerator, denominator>> *)
DefaultRate(active, defaults) ==
    <<defaults, IF active + defaults = 0 THEN 1 ELSE active + defaults>>

(* What a worker that has just started exposes. *)
NoAmount == [l \in Loan |-> 0]
Zeroes == [aum |-> NoAmount, active |-> 0, rate |-> <<0, 1>>]

(* mutant: the denominator is that of the first SELECT's moment *)
KpisOfFirst(q) ==
    [aum |-> totals[q].aum, active |-> totals[q].active,
     rate |-> <<recent[q], DefaultRate(totals[q].active, before[q])[2]>>]

Kpis(q) ==
    [aum |-> totals[q].aum, active |-> totals[q].active,
     rate |-> DefaultRate(totals[q].active, recent[q])]

-----------------------------------------------------------------------------
NoTotals == [aum |-> NoAmount, active |-> 0, defaulted |-> 0]

(* The table is seeded on day 0. *)
Init ==
    /\ today = 0
    /\ loans \in [Loan -> Row]
    /\ updated = [l \in Loan |-> 0]
    /\ defaulted = [l \in Loan |-> 0]
    /\ stage = [q \in Query |-> "idle"]
    /\ totals = [q \in Query |-> NoTotals]
    /\ recent = [q \in Query |-> 0]
    /\ book = [q \in Query |-> {}]
    /\ quiet = [q \in Query |-> FALSE]
    /\ raced = [q \in Query |-> FALSE]
    /\ before = [q \in Query |-> 0]
    /\ after = [q \in Query |-> 0]
    /\ downhill = [q \in Query |-> FALSE]
    /\ gauges = [w \in Worker |-> Zeroes]

UnderWay == {q \in Query : stage[q] \in {"totalled", "counted"}}

(* The other calls that the worker of q is at work on. *)
Rivals(q) == {p \in UnderWay \ {q} : ServedBy[p] = ServedBy[q]}

Reach(q, s) == stage' = [stage EXCEPT ![q] = s]

SelectTotals(q) ==
    /\ stage[q] \in {"idle", "answered"}
    /\ Reach(q, "totalled")
    /\ totals' = [totals EXCEPT ![q] = TotalsNow]
    /\ recent' = [recent EXCEPT ![q] = 0]
    /\ book' = [book EXCEPT ![q] = {}]
    /\ quiet' = [quiet EXCEPT ![q] = TRUE]
    /\ raced' = [p \in Query |-> IF p = q THEN Rivals(q) # {} ELSE raced[p] \/ p \in Rivals(q)]
    /\ before' = [before EXCEPT ![q] = RecentNow]
    /\ after' = [after EXCEPT ![q] = 0]
    /\ downhill' = [downhill EXCEPT ![q] = TRUE]
    /\ UNCHANGED <<tableVars, gauges>>

(* mutant: the window starts a day late *)
SelectRecentLate(q) ==
    /\ stage[q] = "totalled"
    /\ Reach(q, "counted")
    /\ recent' = [recent EXCEPT ![q] =
                    Cardinality({l \in With("DEFAULTED") : updated[l] > today - Window})]
    /\ after' = [after EXCEPT ![q] = TotalsNow.active]
    /\ UNCHANGED <<tableVars, totals, book, quiet, raced, before, downhill, gauges>>

SelectRecent(q) ==
    /\ stage[q] = "totalled"
    /\ Reach(q, "counted")
    /\ recent' = [recent EXCEPT ![q] = RecentNow]
    /\ after' = [after EXCEPT ![q] = TotalsNow.active]
    /\ UNCHANGED <<tableVars, totals, book, quiet, raced, before, downhill, gauges>>

(* The history of what came between the SELECTs ends with the call. *)
ForgetBetween(calls) ==
    /\ before' = [q \in Query |-> IF q \in calls THEN 0 ELSE before[q]]
    /\ after' = [q \in Query |-> IF q \in calls THEN 0 ELSE after[q]]
    /\ downhill' = [q \in Query |-> q \notin calls /\ downhill[q]]

(* mutant: the gauges are set once, by the first call *)
AnswerOnce(q) ==
    /\ stage[q] = "counted"
    /\ Reach(q, "answered")
    /\ book' = [book EXCEPT ![q] = BookNow]
    /\ gauges' = [gauges EXCEPT ![ServedBy[q]] = IF @ = Zeroes THEN Kpis(q) ELSE @]
    /\ ForgetBetween({q})
    /\ UNCHANGED <<tableVars, totals, recent, quiet, raced>>

(* The third SELECT returns; from there to the reply nothing is awaited. *)
Answer(q) ==
    /\ stage[q] = "counted"
    /\ Reach(q, "answered")
    /\ book' = [book EXCEPT ![q] = BookNow]
    /\ gauges' = [gauges EXCEPT ![ServedBy[q]] = Kpis(q)]
    /\ ForgetBetween({q})
    /\ UNCHANGED <<tableVars, totals, recent, quiet, raced>>

(* Calls end without an answer, and what they have read is gone. *)
Forget(calls) ==
    /\ stage' = [q \in Query |-> IF q \in calls THEN "idle" ELSE stage[q]]
    /\ totals' = [q \in Query |-> IF q \in calls THEN NoTotals ELSE totals[q]]
    /\ recent' = [q \in Query |-> IF q \in calls THEN 0 ELSE recent[q]]
    /\ book' = [q \in Query |-> IF q \in calls THEN {} ELSE book[q]]
    /\ quiet' = [q \in Query |-> IF q \in calls THEN FALSE ELSE quiet[q]]
    /\ raced' = [q \in Query |-> IF q \in calls THEN FALSE ELSE raced[q]]
    /\ ForgetBetween(calls)

(* A SELECT fails: 500, and the gauges stay what they are. *)
QueryFails(q) ==
    /\ q \in UnderWay
    /\ Forget({q})
    /\ UNCHANGED <<tableVars, gauges>>

(* A worker dies and is restarted. *)
Crash(w) ==
    /\ Forget({q \in UnderWay : ServedBy[q] = w})
    /\ gauges' = [gauges EXCEPT ![w] = Zeroes]
    /\ UNCHANGED tableVars

Between(q) == stage[q] = "totalled"

(* The row says that l is active, or not in default, only if it was.       *)
Downhill(l, row) ==
    /\ row.status = "ACTIVE" => loans[l].status = "ACTIVE"
    /\ loans[l].status = "DEFAULTED" => row.status = "DEFAULTED"

(* The servicing system (external) rewrites a row through the models of    *)
(* db/models.py: whatever column it changes, onupdate dates the row today. *)
Service(l) ==
    /\ \E row \in Row :
         /\ loans' = [loans EXCEPT ![l] = row]
         /\ defaulted' = [defaulted EXCEPT ![l] =
              IF row.status = "DEFAULTED" /\ loans[l].status # "DEFAULTED"
              THEN today ELSE @]
         /\ downhill' = [q \in Query |-> downhill[q] /\ (Between(q) => Downhill(l, row))]
    /\ updated' = [updated EXCEPT ![l] = today]
    /\ quiet' = [q \in Query |-> FALSE]
    /\ UNCHANGED <<today, stage, totals, recent, book, raced, before, after, gauges>>

(* Midnight.  A query that straddles it is not quiet: the window moves on. *)
DayPasses ==
    /\ today < Horizon
    /\ today' = today + 1
    /\ quiet' = [q \in Query |-> FALSE]
    /\ downhill' = [q \in Query |-> downhill[q] /\ ~Between(q)]
    /\ UNCHANGED <<loans, updated, defaulted, stage, totals, recent, book, raced,
                   before, after, gauges>>

Next ==
    \/ \E q \in Query :
         SelectTotals(q) \/ SelectRecent(q) \/ Answer(q) \/ QueryFails(q)
    \/ \E w \in Worker : Crash(w)
    \/ \E l \in Loan : Service(l)
    \/ DayPasses

Spec == Init /\ [][Next]_vars

-----------------------------------------------------------------------------
Kpi == [aum : [Loan -> Int], active : Nat, rate : Nat \X (Nat \ {0})]

TypeOK ==
    /\ today \in 0 .. Horizon
    /\ loans \in [Loan -> Row]
    /\ updated \in [Loan -> 0 .. Horizon]
    /\ defaulted \in [Loan -> 0 .. Horizon]
    /\ stage \in [Query -> {"idle", "totalled", "counted", "answered"}]
    /\ totals \in [Query -> [aum : [Loan -> Int], active : Nat, defaulted : Nat]]
    /\ recent \in [Query -> Nat]
    /\ book \in [Query -> SUBSET (Loan \X Row)]
    /\ quiet \in [Query -> BOOLEAN]
    /\ raced \in [Query -> BOOLEAN]
    /\ before \in [Query -> Nat]
    /\ after \in [Query -> Nat]
    /\ downhill \in [Query -> BOOLEAN]
    /\ gauges \in [Worker -> Kpi]

(* metrics.py: "Trailing-30-day default rate (0..1)".  It stays in the     *)
(* range although numerator and denominator come from two SELECTs between  *)
(* which loans may default or recover.                                     *)
RateWithinRange == \A w \in Worker : gauges[w].rate[1] <= gauges[w].rate[2]

AtMost(r, s) == r[1] * s[2] <= s[1] * r[2]

(* The rate is made of two statements between which loans may default: the *)
(* active loans of the one, the recent defaults of the other.  If loans did *)
(* nothing but go downhill between them, the rate it will answer is no     *)
(* lower than the rate was at the first and no higher than at the second:  *)
(* torn as the answer is, it is not beyond the rates of the meantime.      *)
RateOfTheMeantime ==
    \A q \in Query :
        stage[q] = "counted" /\ downhill[q] =>
            /\ AtMost(DefaultRate(totals[q].active, before[q]), Kpis(q).rate)
            /\ AtMost(Kpis(q).rate, DefaultRate(after[q], recent[q]))

DefaultedLately == {l \in With("DEFAULTED") : defaulted[l] >= today - Window}

(* "default_rate_30d" goes by updated_at and still misses no loan that     *)
(* defaulted in the window.  It may count more, but only loans that were   *)
(* written in the window after they had defaulted.                         *)
RecentCoversDefaults ==
    \A q \in Query :
        stage[q] = "answered" /\ quiet[q] =>
            LET rewritten == {l \in With("DEFAULTED") :
                                defaulted[l] < updated[l] /\ updated[l] >= today - Window}
            IN  recent[q] = Cardinality(DefaultedLately \cup rewritten)

Shows(w) == gauges[w].aum = TotalsNow.aum /\ gauges[w].active = TotalsNow.active
            /\ gauges[w].rate = DefaultRate(TotalsNow.active, RecentNow)

(* portfolio.py: "refreshes Prometheus gauges so dashboards stay in sync". *)
(* A worker shows the KPIs as they are once a call has been answered that  *)
(* no write came between and no other call to the worker overlapped, or it *)
(* has been restarted: calls that follow keep it so until the next write.  *)
StaleNeedsOverlap ==
    \A q \in Query :
        stage[q] = "answered" /\ quiet[q] /\ ~raced[q] =>
            Shows(ServedBy[q]) \/ gauges[ServedBy[q]] = Zeroes

(* Why the above hold: a quiet call agrees with the table as far as it has *)
(* come, calls of a worker know of each other, and while the gauges are as *)
(* they should be the calls under way will leave them so.  IInv is         *)
(* inductive (PortfolioProofs).                                            *)
QuietSoFar ==
    \A q \in Query :
        quiet[q] =>
            /\ totals[q] = TotalsNow
            /\ stage[q] \in {"counted", "answered"} => recent[q] = RecentNow
            /\ stage[q] = "answered" => book[q] = BookNow

RivalsRace == \A q \in UnderWay : Rivals(q) # {} => raced[q]

InSync ==
    \A q \in Query :
        stage[q] = "answered" /\ quiet[q] /\ ~raced[q] =>
            /\ Shows(ServedBy[q]) \/ gauges[ServedBy[q]] = Zeroes
            /\ \A p \in Rivals(q) : quiet[p]

(* Downhill there are ever fewer active loans and more recent defaults.    *)
DownhillSoFar ==
    \A q \in Query :
        downhill[q] =>
            /\ Between(q) => before[q] <= RecentNow /\ TotalsNow.active <= totals[q].active
            /\ stage[q] = "counted" => before[q] <= recent[q] /\ after[q] <= totals[q].active

UpdatedSince == \A l \in Loan : defaulted[l] <= updated[l] /\ updated[l] <= today

IInv ==
    /\ TypeOK /\ QuietSoFar /\ RateWithinRange /\ RivalsRace /\ InSync
    /\ DownhillSoFar /\ UpdatedSince

(* portfolio.py: "refreshes Prometheus gauges so dashboards stay in sync". *)
(* When no call is under way and a call has answered since the last write, *)
(* its worker shows the KPIs as they are.  It does not hold: of two calls  *)
(* that overlap, the one that read first may answer last.                  *)
GaugesInSync ==
    \A w \in Worker :
        /\ UnderWay = {}
        /\ \E q \in Query : ServedBy[q] = w /\ stage[q] = "answered" /\ quiet[q]
        => \/ gauges[w] = Zeroes
           \/ gauges[w].aum = TotalsNow.aum /\ gauges[w].active = TotalsNow.active

(* metrics.py: "Trailing-30-day default rate".  An exact answer counts the *)
(* loans that defaulted in the window.  It does not hold: it counts the    *)
(* defaulted loans whose row was written in the window, for any reason.    *)
RecentDefaultsAreRecent ==
    \A q \in Query :
        stage[q] = "answered" /\ quiet[q] =>
            recent[q] = Cardinality(DefaultedLately)

=============================================================================
