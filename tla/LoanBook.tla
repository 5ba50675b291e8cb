------------------------------ MODULE LoanBook ------------------------------
(***************************************************************************)
(* The two tables that requests and passes write, their rows               *)
(* (db/models.py), and the decisions the service takes over them: is a     *)
(* score an anomaly, how severe is it, what does a days-past-due count     *)
(* call for.  Ingest, Scanner and Sentinel are written over these          *)
(* definitions.                                                            *)
(*                                                                         *)
(* Data that no property tells apart is abstracted: an event row is the    *)
(* POST that inserts it, and what the feature vector and the ONNX model    *)
(* make of a set of events is one unknown function, Score.                 *)
(***************************************************************************)
EXTENDS Integers

CONSTANTS
    Loan,             \* ids with a row in table loans
    Funded,           \* the loans whose principal_aed is positive
    Request,          \* attempts at POST /v1/loans/events, each its own ULID
    Body,             \* Body[r]: the payload that attempt r carries
    LoanId,           \* LoanId[b]: the loan_id in payload b, known or not
    Sweeper,          \* callers of Scanner.run_once
    Worker,           \* uvicorn worker processes, over all pods
    Threshold,        \* SENTINEL_ANOMALY_THRESHOLD, scaled to an integer
    WarningDays,      \* SENTINEL_DPD_WARNING_DAYS
    DefaultDays,      \* SENTINEL_DPD_DEFAULT_DAYS
    Score(_)          \* decision_function of the features of a set of events

ASSUME BookAssumption ==
    /\ Funded \subseteq Loan
    /\ Request \cap Sweeper = {}
    /\ Threshold \in Int
    /\ WarningDays \in Nat \ {0}
    /\ DefaultDays \in Nat \ {0}

VARIABLES
    events,           \* committed rows of loan_events
    anomalies         \* committed rows of anomalies

ASSUME ScoreAssumption == \A E \in SUBSET Request : Score(E) \in Int

-----------------------------------------------------------------------------
(* Rows. *)

LoanStatus == {"ACTIVE", "IN_GRACE", "DEFAULTED", "REPAID", "WRITTEN_OFF"}

LoanRow == [status: LoanStatus, dpd: Nat]

(* Rows of loan_events are named by the request that inserts them. *)
LoanOf(r) == LoanId[Body[r]]
EventsOf(l, E) == {r \in E : LoanOf(r) = l}

(* Who inserted an anomaly row: a request, or a sweeper in its n-th pass.   *)
(* `by` stands for the row's ULID; `seen`, the events the verdict was taken *)
(* on, is history and has no column.                                        *)
Author == (Request \X {0}) \cup (Sweeper \X Nat)

Anomaly == [by: Author, loan: Loan,
            type: {"BEHAVIORAL", "DPD_BREACH"},
            severity: {"WARNING", "CRITICAL"},
            score: Int, seen: SUBSET Request]

-----------------------------------------------------------------------------
(* Decisions. *)

(* The statuses a sweep covers. *)
OnBook(row) == row.status \in {"ACTIVE", "IN_GRACE"}

(* build_features raises for a loan whose principal is not positive. *)
Scorable(l) == l \in Funded

IsAnomaly(s) == s < Threshold

(* score < threshold * 1.5, over the integers *)
BehavioralSeverity(s) ==
    IF 2 * s < 3 * Threshold THEN "CRITICAL" ELSE "WARNING"

(* mutant: beyond the limit, not at it *)
DpdSeverityStrict(dpd) ==
    CASE dpd > DefaultDays -> {"CRITICAL"}
      [] dpd <= DefaultDays /\ dpd > WarningDays -> {"WARNING"}
      [] OTHER -> {}

(* mutant: the second branch is an if, not an elif *)
DpdSeverityBoth(dpd) ==
    {sev \in {"CRITICAL", "WARNING"} :
        dpd >= (IF sev = "CRITICAL" THEN DefaultDays ELSE WarningDays)}

(* At most one: the warning branch is an elif. *)
DpdSeverity(dpd) ==
    CASE dpd >= DefaultDays -> {"CRITICAL"}
      [] dpd < DefaultDays /\ dpd >= WarningDays -> {"WARNING"}
      [] OTHER -> {}

(* The row an ingest adds for a flagged score: always a WARNING. *)
InlineAlert(r, seen) ==
    {a \in {[by |-> <<r, 0>>, loan |-> LoanOf(r), type |-> "BEHAVIORAL",
             severity |-> "WARNING", score |-> Score(seen), seen |-> seen]} :
        IsAnomaly(a.score)}

(* mutant: the CRITICAL branch adds no row *)
BehavioralAlertMild(by, l, seen) ==
    {a \in {[by |-> by, loan |-> l, type |-> "BEHAVIORAL",
             severity |-> BehavioralSeverity(Score(seen)),
             score |-> Score(seen), seen |-> seen]} :
        IsAnomaly(a.score) /\ a.severity = "WARNING"}

(* The rows a pass adds for one loan: the ML signal and the rules signal. *)
BehavioralAlert(by, l, seen) ==
    {a \in {[by |-> by, loan |-> l, type |-> "BEHAVIORAL",
             severity |-> BehavioralSeverity(Score(seen)),
             score |-> Score(seen), seen |-> seen]} :
        IsAnomaly(a.score)}

DpdAlert(by, l, dpd) ==
    {[by |-> by, loan |-> l, type |-> "DPD_BREACH", severity |-> sev,
      score |-> dpd, seen |-> {}] : sev \in DpdSeverity(dpd)}

SweepAlerts(by, l, dpd, seen) ==
    BehavioralAlert(by, l, seen) \cup DpdAlert(by, l, dpd)

=============================================================================
