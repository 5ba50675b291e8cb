------------------------------- MODULE Scanner ------------------------------
(***************************************************************************)
(* Scanner.run_once (services/scanner.py): one pass reads the active book, *)
(* then the events of the loans it read, scores every loan, and commits    *)
(* all the anomalies of the pass together.  The background loop of every   *)
(* worker calls it over and over (main.py), POST /v1/anomalies/scan calls  *)
(* it on demand, and passes overlap: nothing locks the book.               *)
(*                                                                         *)
(* As in Ingest a step runs from one await to the next, statements are     *)
(* READ COMMITTED, database calls fail, commits can be torn and workers    *)
(* die.  Loan rows change only by the hand of the loan-servicing system,   *)
(* which is outside the repository.                                        *)
(***************************************************************************)
EXTENDS LoanBook, FiniteSets

CONSTANTS
    Home,         \* Home[s]: the worker that sweeper s runs in
    Background,   \* the sweepers that are scanner loops; the others are POSTs
    Row,          \* loan rows the servicing system writes
    MaxRound      \* bound: passes from the MaxRound-th on share one number

ASSUME SweeperAssumption ==
    /\ Home \in [Sweeper -> Worker]
    /\ Background \subseteq Sweeper
    /\ Row \subseteq LoanRow
    /\ MaxRound \in Nat

VARIABLES
    loans,        \* committed rows of loans
    mode,         \* mode[s]: how far s's current or last pass has come
    round,        \* round[s]: the number of that pass
    book,         \* book[s]: <<loan, dpd>> as its first SELECT returned them
    read,         \* read[s]: the events committed at its second SELECT
    found,        \* found[s]: the rows added to its session (new_ids)
    gauge,        \* gauge[w]: the rows w's sentinel_anomalies_active counts
    completed     \* what incremented sentinel_scanner_runs_total

passVars == <<mode, round, book, read, found>>
metricVars == <<gauge, completed>>
sweepVars == <<passVars, metricVars>>
scannerVars == <<loans, events, anomalies, sweepVars>>

(* selected   the loans are read, the SELECT of their events is awaited    *)
(* assessed   all loans are scored, the commit is awaited                  *)
(* committed  the rows are stored, the metrics are not yet updated         *)
(* done       run_once has returned;  failed: it raised, rolled back       *)
(* torn       stored, but the caller never learned;  aborted: worker died  *)
Running == {"selected", "assessed", "committed"}

(* mutant: the scanner loop does not survive an exception *)
RestUnlessFailed == {"idle", "done", "torn", "aborted"}

Rest == {"idle", "done", "failed", "torn", "aborted"}
StoredModes == {"committed", "done", "torn"}

Pass(s) == <<s, round[s]>>

NextRound(n) == IF n < MaxRound THEN n + 1 ELSE n

ScannerInit ==
    /\ loans \in [Loan -> Row]
    /\ events = {}
    /\ anomalies = {}
    /\ mode = [s \in Sweeper |-> "idle"]
    /\ round = [s \in Sweeper |-> 0]
    /\ book = [s \in Sweeper |-> {}]
    /\ read = [s \in Sweeper |-> {}]
    /\ found = [s \in Sweeper |-> {}]
    /\ gauge = [w \in Worker |-> {}]
    /\ completed = {}

-----------------------------------------------------------------------------
Enter(s, m) == mode' = [mode EXCEPT ![s] = m]

SelectBook(s) ==
    /\ mode[s] \in Rest
    /\ Enter(s, "selected")
    /\ round' = [round EXCEPT ![s] = NextRound(@)]
    /\ book' = [book EXCEPT ![s] =
                  {<<l, loans[l].dpd>> : l \in {k \in Loan : OnBook(loans[k])}}]
    /\ read' = [read EXCEPT ![s] = {}]
    /\ found' = [found EXCEPT ![s] = {}]
    /\ UNCHANGED <<loans, events, anomalies, metricVars>>

(* mutant: at most one event of each loan is fetched *)
VerdictsOnOne(s, E) ==
    UNION {UNION {SweepAlerts(Pass(s), e[1], e[2], {r}) : r \in EventsOf(e[1], E)} :
              e \in book[s]}

(* The rows for the loans of the book, on the events E. *)
Verdicts(s, E) ==
    UNION {SweepAlerts(Pass(s), e[1], e[2], EventsOf(e[1], E)) : e \in book[s]}

(* mutant: every row is committed as soon as it is found *)
AssessAndStore(s) ==
    /\ mode[s] = "selected"
    /\ \A e \in book[s] : Scorable(e[1])
    /\ Enter(s, "assessed")
    /\ read' = [read EXCEPT ![s] = events]
    /\ found' = [found EXCEPT ![s] = Verdicts(s, events)]
    /\ anomalies' = anomalies \cup Verdicts(s, events)
    /\ UNCHANGED <<loans, events, round, book, metricVars>>

(* mutant: the gauge is set before the commit *)
AssessAndPublish(s) ==
    /\ mode[s] = "selected"
    /\ \A e \in book[s] : Scorable(e[1])
    /\ Enter(s, "assessed")
    /\ read' = [read EXCEPT ![s] = events]
    /\ found' = [found EXCEPT ![s] = Verdicts(s, events)]
    /\ gauge' = [gauge EXCEPT ![Home[s]] = Verdicts(s, events)]
    /\ UNCHANGED <<loans, events, anomalies, round, book, completed>>

(* The events arrive; scoring every loan of the book awaits nothing. *)
Assess(s) ==
    /\ mode[s] = "selected"
    /\ \A e \in book[s] : Scorable(e[1])
    /\ Enter(s, "assessed")
    /\ read' = [read EXCEPT ![s] = events]
    /\ found' = [found EXCEPT ![s] = Verdicts(s, events)]
    /\ UNCHANGED <<loans, events, anomalies, round, book, metricVars>>

(* A loan that cannot be scored, or a model that fails, ends the pass for  *)
(* all loans; so does an error of the SELECT or of the COMMIT.             *)
PassFails(s) ==
    /\ mode[s] \in {"selected", "assessed"}
    /\ Enter(s, "failed")
    /\ UNCHANGED <<loans, events, anomalies, round, book, read, found, metricVars>>

Store(s) == anomalies' = anomalies \cup found[s]

CommitPass(s) ==
    /\ mode[s] = "assessed"
    /\ Store(s)
    /\ Enter(s, "committed")
    /\ UNCHANGED <<loans, events, round, book, read, found, metricVars>>

CommitPassTorn(s) ==
    /\ mode[s] = "assessed"
    /\ Store(s)
    /\ Enter(s, "torn")
    /\ UNCHANGED <<loans, events, round, book, read, found, metricVars>>

(* The gauge is set from the ids of this pass, the run is counted. *)
Publish(s) ==
    /\ mode[s] = "committed"
    /\ Enter(s, "done")
    /\ gauge' = [gauge EXCEPT ![Home[s]] = found[s]]
    /\ completed' = completed \cup {Pass(s)}
    /\ UNCHANGED <<loans, events, anomalies, round, book, read, found>>

PassesCrash(w) ==
    /\ mode' = [s \in Sweeper |->
                  CASE Home[s] # w -> mode[s]
                    [] mode[s] \in {"selected", "assessed"} -> "aborted"
                    [] mode[s] = "committed" -> "torn"
                    [] OTHER -> mode[s]]
    /\ gauge' = [gauge EXCEPT ![w] = {}]
    /\ completed' = {p \in completed : Home[p[1]] # w}
    /\ UNCHANGED <<loans, events, anomalies, round, book, read, found>>

Sweep(s) ==
    \/ SelectBook(s)
    \/ Assess(s)
    \/ PassFails(s)
    \/ CommitPass(s)
    \/ CommitPassTorn(s)
    \/ Publish(s)

(* The servicing system (external) rewrites a loan row. *)
Service(l) ==
    /\ \E row \in Row : loans' = [loans EXCEPT ![l] = row]
    /\ UNCHANGED <<events, anomalies, sweepVars>>

(* What Ingest does to the table, for a scanner checked on its own. *)
EventArrives(r) ==
    /\ LoanOf(r) \in Loan
    /\ events' = events \cup {r}
    /\ UNCHANGED <<loans, anomalies, sweepVars>>

ScannerNext ==
    \/ \E s \in Sweeper : Sweep(s)
    \/ \E l \in Loan : Service(l)
    \/ \E r \in Request : EventArrives(r)
    \/ \E w \in Worker : PassesCrash(w)

ScannerSpec == ScannerInit /\ [][ScannerNext]_scannerVars

(* A loop goes on, from pass to pass, as long as its worker is up or comes *)
(* up again (Lifespan); faults are transient: an assessment or a COMMIT    *)
(* that is due again and again succeeds some time.  Nobody is obliged to   *)
(* POST a scan, to service a loan or to crash.                             *)
ScannerFairness ==
    \A s \in Background :
        /\ WF_scannerVars(Sweep(s))
        /\ SF_scannerVars(Assess(s))
        /\ SF_scannerVars(CommitPass(s))

ScannerFairSpec == ScannerSpec /\ ScannerFairness

-----------------------------------------------------------------------------
ScannerTypeOK ==
    /\ loans \in [Loan -> Row]
    /\ events \subseteq Request
    /\ anomalies \subseteq Anomaly
    /\ mode \in [Sweeper -> Running \cup Rest]
    /\ round \in [Sweeper -> 0 .. MaxRound]
    /\ book \in [Sweeper -> SUBSET (Loan \X Nat)]
    /\ read \in [Sweeper -> SUBSET Request]
    /\ found \in [Sweeper -> SUBSET Anomaly]
    /\ gauge \in [Worker -> SUBSET Anomaly]
    /\ completed \subseteq Sweeper \X (0 .. MaxRound)

RowsOf(s) == {a \in anomalies : a.by = Pass(s)}

(* A pass is stored whole or not at all: as long as it has not committed,  *)
(* and for ever if it fails or its worker dies, none of its rows is there. *)
PassAllOrNothing ==
    \A s \in Sweeper :
        mode[s] \notin StoredModes \cup {"idle"} /\ round[s] < MaxRound => RowsOf(s) = {}

(* A stored pass is complete: every loan that it read past due has a       *)
(* breach row at that depth, and every loan whose events score below the   *)
(* threshold has a behavioral row that rests on all of them.               *)
StoredPassCovers ==
    \A s \in Sweeper :
        mode[s] \in StoredModes =>
            \A e \in book[s] :
                /\ e[2] >= WarningDays \/ e[2] >= DefaultDays =>
                     \E a \in RowsOf(s) :
                        /\ a.loan = e[1] /\ a.type = "DPD_BREACH" /\ a.score = e[2]
                        /\ a.severity = "CRITICAL" <=> e[2] >= DefaultDays
                /\ IsAnomaly(Score(EventsOf(e[1], read[s]))) =>
                     \E a \in RowsOf(s) :
                        /\ a.loan = e[1] /\ a.type = "BEHAVIORAL"
                        /\ a.seen = EventsOf(e[1], read[s])

(* A pass raises at most one alert of a kind for a loan. *)
OneAlertPerKind ==
    \A a, b \in anomalies :
        /\ a.by = b.by /\ a.by[2] < MaxRound
        /\ a.loan = b.loan /\ a.type = b.type
        => a = b

(* Whatever passes overlap, fail or die, sentinel_anomalies_active never   *)
(* counts an alert that is not in the table.                               *)
GaugeNeverAhead == \A w \in Worker : gauge[w] \subseteq anomalies

(* Why the above hold.  ScannerIInv is inductive (SentinelProofs), also    *)
(* where others than passes add anomalies; alone, every row is a pass's.   *)
SweepRows == {a \in anomalies : a.by[1] \in Sweeper}

BookIsFunctional ==
    \A s \in Sweeper : \A e, f \in book[s] : e[1] = f[1] => e = f

FoundIsVerdict ==
    \A s \in Sweeper :
        mode[s] \in StoredModes \cup {"assessed"} =>
            found[s] = Verdicts(s, read[s])

StoredIsFound ==
    \A s \in Sweeper : mode[s] \in StoredModes => found[s] \subseteq anomalies

RowsAreNumbered ==
    \A a \in SweepRows :
        LET s == a.by[1]
        IN  /\ a.by[2] <= round[s]
            /\ a.by[2] = round[s] /\ round[s] < MaxRound =>
                 mode[s] \in StoredModes /\ a \in found[s]

OneSweepAlertPerKind ==
    \A a, b \in SweepRows :
        /\ a.by = b.by /\ a.by[2] < MaxRound
        /\ a.loan = b.loan /\ a.type = b.type
        => a = b

ScannerIInv ==
    /\ ScannerTypeOK
    /\ BookIsFunctional
    /\ FoundIsVerdict
    /\ StoredIsFound
    /\ RowsAreNumbered
    /\ OneSweepAlertPerKind
    /\ GaugeNeverAhead

OnlySweeps == anomalies = SweepRows

(* scanner.py: "Sweeps the active book on a fixed interval", "For each     *)
(* active loan".  A loan with a positive principal that stays on the book  *)
(* with the same days past due beyond a limit, or the same anomalous       *)
(* events, is flagged on just that, however often workers die and the      *)
(* database fails.  It holds when every loan has a positive principal, and *)
(* not otherwise: one loan that cannot be scored ends every pass.          *)
EventuallyFlagged ==
    /\ \A l \in Funded, row \in {r \in Row : OnBook(r) /\ r.dpd >= WarningDays} :
        <>[](loans[l] = row)
            => <>(\E a \in anomalies : a.loan = l /\ a.type = "DPD_BREACH"
                                       /\ a.score = row.dpd)
    /\ \A l \in Funded, E \in {F \in SUBSET Request : IsAnomaly(Score(F))} :
        <>[](OnBook(loans[l]) /\ EventsOf(l, events) = E)
            => <>(\E a \in anomalies : a.loan = l /\ a.type = "BEHAVIORAL"
                                       /\ a.seen = E)

(* metrics.py: "Open anomaly alerts by severity."  A worker that has       *)
(* published a pass, with none running, shows the open warnings.  It does  *)
(* not hold: the gauge is half the size of the last pass, any severity.    *)
GaugeShowsOpenWarnings ==
    \A w \in Worker :
        /\ \E p \in completed : Home[p[1]] = w
        /\ \A s \in Sweeper : mode[s] \in Rest
        => Cardinality(gauge[w]) \div 2 =
             Cardinality({a \in anomalies : a.severity = "WARNING"})

(* metrics.py: "Number of background scanner runs completed."  It does not *)
(* hold: a scan on demand is counted too.                                  *)
OnlyBackgroundRunsCounted == \A p \in completed : p[1] \in Background

=============================================================================
