# LoanBook-Sentinel: a verification project

TLA+ modules of the loan-monitoring service in `src/`, configurations that TLC
checks on small instances, and theorems that TLAPS proves for every instance.
Paths below are relative to the repository's `src/sentinel/` unless they start
with another directory.

## 1. The system

LoanBook-Sentinel is a FastAPI service over one SQL database. Bank-feed
connectors POST events for loans, each worker process sweeps the active book on
an interval, and read-side endpoints report on the portfolio. Scripts fill the
database and train the model, and a static page demonstrates it all.

| Component | Source | State | Operations |
| --- | --- | --- | --- |
| Event ingest | `api/routes/loans.py` | rows of `loan_events`, `anomalies`; one session per request; a counter per worker | `POST /v1/loans/events` |
| Scanner | `services/scanner.py` | rows of `anomalies`; one session per pass; a gauge and a counter per worker | `run_once`, from the loop or `POST /v1/anomalies/scan` |
| Worker lifespan | `main.py` | the scanner task, `stop_event`, the loaded model | startup, loop, shutdown |
| Alert feed | `api/routes/anomalies.py` | none: reads `anomalies` | `GET /v1/anomalies` |
| Portfolio KPIs | `services/portfolio_service.py`, `api/routes/portfolio.py` | three gauges per worker | `GET /v1/portfolio/health` |
| Vintage and drift | `ml/vintage_analyzer.py` | none: a function of `loans` and the date | `GET /v1/portfolio/vintage` |
| Concentration | `ml/concentration.py` | none: a function of `loans` | `GET /v1/portfolio/sectors` |
| Features | `ml/features.py` | none: a function of a loan's events and the time | `build_features` |
| Anomaly model | `ml/anomaly_detector.py` | the ONNX session | `score` |
| Tables, session | `db/` | rows of `loans`, `loan_events` and `anomalies` | commit, rollback |
| Seeding | `scripts/seed_db.py` | tables, two loop indices | read the files, drop, create, load in chunks |
| Generator | `scripts/generate_synthetic_data.py` | two files | make up loans and their events, write both files |
| Training | `scripts/train_anomaly_model.py` | the model file | read both files, fit, write the model, check it |
| Page | `index.html` | timers, flags, the alert log | start, pause, reset, inject |
| Health probes, configuration, deployment | `api/routes/health.py`, `config.py`, `k8s/` | none | not modelled |

How they interact. Ingest and scanner share `loan_events` and `anomalies`, with
no lock and no unique key between them: an ingest scores what its SELECT saw, a
pass scores what its two SELECTs saw. Loan rows are written by a servicing
system that is not in the repository. The lifespan runs one scanner loop per
worker; `Dockerfile:51` starts two workers and Kubernetes several pods, so
loops overlap. The feed, the KPIs and the analytics read the same tables while
all this goes on. A worker's death takes its requests, its pass and its metrics.
The scripts meet the service in files and tables alone: the generator writes
`loans.parquet` and then `events.parquet`, the seeder and the training read one
after the other, the seeder replaces the tables that workers create and serve,
and the training replaces the model that a worker loads once, when it starts.
`make bootstrap` runs them in order; nothing in them holds them to it.

What is hard, and which statements make each component correct:

- **Ingest.** Every `await` is a place where another request commits, a
  connection breaks or the worker dies; connectors retry and there is no
  idempotency key. Correct means: an acknowledged event stays, a failed request
  leaves nothing, an event and the verdict on it are stored together, every
  alert can be justified, and a verdict misses only what overlapped it.
- **Scanner.** Passes overlap, fail half way, or are torn at the commit.
  Correct means: a pass is stored whole or not at all, a stored pass flags
  every loan it should, once per kind, and what stays bad is flagged some time.
- **Lifespan.** A cancellation can be swallowed (`wait_for`, or a driver that
  turns it into an `Exception`). Correct means: the loop lives as long as its
  worker serves, starts no pass once shutdown has begun, and shutdown ends.
- **KPIs.** Three SELECTs with a snapshot each, a day of default that is only
  the day of the last write, and gauges that overlapping calls share. Correct
  means: a rate torn between two SELECTs stays between the rates of the meantime
  while loans only go downhill, recent defaults are all counted, and a stale gauge
  takes a write or an overlap.
- **Feed.** OFFSET paging over a table that grows, out of its sort order too.
- **Analytics, features.** Calendar and window arithmetic, accumulation,
  averages, and the order of events that share a timestamp.
- **Seeding, files.** Each chunk commits by itself; runs die, start again,
  overlap, and read files that are being rewritten. Correct means: "done" is to be
  believed, and loans, events and training data that do not belong together, or
  tables that are missing under a serving worker, have a cause one can name.
- **Model.** The file is replaced in place and checked afterwards, while workers
  start and other trainings write it too. Correct means: when all trainings have
  ended without an error, workers find a whole model that its own training has
  compared in its place.
- **Generator.** A local date, a UTC time, months of thirty days and of four
  weeks. Correct means: events lie within the life of their loan and before now.
- **Page.** Timers of several starts, and buttons that the keyboard reaches.

`PROJECT.json` lists every component with its status, and under `hazards` every
such place with its line and the properties that watch it.

## 2. The modules

In the order in which they were planned and written, the most important first.

| Module | Extends / composes | What it is |
| --- | --- | --- |
| `LoanBook` | | the two tables that requests and passes write, their rows, and the decisions: who is on the book, which alerts a score or days past due call for |
| `Ingest` | `LoanBook` | one request per state machine, one action per stretch between awaits |
| `Scanner` | `LoanBook` | one pass per sweeper, `Background` ones in loops |
| `AlertLedger` | `LoanBook` | abstract: two ledgers that only grow, and why an alert may be in one |
| `Sentinel` | `Ingest`, `Scanner`; INSTANCEs `AlertLedger` | all of it over one database |
| `Lifespan` | | the life of a worker and its scanner task |
| `InPlace` | | what two writers make of a file |
| `Rollout` | `Lifespan`, `InPlace` | the model file between trainings and workers |
| `Portfolio` | | the KPIs and the gauges |
| `Vintage` | | a book that moves through the months; curves and drift |
| `Concentration` | | the index and the grid, functions of a book |
| `Analytics` | `Vintage`, INSTANCEs `Concentration` | the analytics of one book |
| `AnomalyFeed` | | a client that walks the pages |
| `Seeder` | | runs of the seed script, over files and tables that may change under them |
| `Pipeline` | `Seeder`, `InPlace` | generator, training, seeder and workers over the same files and tables; implements `Seeder` |
| `Generator` | | one loan and its weeks of events as the generator draws them |
| `Dashboard` | | timers, button, overlay and log of the page |
| `Features` | | the eighteen features over a list of events |
| `MC*` | the above | instances for TLC: model values and small functions |
| `SentinelProofs`, `RolloutProofs`, `PortfolioProofs` | the module of that name, `TLAPS` | theorems |
| `SumTheorems` | `FiniteSetTheorems`, `WellFoundedInduction`, `TLAPS` | sums over finite sets and sorted lists: lemmas that know nothing of loans |
| `AnalyticsProofs`, `FeaturesProofs` | the module of that name, `SumTheorems` | theorems |
| `FeedProofs` | `AnomalyFeed`, `Dashboard`, `TLAPS` | theorems about what a lender looks at, side by side |
| `ScriptsProofs` | `Pipeline`, `Generator`, `TLAPS` | theorems about the scripts, side by side |

`Ingest` and `Scanner` are specifications of their own (`IngestSpec`, `ScannerSpec`)
and the two halves of `Sentinel`, which extends both: they share the variables
`events` and `anomalies` that `LoanBook` declares, and a step of `Sentinel` is a step
of one of them that leaves the rest alone (`Serve`, `BeginPass`, `Apart`), or a
worker's death, which is one of both (`Crash`).

An operator that starts with the comment `mutant:` is no part of a model. It is a
plausible slip in the definition that follows it, kept to show that the
properties notice: with it in the place of the definition TLC finds the property
named in `PROJECT.json` (`mutants`) violated.

### Correspondence with the code

*Ingest* (`loans.py:34-112`). `Load` is the SELECT with `selectinload` that
answers with `view`, `Reject` the 404, `FlushAndScore` everything from the
INSERT's flush to the point where the commit is awaited (counter, features,
model, a pending anomaly), `ScoreRaises` an exception there, `RollBack` an error
of any database call (`db/session.py:44-51`), `Commit` and `CommitTorn` the
COMMIT that is applied, with and without the caller hearing, `Reply` the 201.
`RequestsCrash(w)` ends all requests of a worker. A row of `loan_events` is
the request that inserted it: two attempts with the same `Body` are two rows,
as in the code, which draws a fresh ULID each time. `overlap` is a history
variable: who was in flight at the load.

*Scanner* (`scanner.py:48-140`). `SelectBook` reads the active book, `Assess`
the events and scores all of it without an await, `PassFails` stands for any
exception (the loop catches it, `main.py:58`), `CommitPass`, `CommitPassTorn`
and `Publish` are the end of the pass, `PassesCrash(w)` ends those of a worker. `Verdicts` is lines 60-120. `gauge[w]` is the
set of rows that the gauge counts, so the number shown is half its cardinality.

*Lifespan* (`main.py:32-86`). One action per turn of the task:
`LoopTurn` (the `while`), `PassEnds`, `IntervalPasses` or `StopWakes` (the
`wait_for`), and `Shutdown`, `CancelArrives`, `Exit` for lines 78-86.
`AfterCancel` is what Python 3.11 does with a cancellation at each await.

*Rollout* (`train_anomaly_model.py:80-101`, `anomaly_detector.py:39-62`,
`main.py:42-47`). `OpenModel` and `CloseModel` are the `write_bytes`, `CheckParity`
the lines after it, which load the file that is there by then, whoever wrote it.
`LoadAndServe` is `Startup` of `Lifespan` with a file that onnxruntime can load.
`compared` is history: which model the check of a training has loaded.

*Portfolio* (`portfolio_service.py:32-71`, `portfolio.py:23-36`). `SelectTotals`,
`SelectRecent` and `Answer`; `Service` dates the row (`db/base.py:19-24`). The rest
is history: which calls of a worker overlapped (`raced`, `Rivals`), the day of
default that the code takes `updated_at` for (`defaulted`), and of the time between
the first two SELECTs what either would have read of the other's figure (`before`,
`after`) and whether loans did nothing but default in it (`downhill`).

*Vintage, Concentration, Features.* Pure code is translated as operators of
the same shape (`Curve`, `Drift`, `Hhi`, `Exposures`, `Vector`), over a state
whose actions only bring the inputs about: months pass, loans are originated and
serviced, events arrive in any order, days pass.

*AnomalyFeed* (`anomalies.py:15-31`). `List` is one GET; `Pages` are all the pages
that ORDER BY detected_at allows where rows tie.

*Seeder* (`seed_db.py:26-87`). `ReadLoans`, `ReadEvents`, `DropAll`, `CreateAll`,
one `LoadLoans` or `LoadEvents` per chunk, `Finish`; `Die` between any two.
`FilesChange` and `ServiceStarts` stand for everybody else.

*Pipeline* (`generate_synthetic_data.py:199-229`, `train_anomaly_model.py:49-77`,
`Makefile`). It puts the others in their place: a generator opens and closes each
file, a trainer reads both, a worker creates missing tables as it starts. That
every step of it is a step of `Seeder`, or none, is a theorem (`Refinement`), so
what is proved of `Seeder` holds of it.

*Generator* (`generate_synthetic_data.py:54-194`). `SynthesizeLoan` and one
`SynthesizeWeek` per turn of the loop over weeks; each draw is an `\E`.

*Dashboard* (`index.html:779-1102`). One action per handler or timer callback.

### Abstractions

- The features and the model together are one function `Score` of the set of
  events of a loan; it does not change with time within a run. `Features`
  models the features on their own, and that the order of the rows does
  not matter, which is what makes a set right, is a theorem (`OrderIsFree`).
- Amounts are integers and ratios pairs of them; a deviation stays squared. Sums
  are exact where the code adds floats or Decimals and rounds.
- A sum over rows is represented by the rows or amounts summed; a counter by the
  set of what incremented it.
- Statements are READ COMMITTED, and a COMMIT is atomic. Foreign keys are
  enforced or not in `Seeder` (Postgres, or SQLite as it is opened here).
- Amounts may be of either sign (an overpaid loan; no constraint says otherwise),
  PDs are not negative.
- A file that is written in place is torn from the opening to the closing. If two
  processes write it at a time it may end as either's or torn; a reader of a
  torn file raises.
- Of a generator's run `Pipeline` keeps the identity: its rows are `<<run, row>>`.
  The header says "Reproducible via the seed"; keys are fresh ULIDs all the same and
  dates follow the day of the run, so the rows of two runs never match.
- Where a driver drops the time zone, `features.py:87-88` sets `e.ts` of the loaded
  rows and the session may flush UPDATEs that write the same time back. They change
  nothing and are no actions; that they take part in a request's failure is covered by
  `RollBack`, which may come at any database call.
- `detected_at`, ULIDs, reasons, wording and latency metrics are left out where no
  property is about them.

## 3. The runs

| Run | What it asks | Bounds |
| --- | --- | --- |
| `ingest` | Are the two tables a consistent record of what was acknowledged? | one loan, four requests (a retry, an unknown loan), two workers |
| `scanner` | Are passes atomic, complete and free of duplicates when they overlap? | two loans, a loop and a POST, one event, a whole pass of each and the start of another |
| `scanner_unfunded` | Does one loan that cannot be scored keep the others from being flagged? (it does: expected violation) | two loans, one with a principal of zero |
| `sentinel` | Does the composition implement the ledger, does a pass make up for what inline scoring missed, and is a loan that stays bad flagged in the end? | one loan, two requests, a loop, two workers, passes without end |
| `lifespan` | Does the loop live and die with its worker, and what do trainings that end well leave in the model file? | two processes that start any number of times, two trainings |
| `portfolio` | How far off is a rate that is torn between two SELECTs, which defaults does it count, and what makes a gauge stale? | two loans, two callers of one worker, two days |
| `analytics` | Do curve, drift, index and grid mean what they say? | three loans, two cohorts, four months from November; one loan may be overpaid |
| `feed` | When may a walk miss or repeat an alert? | a pass of two rows, two ingests, three queries |
| `seeder` | Does "done" mean that the book is in, and what do rows that do not match and missing tables take? | two generators, two seeders, a training, a worker; three loans, two events, chunks of two |
| `generator` | Does the history of a loan lie within its life, with a payment every month? | a loan of up to two months, draws at the ends of their ranges, zones on both sides of UTC |
| `dashboard` | Do the timers follow the button, and what do the list and the page hold of the alerts? | three starts, a log of two, four entries |
| `features` | Is the vector that of the set of events, in range, and does it forget what is old, all of it or some? | eight kinds of event, up to four of them, two days |

Why the bounds are enough for the question. A miss in `ingest` takes two
overlapping requests and a third one to show it; a retry takes one more; more
requests repeat these. Passes of `Scanner` interact through the table and a
gauge only, so two sweepers give every overlap of two passes, and two loans let
one spoil the pass of the other; later passes of a sweeper differ in their number
alone, and the proofs cover any number of them. `MaxRound` caps the numbers that keep
passes apart; `NumbersLast` stops `scanner` where numbers would be shared, and
`sentinel` and `scanner_unfunded` set it to 0, where all passes share one number
and run for ever (their properties do not tell passes apart).
`lifespan` has two workers so that a restart can bring in a second model, and
two trainings so that one can write over the other and check the other's model.
In `portfolio` two loans may default or recover one after the other, and so before,
between and after the SELECTs of a call. The calls of `portfolio`
repeat without end, so a gauge can be left behind by one pair of calls and met
by the next; both go to one worker, since workers share no gauge. `analytics`
crosses the end of a year; its rows hold a predicted PD of 0, one beyond 1, an
amount below zero, and undrawn and closed loans. `feed` has one tie within a pass
and commits out of order. `seeder` has a last chunk that is short, two generators
so that files can be torn or cross, and two seeders so that one can drop the
tables of the other. `generator` has both dates around midnight and loans of
no, one and two months; the months differ in nothing else.
`features` has events at the edge of a window, just beyond it, of the
wrong sign, at equal times and in the future, and tries every list of some or all of
them, in every order. The proofs of section 4 then drop the bounds for every
invariant that a run checks.

Only properties are listed in the configurations. The inductive invariants
(`IInv` and its like), with `TypeOK` as a conjunct, were checked
on the same instances before they were proved; name one as an INVARIANT to check
it again. Symmetry is declared for sets whose members nothing tells apart, and
where safety alone is checked.

`CHECK_DEADLOCK FALSE` appears where the system may stop: all requests
answered (`ingest`), a walk that is over (`feed`), no further event within the
bound (`features`), every script at its end (`seeder`), the last week done
(`generator`).

### Fairness

- `Scanner` and `Sentinel`: weak fairness of the steps of a background loop. It is
  what `Lifespan` promises (`LoopKeepsScanning`), checked there from weak fairness of
  the event loop, of timers and of a pass coming to an end, well or badly. Strong
  fairness of `Assess` and `CommitPass` says that database faults are transient: a
  statement that is due again and again succeeds some time. Requests, POSTed
  scans, crashes and faults are never obliged to happen.
- `Lifespan`: weak fairness of ready callbacks only, for `ShutdownTerminates`. It
  holds though a pass may never return by itself, since the task is cancelled.
  `Rollout` takes it over; the training owes nobody a step.
- `Dashboard`: the browser runs the timers of an open page.

### The finding

`scanner_unfunded` refutes `EventuallyFlagged`, which holds in `sentinel`.
The scanner says that it visits each active loan; a loan with `principal_aed <=
0`, which no constraint at `db/models.py:73` rules out, makes `build_features`
raise (`ml/features.py:82-83`), and the exception ends the whole pass, each time.

### Statements that do not hold

These definitions quote a comment, a docstring or a label of the program (the one
of `main.py:42` says what that line would have to bring about for workers to score
alike), and the code does not satisfy them. They are in no configuration; named as the only
INVARIANT of the configuration given, TLC refutes each within seconds.

| Definition | Configuration | Says | The code |
| --- | --- | --- | --- |
| `InlineScoresTheLoan` | `MCIngest` | `loans.py:45` "inline-score the loan" | two overlapping requests each score it without the other's event |
| `CountedIsStored` | `MCIngest` | `core/metrics.py:17` "events ingested" | counts at line 72, before scoring and commit |
| `GaugeShowsOpenWarnings` | `MCScanner` | `metrics.py:58` "Open anomaly alerts by severity" | half the rows of the last pass, of any severity |
| `OnlyBackgroundRunsCounted` | `MCScanner` | `metrics.py:66` "background scanner runs" | counts scans on demand too |
| `GaugesInSync` | `MCPortfolio` | `portfolio.py:27` "dashboards stay in sync" | an older answer may come last |
| `RecentDefaultsAreRecent` | `MCPortfolio` | `metrics.py:52` "Trailing-30-day default rate" | goes by `updated_at`, which any write moves |
| `ActualIsRealised` | `MCAnalytics` | `vintage_analyzer.py:5` "realized DPD>=90 events" | a default that is cured or written off vanishes |
| `IndexAtMostOne` | `MCAnalytics` | `concentration.py:6-9` the scale of a Herfindahl index, whose shares are of one whole | a sector that is overpaid as a whole lifts it above 1 |
| `ServedModelWasChecked` | `MCRollout` | `train_anomaly_model.py:7` "validates parity" | the file is in its place before the check and stays whatever it finds |
| `WorkersAgree` | `MCRollout` | `main.py:42` "Load ONNX model", once, when a worker starts | workers that were restarted after a training serve its model, the others the old one |
| `DpdWithinLife` | `MCGenerator` | `generate_synthetic_data.py:3` "realistic-shape portfolio" | days past due and age are drawn apart |
| `SuspendedIsStill` | `MCDashboard` | `index.html:980` "Live monitoring suspended" | a second start orphans the first one's interval |
| `LabelCountsLog` | `MCDashboard` | `index.html:1029` "... alerts" | each entry but the first empties the log |
| `LooksBack` | `MCFeatures` | `features.py:79` "features look back from here" | windows have no upper end |

## 4. The proofs

TLAPS proves `Spec => []P` for every value of the constants that the named
assumptions allow: any number of loans, requests, sweepers, workers, runs.

| Module | Proved | Inductive invariant and why it is needed |
| --- | --- | --- |
| `SentinelProofs`, requests | `AckedDurable`, `FailureLeavesNothing`, `EventAndAlertTogether`, `AlertJustified`, `MissNeedsOverlap`, `SerialIngestScoresTheLoan` | `IngestIInv`: the tables are a function of how far the requests have come (`StoredByCommit`), what is pending is the verdict on what was read, views are committed events. `SeenOrOverlapped` carries the race over to requests still in flight, without which the commit of one could not be related to the view of another; `LastSawAll` names the request of a serial history that saw everything. |
| `SentinelProofs`, passes | `PassAllOrNothing`, `StoredPassCovers`, `OneAlertPerKind`, `GaugeNeverAhead` | `ScannerIInv`: what a pass has found is the verdict on its book and its events (`FoundIsVerdict`); every stored row bears the number of a pass that has committed (`RowsAreNumbered`), so an uncommitted pass owns none. |
| `SentinelProofs`, both | the same properties of `Sentinel`; `VerdictIsFresh`, `SweepCatchesInlineMiss`; the step simulation of `AlertLedger` | `IInv`: both invariants, and that a pass reads what is committed. Neither survives a step of the other side by itself, since each speaks of all rows of the tables it shares: `RequestsUndisturbed` and `PassesUndisturbed` say what is left alone, by author. |
| `RolloutProofs` | `NoPassOnceStopping`, `CheckedModelInPlace`, `RolloutSpec` implements `FairSpec` of `Lifespan` | `PhaseDecides`: the phase of a process decides what its task and its two signals can be. `FileFollowsTrainers`: while the file is torn some training is about to find out, or has died of it; a model in the file is still to be checked by its own training, or was found there by it. |
| `PortfolioProofs` | `RateWithinRange`, `RateOfTheMeantime`, `RecentCoversDefaults`, `StaleNeedsOverlap` | `DownhillSoFar`: downhill there are ever fewer active loans and more recent defaults, which a call half-way must know; `RateGrows` makes of it that the rate grows. `QuietSoFar`: a call that no write came between agrees with the table at every stage, not only at the end. `RivalsRace` and `InSync` carry the calls still under way along: while the gauges are right, whoever answers next leaves them right. `UpdatedSince`: a row is dated no earlier than its default. |
| `AnalyticsProofs` | `MobCountsMonths`, `CurveAccumulates`, `DriftHasCause`, `IndexMeasuresConcentration`, `GridBreaksBookDown` | `IInv`: the month and each origination, as numbers, are the epoch plus the months counted, and the book is finite. The rest is about sums, below. |
| `FeaturesProofs` | `OrderDoesNotMatter`, `OldEventsForgotten`, `SharesInRange` | `TypeOK`: events are events, and as_of is a time. The rest is about lists and sums, below. |
| `ScriptsProofs`, the seeder | `DoneIsComplete`, `LoadedInOrder`, `OrphanHasCause` | `OwnerKeepsItsRows`: no other run can add what the last one to reset has loaded, or remove it; `OwnerAlone` and `KeysEnforced` for the order of rows; `HasRead`: what is loaded was read whole. |
| `ScriptsProofs`, all scripts | `PipelineSpec => Spec` of `Seeder`, `MixHasCause`, `MissingTablesHaveCause` | `KeptApart`: in the calm the files belong together except within a generator, and a reader half-way holds what is in the first file. `DroppedTables`: tables that are gone are the doing of the last run to drop them. |
| `ScriptsProofs`, the generator | `EventsWithinLife`, `SettledMonthly`, `StatusFollowsDpd`, `PdAboveOneHasCause` | `WholeMonths` and `WeekInPlace`: the age of a loan is a multiple of thirty days, and the week done last lies between its own start and the next one's. |
| `FeedProofs`, the feed | `MissHasCause`, `RepeatHasCause` | `IInv`: the number of rows newer than a row (`Newer`) tells on which side of OFFSET it is. What has not been sent lies below (`UnsentIsBelow`), what has been sent above (`SentIsAbove`), unless one of the causes that the properties name has moved it. |
| `FeedProofs`, the page | `TimersFollowButton`, `NewestOnTop` | `OneStart`: without overlap at most one start is under way, and nothing is monitored until it is through. `LogShape`: the list has no gap and the page is empty or shows the newest entry alone, so the oldest entry, when it is removed, has left the page long before. |

**Sums.** The curves, the drift and the concentration are sums over a set of loans
of any size, and the features sums over a window of events, so their theorems need
induction over the set. The library's induction
theorems cannot be instantiated by the provers; what can is that the strict subsets
of a finite set are well founded (`WFMin`, `FS_StrictSubsetOrderingWellFounded`). Of
the subsets that refute a claim one is the smallest (`SmallestSubset`), and taking an
element out of it refutes that. `SumUnfolds` shows in this way that the fold of the
`Functions` module is the sum it is meant to be, `SumTakesOut` that the order in which
it takes its elements does not matter, `SumOfParts` that a sum over a set is the sum
of the sums over its parts, `SumScales`, `SumAdds`, `SumGrows` and
`SumGrowsStrictly` what they say, `SumReindexed` that a sum may be taken over other
names of the same things, `SumTelescopes` that differences along a list add up to that
of its ends. These lemmas are `SumTheorems`; of them and no more follow

- `CurveAccumulates`: the loans that have defaulted up to an age are the disjoint
  union of those of each age (`DefaultsAddUp`);
- `IndexMeasuresConcentration`: `SquaresFit` bounds the index by 1 from above,
  strictly where two sectors count, `CauchySchwarz` by 1/n from below;
- `GridBreaksBookDown`: the cells are parts of the active book, and were all PDs of a
  cell above its weighted PD, or all below, so would their weighted sum be
  (`PdOfCell`);
- `OrderDoesNotMatter` and `OldEventsForgotten`: `Picks` relates a list to another
  that some of its events make up, `From` a set of places of the one to places of the
  other. Windows, types and signs commute with it (`PlacesAgree`), counts and sums do
  not see it (`SumsAgree`). The two features that depend on a sorted list do so by
  little: the days since the last inflow come from the latest of all inflows
  (`RecencyIsLatest`), the cadence from the earliest and the latest POS event and
  their number (`CadenceSpans`), so a tie in ts may be broken either way;
- `SharesInRange`: `CauchySchwarz` once more, since a variance is not negative
  (`InconsistencyIsShare`), and parts of positive amounts (`PartOfTotal`).

For their sake the models write sums as `SumFunction` and a sorted list as the
CHOOSE of one (`MobsOf`, `Exposures`), or by the number of places that come before
each (`Sorted` of `Features`): the provers cannot look into `SortSeq`, on
which the library's `SetToSortSeq` rests. `ListExists` shows that there is such a list
for every finite set, `RankLists` that the numbers of smaller elements make one.

The assumptions are those of the modules: constants have their types,
`Chunk > 0`, probabilities of the blend lie between 0 and 1, the set of loans of
`Portfolio` is finite, the draws of `Generator` lie in the ranges that its code
draws from, the principal of a loan whose features are built is positive (the code
refuses any other, `features.py:82`), amounts and times of events are integers of any
size and sign, and `torn` and `none` differ and are no contents of a file. Lemmas on operators (`Verdicts`, `NextMonth`,
`MonthsBetween`, batches, cardinalities, sums) stand before the theorems that cite them.

Proved and in no configuration: `LoopLivesWhileServing`, `NoLoopWithoutProcess`,
`RateWithinRange`, `LoadedInOrder`, `StatusFollowsDpd` and
`PdAboveOneHasCause`. They are parts of the invariants, or follow from them alone.

Model-checked only: liveness (`EventuallyFlagged`, `ShutdownTerminates`,
`LoopKeepsScanning`, `OverlayGoesAway`), which needs ENABLED. Every invariant in a
configuration is the property of a theorem. Of `Sentinel`
implementing `AlertLedger` the steps are proved; neither side states fairness there.

## 5. Not modelled

Health and readiness probes have no state. `/ready` runs `SELECT 1`, which needs no
tables, so a worker is ready where `MissingTablesHaveCause` says what has become of
them; its "not_loaded" (`health.py:36`) cannot occur, since the lifespan fails
without a model. Configuration and logging are read once at start-up. Deployment
files are external; they are why there are several workers. Of the training, the
fit, the split, the report and the conversion to ONNX are numerical library
calls whose outcome is one unknown model; of the generator, names, places, sectors
and the amounts of events, which no decision that is modelled reads.

Ingests while a seed runs: the rows that they add to `loan_events` are in no table of
`Seeder` and `Pipeline`, whose "nothing else" speaks of seeds and services that start,
and an ingest that crosses a reset of the tables is in no module.

Within components that are modelled: rounding, float32, time zones outside the
generator, the average case score, the summary that a scan on demand answers with,
latency metrics, and the figures, grids and toasts of the page.

## 6. Plan

Done in this order: ledger of ingest and scanner, their composition and
refinement, lifespan, KPIs, analytics, feed, seeding, page, features; then the
files between the scripts (`Pipeline`), the model file (`Rollout`), the generator,
the overlap of KPI calls, and amounts of either sign.

Next, to extend the model:

1. time in `Score`: a loan whose events age out of the window between two passes.

Done, to prove: every safety property of a run, and both refinements.

Next, to prove: with time in `Score`, that a pass flags what has not aged out by the
time it reads; `PlacesAgree` and `WindowsNest` of `FeaturesProofs` are the lemmas to
start from.
