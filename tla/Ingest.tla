------------------------------- MODULE Ingest -------------------------------
(***************************************************************************)
(* POST /v1/loans/events (api/routes/loans.py): one request loads a loan   *)
(* and its events, inserts its own event, scores the loan inline, and      *)
(* commits the event together with the anomaly it may have raised.         *)
(*                                                                         *)
(* A step runs from one await to the next, so requests interleave at the   *)
(* SELECTs, at the flush and at the commit, within a worker and across     *)
(* workers.  Every statement reads what is committed when it runs (READ    *)
(* COMMITTED, PostgreSQL's default; SQLite through aiosqlite does no       *)
(* better between a SELECT and a later INSERT).  Any database call may     *)
(* fail, a COMMIT may be applied although the caller sees an error, and a  *)
(* worker may die at any point.                                            *)
(***************************************************************************)
EXTENDS LoanBook

CONSTANT ServedBy \* ServedBy[r]: the worker that request r reaches

ASSUME ServedByAssumption == ServedBy \in [Request -> Worker]

VARIABLES
    stage,        \* stage[r]: how far request r has come
    view,         \* view[r]: loan.events as selectinload returned it
    pending,      \* pending[r]: anomaly rows added to r's session
    counted,      \* what incremented sentinel_events_ingested_total
    overlap       \* history: the requests in flight when r loaded its loan

requestVars == <<stage, view, pending, counted, overlap>>
ingestVars == <<events, anomalies, requestVars>>

(* idle       the connector has not sent it                                *)
(* loaded     the SELECTs returned, the flush is awaited                   *)
(* scored     event and anomaly are in the session, the commit is awaited  *)
(* committed  the commit returned, the 201 is on its way                   *)
(* acked      the connector has the 201                                    *)
(* torn       the rows are committed, but no 201 will ever arrive          *)
(* rejected   404;  failed: 500, rolled back;  aborted: the worker died    *)
Stage == {"idle", "loaded", "scored", "committed", "acked", "torn",
          "rejected", "failed", "aborted"}

InFlight == {r \in Request : stage[r] \in {"loaded", "scored"}}

Stored == {r \in Request : stage[r] \in {"committed", "acked", "torn"}}

IngestInit ==
    /\ events = {}
    /\ anomalies = {}
    /\ stage = [r \in Request |-> "idle"]
    /\ view = [r \in Request |-> {}]
    /\ pending = [r \in Request |-> {}]
    /\ counted = {}
    /\ overlap = [r \in Request |-> {}]

-----------------------------------------------------------------------------
(* The connector (external) sends a payload, and sends it again as long as *)
(* no 201 for it has arrived, even while an earlier attempt still runs.    *)
Sendable(r) ==
    /\ stage[r] = "idle"
    /\ \A q \in Request : Body[q] = Body[r] => stage[q] # "acked"

Advance(r, s) == stage' = [stage EXCEPT ![r] = s]

(* mutant: the loan comes without its events (no selectinload) *)
NoEvents(r) == {}

(* mutant: what is not committed yet is read too *)
DirtyRead(r) == EventsOf(LoanOf(r), events \cup {q \in Request : stage[q] = "scored"})

(* What selectinload(Loan.events) finds committed. *)
EventsRead(r) == EventsOf(LoanOf(r), events)

Load(r) ==
    /\ Sendable(r)
    /\ LoanOf(r) \in Loan
    /\ Advance(r, "loaded")
    /\ view' = [view EXCEPT ![r] = EventsRead(r)]
    /\ overlap' = [overlap EXCEPT ![r] = InFlight]
    /\ UNCHANGED <<events, anomalies, pending, counted>>

Reject(r) ==
    /\ Sendable(r)
    /\ LoanOf(r) \notin Loan
    /\ Advance(r, "rejected")
    /\ UNCHANGED <<events, anomalies, view, pending, counted, overlap>>

(* mutant: the new event is not appended to loan.events *)
ScoreWithoutNewEvent(r) ==
    /\ stage[r] = "loaded"
    /\ Scorable(LoanOf(r))
    /\ counted' = counted \cup {r}
    /\ pending' = [pending EXCEPT ![r] = InlineAlert(r, view[r])]
    /\ Advance(r, "scored")
    /\ UNCHANGED <<events, anomalies, view, overlap>>

(* The flush returned; up to the commit nothing is awaited. *)
FlushAndScore(r) ==
    /\ stage[r] = "loaded"
    /\ Scorable(LoanOf(r))
    /\ counted' = counted \cup {r}
    /\ pending' = [pending EXCEPT ![r] = InlineAlert(r, view[r] \cup {r})]
    /\ Advance(r, "scored")
    /\ UNCHANGED <<events, anomalies, view, overlap>>

(* build_features or the ONNX session raises, after the counter went up. *)
ScoreRaises(r) ==
    /\ stage[r] = "loaded"
    /\ counted' = counted \cup {r}
    /\ Advance(r, "failed")
    /\ UNCHANGED <<events, anomalies, view, pending, overlap>>

(* mutant: what was flushed stays *)
RollBackKeepsFlushed(r) ==
    /\ r \in InFlight
    /\ Advance(r, "failed")
    /\ events' = events \cup {r}
    /\ UNCHANGED <<anomalies, view, pending, counted, overlap>>

(* A SELECT, the flush or the COMMIT fails: get_session rolls back, 500. *)
RollBack(r) ==
    /\ r \in InFlight \/ Sendable(r)
    /\ Advance(r, "failed")
    /\ UNCHANGED <<events, anomalies, view, pending, counted, overlap>>

(* mutant: the anomaly is left to a later transaction *)
WriteEventOnly(r) ==
    /\ events' = events \cup {r}
    /\ UNCHANGED anomalies

Write(r) ==
    /\ events' = events \cup {r}
    /\ anomalies' = anomalies \cup pending[r]

Commit(r) ==
    /\ stage[r] = "scored"
    /\ Write(r)
    /\ Advance(r, "committed")
    /\ UNCHANGED <<view, pending, counted, overlap>>

(* COMMIT is applied, but the connection breaks before the driver hears. *)
CommitTorn(r) ==
    /\ stage[r] = "scored"
    /\ Write(r)
    /\ Advance(r, "torn")
    /\ UNCHANGED <<view, pending, counted, overlap>>

(* mutant: the 201 does not wait for the commit *)
ReplyEarly(r) ==
    /\ stage[r] \in {"scored", "committed"}
    /\ Advance(r, "acked")
    /\ UNCHANGED <<events, anomalies, view, pending, counted, overlap>>

Reply(r) ==
    /\ stage[r] = "committed"
    /\ Advance(r, "acked")
    /\ UNCHANGED <<events, anomalies, view, pending, counted, overlap>>

(* A worker dies and is restarted: open transactions are gone, replies not *)
(* yet sent are lost, and its metrics start from zero.                     *)
RequestsCrash(w) ==
    /\ stage' = [r \in Request |->
                   CASE ServedBy[r] # w -> stage[r]
                     [] stage[r] \in {"loaded", "scored"} -> "aborted"
                     [] stage[r] = "committed" -> "torn"
                     [] OTHER -> stage[r]]
    /\ counted' = {r \in counted : ServedBy[r] # w}
    /\ UNCHANGED <<events, anomalies, view, pending, overlap>>

Handle(r) ==
    \/ Load(r)
    \/ Reject(r)
    \/ FlushAndScore(r)
    \/ ScoreRaises(r)
    \/ RollBack(r)
    \/ Commit(r)
    \/ CommitTorn(r)
    \/ Reply(r)

IngestNext ==
    \/ \E r \in Request : Handle(r)
    \/ \E w \in Worker : RequestsCrash(w)

IngestSpec == IngestInit /\ [][IngestNext]_ingestVars

-----------------------------------------------------------------------------
IngestTypeOK ==
    /\ events \subseteq Request
    /\ anomalies \subseteq Anomaly
    /\ stage \in [Request -> Stage]
    /\ view \in [Request -> SUBSET Request]
    /\ pending \in [Request -> SUBSET Anomaly]
    /\ counted \subseteq Request
    /\ overlap \in [Request -> SUBSET Request]

AlertsBy(r) == {a \in anomalies : a.by = <<r, 0>>}

(* An event whose 201 reached the connector is in the table, whatever      *)
(* crashes and broken connections followed (loans.py commits before it     *)
(* builds the reply).                                                      *)
AckedDurable == \A r \in Request : stage[r] = "acked" => r \in events

(* A request that was refused, failed or died leaves no row behind, in     *)
(* either table: the event and its verdict are one transaction.            *)
FailureLeavesNothing ==
    \A r \in Request :
        stage[r] \in {"idle", "rejected", "failed", "aborted"} =>
            r \notin events /\ AlertsBy(r) = {}

(* A stored event has an inline alert exactly when the loan, as that       *)
(* request saw it, scored below the threshold: verdict and event land      *)
(* together, also where the commit's outcome never reached the handler.    *)
EventAndAlertTogether ==
    \A r \in events :
        IsAnomaly(Score(view[r] \cup {r})) <=> AlertsBy(r) # {}

(* No alert rests on an event that is not in the table, or on another      *)
(* loan's event, and its stored score is the score of what it rests on.    *)
AlertJustified ==
    \A a \in anomalies :
        a.type = "BEHAVIORAL" =>
            /\ a.seen \subseteq EventsOf(a.loan, events)
            /\ a.score = Score(a.seen)
            /\ IsAnomaly(a.score)

Overlapped(r, q) == q \in overlap[r] \/ r \in overlap[q]

(* Of two stored events of a loan, one was scored with the other in view,  *)
(* unless the two requests overlapped: a verdict can only miss an event    *)
(* that was still in flight.                                               *)
MissNeedsOverlap ==
    \A r, q \in events :
        LoanOf(r) = LoanOf(q) /\ r # q =>
            q \in view[r] \/ r \in view[q] \/ Overlapped(r, q)

Serial(l) ==
    \A r, q \in EventsOf(l, events) : r # q => ~Overlapped(r, q)

(* Without overlap inline scoring is complete: if the stored events of a   *)
(* loan came one after the other and together score below the threshold,   *)
(* an alert was raised on all of them at once.                             *)
SerialIngestScoresTheLoan ==
    \A l \in Loan :
        /\ EventsOf(l, events) # {}
        /\ Serial(l)
        /\ IsAnomaly(Score(EventsOf(l, events)))
        => \E a \in anomalies : a.loan = l /\ a.seen = EventsOf(l, events)

(* Why the above hold: the tables are a function of how far the requests   *)
(* have come.  IngestIInv is inductive (SentinelProofs), also where others *)
(* than requests add anomalies; alone, every row is a request's.           *)
InlineRows == {a \in anomalies : a.by[1] \in Request}

StoredByCommit ==
    /\ events = Stored
    /\ InlineRows = UNION {pending[r] : r \in events}

PendingIsVerdict ==
    \A r \in Request :
        /\ \A a \in pending[r] : a.by = <<r, 0>>
        /\ stage[r] \in {"scored", "committed", "acked", "torn"} =>
             pending[r] = InlineAlert(r, view[r] \cup {r})

ViewIsCommitted ==
    \A r \in Request :
        /\ view[r] \subseteq EventsOf(LoanOf(r), events)
        /\ r \in InFlight \cup Stored => LoanOf(r) \in Loan

SeenOrOverlapped ==
    \A r, q \in InFlight \cup Stored :
        LoanOf(r) = LoanOf(q) /\ r # q =>
            q \in view[r] \/ r \in view[q] \/ Overlapped(r, q)

LastSawAll ==
    \A l \in Loan :
        EventsOf(l, events) # {} /\ Serial(l) =>
            \E r \in EventsOf(l, events) : view[r] \cup {r} = EventsOf(l, events)

IngestIInv ==
    /\ IngestTypeOK
    /\ StoredByCommit
    /\ PendingIsVerdict
    /\ ViewIsCommitted
    /\ SeenOrOverlapped
    /\ LastSawAll

OnlyInline == anomalies = InlineRows

(* loans.py: "Persist an event and inline-score the loan for anomalies."   *)
(* Once no request is in flight, a loan whose stored events score below    *)
(* the threshold has been flagged.  It does not hold when two requests for *)
(* the loan overlap: each scores the loan without the other's event.       *)
InlineScoresTheLoan ==
    InFlight = {} =>
        \A l \in Loan :
            LET stored == EventsOf(l, events)
            IN  stored # {} /\ IsAnomaly(Score(stored)) =>
                    \E a \in anomalies : a.loan = l

(* metrics.py: "Total bank-feed events ingested".  Once no request is in   *)
(* flight, every event counted is stored.  It does not hold: the counter   *)
(* goes up before scoring and commit, and no rollback takes it back.       *)
CountedIsStored == InFlight = {} => counted \subseteq events

=============================================================================
