--------------------------- MODULE SentinelProofs ---------------------------
(***************************************************************************)
(* Proofs about the service, for any number of loans, requests, sweepers   *)
(* and workers and any model: first the requests alone (Ingest), then the  *)
(* passes alone (Scanner), then both over one database (Sentinel), where   *)
(* the invariants of the two survive each other's company.                 *)
(***************************************************************************)
EXTENDS Sentinel, TLAPS

(* The rows of an inline alert are rows of table anomalies.  About the     *)
(* Anomaly constructed by ingest_event.                                    *)
LEMMA InlineAlertType ==
    ASSUME NEW r \in Request, NEW seen \in SUBSET Request, LoanOf(r) \in Loan
    PROVE  /\ InlineAlert(r, seen) \subseteq Anomaly
           /\ \A a \in InlineAlert(r, seen) :
                /\ a.by = <<r, 0>>
                /\ a.loan = LoanOf(r)
                /\ a.type = "BEHAVIORAL"
                /\ a.seen = seen
                /\ a.score = Score(seen)
                /\ IsAnomaly(a.score)
           /\ IsAnomaly(Score(seen)) => InlineAlert(r, seen) # {}
<1> DEFINE row == [by |-> <<r, 0>>, loan |-> LoanOf(r), type |-> "BEHAVIORAL",
                   severity |-> "WARNING", score |-> Score(seen), seen |-> seen]
<1>1. InlineAlert(r, seen) = {a \in {row} : IsAnomaly(a.score)}
    BY DEF InlineAlert
<1>2. Score(seen) \in Int
    BY ScoreAssumption
<1>3. <<r, 0>> \in Author
    BY DEF Author
<1>4. row \in Anomaly
    BY <1>2, <1>3 DEF Anomaly
<1>5. row.score = Score(seen)
    OBVIOUS
<1>6. QED
    BY <1>1, <1>4, <1>5

(* What a request adds to its session is signed by it. *)
LEMMA PendingSigned ==
    ASSUME PendingIsVerdict, NEW r \in Request, NEW a \in pending[r]
    PROVE  a.by[1] \in Request
<1>1. a.by = <<r, 0>>
    BY DEF PendingIsVerdict
<1>2. QED
    BY <1>1

LEMMA IngestInitStep == IngestInit => IngestIInv
<1> SUFFICES ASSUME IngestInit PROVE IngestIInv
    OBVIOUS
<1> USE DEF IngestInit, InFlight, Stored
<1>1. IngestTypeOK
    BY DEF IngestTypeOK, Stage
<1>2. StoredByCommit
    BY DEF StoredByCommit, InlineRows
<1>3. PendingIsVerdict
    BY DEF PendingIsVerdict
<1>4. ViewIsCommitted
    BY DEF ViewIsCommitted
<1>5. SeenOrOverlapped
    BY DEF SeenOrOverlapped
<1>6. LastSawAll
    BY DEF LastSawAll, EventsOf
<1>7. QED
    BY <1>1, <1>2, <1>3, <1>4, <1>5, <1>6 DEF IngestIInv

(* A request that loads has no row yet and sees all that is committed. *)
LEMMA LoadStep ==
    ASSUME IngestIInv, NEW r \in Request, Load(r)
    PROVE  IngestIInv'
<1> USE DEF IngestIInv, Load, Advance, Sendable, InFlight, Stored
<1>1. IngestTypeOK'
    BY DEF IngestTypeOK, Stage, EventsRead, EventsOf
<1>2. StoredByCommit'
    BY DEF IngestTypeOK, StoredByCommit, InlineRows
<1>3. PendingIsVerdict'
    BY DEF IngestTypeOK, PendingIsVerdict
<1>4. ViewIsCommitted'
    BY DEF IngestTypeOK, ViewIsCommitted, EventsRead, EventsOf
<1>5. SeenOrOverlapped'
    BY DEF IngestTypeOK, SeenOrOverlapped, StoredByCommit, Overlapped,
       EventsRead, EventsOf
<1>6. LastSawAll'
    BY DEF LastSawAll, Serial, StoredByCommit, Overlapped, EventsOf,
       IngestTypeOK
<1>7. QED
    BY <1>1, <1>2, <1>3, <1>4, <1>5, <1>6 DEF IngestIInv

(* Scoring puts the verdict on what was read, and the new event, aside. *)
LEMMA ScoreStep ==
    ASSUME IngestIInv, NEW r \in Request, FlushAndScore(r)
    PROVE  IngestIInv'
<1> USE DEF IngestIInv, FlushAndScore, Advance, InFlight, Stored
<1>1. IngestTypeOK'
    BY InlineAlertType DEF IngestTypeOK, Stage, ViewIsCommitted
<1>2. StoredByCommit'
    BY DEF IngestTypeOK, StoredByCommit, InlineRows
<1>3. PendingIsVerdict'
    <2>1. /\ LoanOf(r) \in Loan /\ view[r] \cup {r} \in SUBSET Request
          /\ view' = view
        BY DEF ViewIsCommitted, IngestTypeOK
    <2>2. /\ pending'[r] = InlineAlert(r, view[r] \cup {r})
          /\ \A q \in Request \ {r} : pending'[q] = pending[q] /\ stage'[q] = stage[q]
        BY DEF IngestTypeOK
    <2>3. \A a \in InlineAlert(r, view[r] \cup {r}) : a.by = <<r, 0>>
        BY <2>1, InlineAlertType
    <2>4. QED
        BY <2>1, <2>2, <2>3 DEF PendingIsVerdict
<1>4. ViewIsCommitted'
    BY DEF IngestTypeOK, ViewIsCommitted
<1>5. SeenOrOverlapped'
    BY DEF IngestTypeOK, SeenOrOverlapped, Overlapped
<1>6. LastSawAll'
    BY DEF LastSawAll, Serial, Overlapped
<1>7. QED
    BY <1>1, <1>2, <1>3, <1>4, <1>5, <1>6 DEF IngestIInv

(* A request that is refused or fails leaves the tables alone. *)
LEMMA RequestFailStep ==
    ASSUME IngestIInv, NEW r \in Request, Reject(r) \/ ScoreRaises(r) \/ RollBack(r)
    PROVE  IngestIInv'
<1> USE DEF IngestIInv, Reject, ScoreRaises, RollBack, Advance, Sendable, InFlight, Stored
<1>1. IngestTypeOK'
    BY DEF IngestTypeOK, Stage
<1>2. StoredByCommit'
    BY DEF IngestTypeOK, StoredByCommit, InlineRows
<1>3. PendingIsVerdict'
    BY DEF IngestTypeOK, PendingIsVerdict
<1>4. ViewIsCommitted'
    BY DEF IngestTypeOK, ViewIsCommitted
<1>5. SeenOrOverlapped'
    BY DEF IngestTypeOK, SeenOrOverlapped, Overlapped
<1>6. LastSawAll'
    BY DEF LastSawAll, Serial, Overlapped
<1>7. QED
    BY <1>1, <1>2, <1>3, <1>4, <1>5, <1>6 DEF IngestIInv

(* A commit, torn or not, moves the event and its verdict to the tables. *)
LEMMA WriteStep ==
    ASSUME IngestIInv, NEW r \in Request, Commit(r) \/ CommitTorn(r)
    PROVE  IngestIInv'
<1> USE DEF IngestIInv, Commit, CommitTorn, Write, Advance, InFlight, Stored
<1>1. IngestTypeOK'
    BY DEF IngestTypeOK, Stage
<1>2. StoredByCommit'
    <2>1. events' = events \cup {r} /\ anomalies' = anomalies \cup pending[r]
        OBVIOUS
    <2>2. events' = Stored'
        BY <2>1 DEF IngestTypeOK, StoredByCommit
    <2>3. \A a \in pending[r] : a.by[1] \in Request
        BY PendingSigned
    <2>4. InlineRows' = InlineRows \cup pending[r]
        BY <2>1, <2>3 DEF InlineRows
    <2>5. (UNION {pending[q] : q \in events})'
             = (UNION {pending[q] : q \in events}) \cup pending[r]
        BY <2>1
    <2>6. QED
        BY <2>2, <2>4, <2>5 DEF StoredByCommit
<1>3. PendingIsVerdict'
    BY DEF IngestTypeOK, PendingIsVerdict
<1>4. ViewIsCommitted'
    BY DEF IngestTypeOK, ViewIsCommitted, EventsOf
<1>5. SeenOrOverlapped'
    BY DEF IngestTypeOK, SeenOrOverlapped, Overlapped
<1>6. LastSawAll'
    <2> SUFFICES ASSUME NEW l \in Loan, Serial(l)', EventsOf(l, events)' # {}
                 PROVE  \E q \in EventsOf(l, events)' :
                            (view[q] \cup {q})' = EventsOf(l, events)'
        BY DEF LastSawAll
    <2>1. events' = events \cup {r} /\ r \notin events /\ UNCHANGED <<view, overlap>>
        BY DEF StoredByCommit
    <2>2. CASE LoanOf(r) # l
        <3>1. EventsOf(l, events)' = EventsOf(l, events)
            BY <2>1, <2>2 DEF EventsOf
        <3>2. QED
            BY <2>1, <3>1 DEF LastSawAll, Serial, Overlapped
    <2>3. CASE LoanOf(r) = l
        <3>1. EventsOf(l, events)' = EventsOf(l, events) \cup {r}
            BY <2>1, <2>3 DEF EventsOf, IngestTypeOK
        <3>2. view[r] \subseteq EventsOf(l, events)
            BY <2>3 DEF ViewIsCommitted
        <3>3. ASSUME NEW q \in EventsOf(l, events) PROVE q \in view[r]
            <4>1. q \in Stored /\ r \in InFlight /\ q # r /\ LoanOf(q) = LoanOf(r)
                BY <2>1, <2>3, <3>3 DEF StoredByCommit, EventsOf
            <4>2. r \notin view[q]
                BY <2>1, <4>1 DEF ViewIsCommitted, EventsOf
            <4>3. ~Overlapped(q, r)
                BY <2>1, <3>1, <4>1 DEF Serial, Overlapped
            <4>4. QED
                BY <4>1, <4>2, <4>3 DEF SeenOrOverlapped, Overlapped
        <3>4. view[r] \cup {r} = EventsOf(l, events)'
            BY <3>1, <3>2, <3>3
        <3>5. QED
            BY <2>1, <3>1, <3>4
    <2>4. QED
        BY <2>2, <2>3
<1>7. QED
    BY <1>1, <1>2, <1>3, <1>4, <1>5, <1>6 DEF IngestIInv

(* The reply tells what is stored already. *)
LEMMA ReplyStep ==
    ASSUME IngestIInv, NEW r \in Request, Reply(r)
    PROVE  IngestIInv'
<1> USE DEF IngestIInv, Reply, Advance, InFlight, Stored
<1>1. IngestTypeOK'
    BY DEF IngestTypeOK, Stage
<1>2. StoredByCommit'
    BY DEF IngestTypeOK, StoredByCommit, InlineRows
<1>3. PendingIsVerdict'
    BY DEF IngestTypeOK, PendingIsVerdict
<1>4. ViewIsCommitted'
    BY DEF IngestTypeOK, ViewIsCommitted
<1>5. SeenOrOverlapped'
    BY DEF IngestTypeOK, SeenOrOverlapped, Overlapped
<1>6. LastSawAll'
    BY DEF LastSawAll, Serial, Overlapped
<1>7. QED
    BY <1>1, <1>2, <1>3, <1>4, <1>5, <1>6 DEF IngestIInv

(* A crash ends open transactions and loses replies, never a row. *)
LEMMA RequestCrashStep ==
    ASSUME IngestIInv, NEW w \in Worker, RequestsCrash(w)
    PROVE  IngestIInv'
<1> USE DEF IngestIInv, RequestsCrash, InFlight, Stored
<1>1. IngestTypeOK'
    BY DEF IngestTypeOK, Stage
<1>2. StoredByCommit'
    BY DEF IngestTypeOK, StoredByCommit, InlineRows
<1>3. PendingIsVerdict'
    BY DEF IngestTypeOK, PendingIsVerdict
<1>4. ViewIsCommitted'
    BY DEF IngestTypeOK, ViewIsCommitted
<1>5. SeenOrOverlapped'
    BY DEF IngestTypeOK, SeenOrOverlapped, Overlapped
<1>6. LastSawAll'
    BY DEF LastSawAll, Serial, Overlapped
<1>7. QED
    BY <1>1, <1>2, <1>3, <1>4, <1>5, <1>6 DEF IngestIInv

LEMMA RequestStutterStep ==
    ASSUME IngestIInv, UNCHANGED ingestVars
    PROVE  IngestIInv'
<1> USE DEF IngestIInv, ingestVars, requestVars, InFlight, Stored
<1>1. IngestTypeOK' /\ PendingIsVerdict' /\ ViewIsCommitted'
    BY DEF IngestTypeOK, PendingIsVerdict, ViewIsCommitted
<1>2. StoredByCommit'
    BY DEF StoredByCommit, InlineRows
<1>3. SeenOrOverlapped'
    BY DEF SeenOrOverlapped, Overlapped
<1>4. LastSawAll'
    BY DEF LastSawAll, Serial, Overlapped, EventsOf
<1>5. QED
    BY <1>1, <1>2, <1>3, <1>4 DEF IngestIInv

LEMMA IngestNextStep == IngestIInv /\ [IngestNext]_ingestVars => IngestIInv'
<1> SUFFICES ASSUME IngestIInv, [IngestNext]_ingestVars PROVE IngestIInv'
    OBVIOUS
<1>1. CASE \E r \in Request : Handle(r)
    BY <1>1, LoadStep, ScoreStep, RequestFailStep, WriteStep,
       ReplyStep DEF Handle
<1>2. CASE \E w \in Worker : RequestsCrash(w)
    BY <1>2, RequestCrashStep
<1>3. CASE UNCHANGED ingestVars
    BY <1>3, RequestStutterStep
<1>4. QED
    BY <1>1, <1>2, <1>3 DEF IngestNext

(* The tables are, in every reachable state, what the stages of the        *)
(* requests say: the invariant that every other theorem rests on.          *)
THEOREM IngestInvariance == IngestSpec => []IngestIInv
BY IngestInitStep, IngestNextStep, PTL DEF IngestSpec

(* Every variable keeps its type: in particular no ingest stores a row     *)
(* that table anomalies could not hold.                                    *)
THEOREM IngestTypeCorrect == IngestSpec => []IngestTypeOK
<1>1. IngestIInv => IngestTypeOK
    BY DEF IngestIInv
<1>2. QED
    BY <1>1, IngestInvariance, PTL

(* A 201 is a promise: the event is in the table, and stays there.         *)
LEMMA AckedDurableLemma == IngestIInv => AckedDurable
BY DEF IngestIInv, StoredByCommit, Stored, AckedDurable

(* AckedDurable holds of ingest in every reachable state.                  *)
THEOREM Durability == IngestSpec => []AckedDurable
BY AckedDurableLemma, IngestInvariance, PTL

(* A row signed by a request was pending in that request, and is stored    *)
(* only if its event is.                                                   *)
LEMMA InlineOwnership ==
    ASSUME IngestIInv, NEW r \in Request, NEW a \in anomalies, a.by = <<r, 0>>
    PROVE  r \in events /\ a \in pending[r]
<1>1. PICK q \in events : a \in pending[q]
    BY DEF IngestIInv, StoredByCommit, InlineRows
<1>2. a.by = <<q, 0>>
    BY <1>1 DEF IngestIInv, IngestTypeOK, PendingIsVerdict
<1>3. q = r
    BY <1>2
<1>4. QED
    BY <1>1, <1>3

(* A request that is refused, fails or dies leaves no row in either table. *)
LEMMA FailureLeavesNothingLemma == IngestIInv => FailureLeavesNothing
BY InlineOwnership DEF IngestIInv, StoredByCommit, Stored, FailureLeavesNothing,
   AlertsBy

(* FailureLeavesNothing holds of ingest, whatever fails and dies.          *)
THEOREM FailureAtomicity == IngestSpec => []FailureLeavesNothing
BY FailureLeavesNothingLemma, IngestInvariance, PTL

(* An event is stored together with the verdict on it, never without.      *)
LEMMA EventAndAlertTogetherLemma == IngestIInv => EventAndAlertTogether
<1> SUFFICES ASSUME IngestIInv, NEW r \in events
             PROVE  IsAnomaly(Score(view[r] \cup {r})) <=> AlertsBy(r) # {}
    BY DEF EventAndAlertTogether
<1>1. r \in Request /\ view[r] \cup {r} \in SUBSET Request /\ LoanOf(r) \in Loan
    BY DEF IngestIInv, IngestTypeOK, StoredByCommit, ViewIsCommitted, Stored
<1>2. pending[r] = InlineAlert(r, view[r] \cup {r})
    BY DEF IngestIInv, StoredByCommit, Stored, PendingIsVerdict
<1>3. AlertsBy(r) = pending[r]
    <2>1. ASSUME NEW a \in AlertsBy(r) PROVE a \in pending[r]
        BY <1>1, InlineOwnership DEF AlertsBy
    <2>2. ASSUME NEW a \in pending[r] PROVE a \in AlertsBy(r)
        BY <1>1 DEF IngestIInv, StoredByCommit, InlineRows, PendingIsVerdict,
           AlertsBy
    <2>3. QED
        BY <2>1, <2>2
<1>4. IsAnomaly(Score(view[r] \cup {r})) <=>
        InlineAlert(r, view[r] \cup {r}) # {}
    BY <1>1, InlineAlertType
<1>5. QED
    BY <1>2, <1>3, <1>4

(* EventAndAlertTogether holds of ingest, torn commits included.           *)
THEOREM CommitAtomicity == IngestSpec => []EventAndAlertTogether
BY EventAndAlertTogetherLemma, IngestInvariance, PTL

LEMMA InlineOrigin ==
    ASSUME IngestIInv, NEW a \in InlineRows
    PROVE  \E r \in events : a \in InlineAlert(r, view[r] \cup {r})
BY DEF IngestIInv, StoredByCommit, Stored, PendingIsVerdict

LEMMA InlineJustified ==
    ASSUME IngestIInv, NEW a \in InlineRows
    PROVE  /\ a.type = "BEHAVIORAL"
           /\ a.loan \in Loan
           /\ a.seen \subseteq EventsOf(a.loan, events)
           /\ a.score = Score(a.seen)
           /\ IsAnomaly(a.score)
<1>1. PICK r \in events : a \in InlineAlert(r, view[r] \cup {r})
    BY InlineOrigin
<1>2. r \in Request /\ view[r] \cup {r} \in SUBSET Request /\ LoanOf(r) \in Loan
    BY DEF IngestIInv, IngestTypeOK, StoredByCommit, ViewIsCommitted, Stored
<1>3. /\ a.type = "BEHAVIORAL" /\ a.loan = LoanOf(r) /\ a.seen = view[r] \cup {r}
      /\ a.score = Score(a.seen) /\ IsAnomaly(a.score)
    BY <1>1, <1>2, InlineAlertType
<1>4. view[r] \cup {r} \subseteq EventsOf(LoanOf(r), events)
    BY DEF IngestIInv, ViewIsCommitted, EventsOf, IngestTypeOK
<1>5. QED
    BY <1>2, <1>3, <1>4

(* Every inline alert rests on stored events of its own loan, and carries  *)
(* the score of just these.                                                *)
THEOREM Justification == IngestSpec => []AlertJustified
<1>1. IngestIInv /\ OnlyInline => AlertJustified
    <2> SUFFICES ASSUME IngestIInv, OnlyInline PROVE AlertJustified
        OBVIOUS
    <2> QED
        BY InlineJustified DEF OnlyInline, AlertJustified
<1>2. IngestInit => OnlyInline
    BY DEF IngestInit, OnlyInline, InlineRows
<1>3. IngestIInv /\ OnlyInline /\ [IngestNext]_ingestVars => OnlyInline'
    <2> SUFFICES ASSUME IngestIInv, OnlyInline, [IngestNext]_ingestVars PROVE OnlyInline'
        OBVIOUS
    <2>1. anomalies' = anomalies \/ \E r \in Request : anomalies' = anomalies \cup pending[r]
        BY DEF IngestNext, Handle, Load, Reject, FlushAndScore, ScoreRaises,
           RollBack, Commit,
               CommitTorn, Write, Reply, RequestsCrash, ingestVars
    <2>2. \A r \in Request : \A a \in pending[r] : a.by[1] \in Request
        BY PendingSigned DEF IngestIInv
    <2>3. QED
        BY <2>1, <2>2 DEF OnlyInline, InlineRows
<1>4. QED
    BY <1>1, <1>2, <1>3, IngestInvariance, PTL DEF IngestSpec

(* A verdict misses another stored event of the loan only if the two       *)
(* requests overlapped.                                                    *)
LEMMA MissNeedsOverlapLemma == IngestIInv => MissNeedsOverlap
BY DEF IngestIInv, IngestTypeOK, StoredByCommit, SeenOrOverlapped,
   MissNeedsOverlap

(* MissNeedsOverlap holds of ingest: a missed event was in flight.         *)
THEOREM MissesAreRaces == IngestSpec => []MissNeedsOverlap
BY MissNeedsOverlapLemma, IngestInvariance, PTL

(* Without overlapping requests for a loan, inline scoring misses nothing. *)
LEMMA SerialIngestScoresTheLoanLemma == IngestIInv => SerialIngestScoresTheLoan
<1> SUFFICES ASSUME IngestIInv, NEW l \in Loan, EventsOf(l, events) # {}, Serial(l),
                    IsAnomaly(Score(EventsOf(l, events)))
             PROVE  \E a \in anomalies :
                        a.loan = l /\ a.seen = EventsOf(l, events)
    BY DEF SerialIngestScoresTheLoan
<1>1. PICK r \in EventsOf(l, events) : view[r] \cup {r} = EventsOf(l, events)
    BY DEF IngestIInv, LastSawAll
<1>2. /\ r \in events /\ r \in Request /\ LoanOf(r) = l
      /\ EventsOf(l, events) \in SUBSET Request
    BY DEF IngestIInv, IngestTypeOK, EventsOf
<1>3. pending[r] = InlineAlert(r, EventsOf(l, events))
    BY <1>1, <1>2 DEF IngestIInv, StoredByCommit, Stored, PendingIsVerdict
<1>4. PICK a \in pending[r] : a.loan = l /\ a.seen = EventsOf(l, events)
    BY <1>2, <1>3, InlineAlertType
<1>5. a \in anomalies
    BY <1>2, <1>4 DEF IngestIInv, StoredByCommit, InlineRows
<1>6. QED
    BY <1>4, <1>5

(* SerialIngestScoresTheLoan holds of ingest: the race is the only gap.    *)
THEOREM SerialCompleteness == IngestSpec => []SerialIngestScoresTheLoan
BY SerialIngestScoresTheLoanLemma, IngestInvariance, PTL

-----------------------------------------------------------------------------
(* The passes. *)

(* What DpdSeverity allows: one severity, and some beyond either limit.    *)
LEMMA DpdSeverityFacts ==
    ASSUME NEW d \in Nat
    PROVE  /\ DpdSeverity(d) \subseteq {"WARNING", "CRITICAL"}
           /\ \A x, y \in DpdSeverity(d) : x = y
           /\ \A x \in DpdSeverity(d) : x = "CRITICAL" <=> d >= DefaultDays
           /\ d >= WarningDays \/ d >= DefaultDays => DpdSeverity(d) # {}
<1>1. CASE d >= DefaultDays
    <2>1. DpdSeverity(d) = {"CRITICAL"}
        BY <1>1, BookAssumption DEF DpdSeverity
    <2>2. QED
        BY <1>1, <2>1
<1>2. CASE ~(d >= DefaultDays) /\ d >= WarningDays
    <2>1. DpdSeverity(d) = {"WARNING"}
        BY <1>2, BookAssumption DEF DpdSeverity
    <2>2. QED
        BY <1>2, <2>1
<1>3. CASE ~(d >= DefaultDays) /\ ~(d >= WarningDays)
    <2>1. DpdSeverity(d) = {}
        BY <1>3, BookAssumption DEF DpdSeverity
    <2>2. QED
        BY <1>3, <2>1
<1>4. QED
    BY <1>1, <1>2, <1>3

(* The rows a pass adds for one loan, about the two Anomaly(...) branches  *)
(* of run_once: well-typed, signed, and at most one of a kind.             *)
LEMMA SweepAlertsFacts ==
    ASSUME NEW by \in Author, NEW l \in Loan, NEW d \in Nat,
           NEW seen \in SUBSET Request
    PROVE  /\ SweepAlerts(by, l, d, seen) \subseteq Anomaly
           /\ \A a \in SweepAlerts(by, l, d, seen) : a.by = by /\ a.loan = l
           /\ \A a, b \in SweepAlerts(by, l, d, seen) : a.type = b.type => a = b
<1> DEFINE beh == [by |-> by, loan |-> l, type |-> "BEHAVIORAL",
                   severity |-> BehavioralSeverity(Score(seen)),
                   score |-> Score(seen), seen |-> seen]
           dpd(sev) == [by |-> by, loan |-> l, type |-> "DPD_BREACH",
                        severity |-> sev, score |-> d, seen |-> {}]
<1>1. BehavioralAlert(by, l, seen) \subseteq {beh}
    BY DEF BehavioralAlert
<1>2. DpdAlert(by, l, d) = {dpd(sev) : sev \in DpdSeverity(d)}
    BY DEF DpdAlert
<1>3. beh \in Anomaly
    BY ScoreAssumption DEF Anomaly, BehavioralSeverity
<1>4. \A sev \in DpdSeverity(d) : dpd(sev) \in Anomaly
    BY DpdSeverityFacts DEF Anomaly
<1>5. beh.by = by /\ beh.loan = l /\ beh.type = "BEHAVIORAL"
    OBVIOUS
<1>6. \A sev : dpd(sev).by = by /\ dpd(sev).loan = l /\ dpd(sev).type = "DPD_BREACH"
    OBVIOUS
<1> HIDE DEF beh, dpd
<1>7. \A a \in SweepAlerts(by, l, d, seen) :
        a = beh \/ \E sev \in DpdSeverity(d) : a = dpd(sev)
    BY <1>1, <1>2 DEF SweepAlerts
<1>8. SweepAlerts(by, l, d, seen) \subseteq Anomaly
    BY <1>3, <1>4, <1>7
<1>9. \A a \in SweepAlerts(by, l, d, seen) : a.by = by /\ a.loan = l
    BY <1>5, <1>6, <1>7
<1>10. \A a, b \in SweepAlerts(by, l, d, seen) : a.type = b.type => a = b
    BY <1>5, <1>6, <1>7, DpdSeverityFacts
<1>11. QED
    BY <1>8, <1>9, <1>10

(* The rows of a whole pass. *)
LEMMA VerdictsFacts ==
    ASSUME ScannerTypeOK, BookIsFunctional, NEW s \in Sweeper, NEW E \in SUBSET Request
    PROVE  /\ Verdicts(s, E) \subseteq Anomaly
           /\ \A a \in Verdicts(s, E) : a.by = Pass(s)
           /\ \A a, b \in Verdicts(s, E) : a.loan = b.loan /\ a.type = b.type => a = b
<1>1. Pass(s) \in Author
    BY BookAssumption, SweeperAssumption DEF ScannerTypeOK, Pass, Author
<1>2. \A e \in book[s] : e[1] \in Loan /\ e[2] \in Nat /\ EventsOf(e[1], E) \in SUBSET Request
    BY DEF ScannerTypeOK, EventsOf
<1>3. ASSUME NEW a \in Verdicts(s, E)
      PROVE  \E e \in book[s] : a \in SweepAlerts(Pass(s), e[1], e[2], EventsOf(e[1], E))
    BY <1>3 DEF Verdicts
<1>4. ASSUME NEW a \in Verdicts(s, E)
      PROVE  a \in Anomaly /\ a.by = Pass(s)
    BY <1>1, <1>2, <1>3, SweepAlertsFacts
<1>5. ASSUME NEW a \in Verdicts(s, E), NEW b \in Verdicts(s, E),
             a.loan = b.loan, a.type = b.type
      PROVE  a = b
    <2>1. PICK e \in book[s] : a \in SweepAlerts(Pass(s), e[1], e[2], EventsOf(e[1], E))
        BY <1>3
    <2>2. PICK f \in book[s] : b \in SweepAlerts(Pass(s), f[1], f[2], EventsOf(f[1], E))
        BY <1>3
    <2>3. e[1] = f[1]
        BY <1>1, <1>2, <1>5, <2>1, <2>2, SweepAlertsFacts
    <2>4. e = f
        BY <2>3 DEF BookIsFunctional
    <2>5. QED
        BY <1>1, <1>2, <1>5, <2>1, <2>2, <2>4, SweepAlertsFacts
<1>6. QED
    BY <1>4, <1>5

-----------------------------------------------------------------------------
LEMMA ScannerInitStep == ScannerInit => ScannerIInv
<1> SUFFICES ASSUME ScannerInit PROVE ScannerIInv
    OBVIOUS
<1> USE DEF ScannerInit
<1>1. ScannerTypeOK
    BY SweeperAssumption DEF ScannerTypeOK, Running, Rest
<1>2. BookIsFunctional /\ StoredIsFound /\ RowsAreNumbered /\ OneSweepAlertPerKind
    BY DEF BookIsFunctional, StoredIsFound, RowsAreNumbered,
       OneSweepAlertPerKind, SweepRows, StoredModes
<1>3. FoundIsVerdict /\ GaugeNeverAhead
    BY DEF FoundIsVerdict, GaugeNeverAhead, StoredModes
<1>4. QED
    BY <1>1, <1>2, <1>3 DEF ScannerIInv

(* A pass that begins has a number that no row of its sweeper carries.     *)
LEMMA SelectStep ==
    ASSUME ScannerIInv, NEW s \in Sweeper, SelectBook(s)
    PROVE  ScannerIInv'
<1> USE DEF ScannerIInv, SelectBook, Enter, metricVars
<1>1. ScannerTypeOK'
    <2>1. {<<l, loans[l].dpd>> : l \in {k \in Loan : OnBook(loans[k])}} \subseteq Loan \X Nat
        BY SweeperAssumption DEF ScannerTypeOK, LoanRow
    <2>2. NextRound(round[s]) \in 0 .. MaxRound
        BY SweeperAssumption DEF ScannerTypeOK, NextRound
    <2>3. QED
        BY <2>1, <2>2 DEF ScannerTypeOK, Running
<1>2. BookIsFunctional'
    BY DEF BookIsFunctional, ScannerTypeOK
<1>3. FoundIsVerdict'
    BY DEF FoundIsVerdict, ScannerTypeOK, StoredModes, Verdicts, Pass
<1>4. StoredIsFound'
    BY DEF StoredIsFound, ScannerTypeOK, StoredModes
<1>5. RowsAreNumbered'
    <2> SUFFICES ASSUME NEW t \in Sweeper, NEW a \in anomalies, a.by[1] = t
                 PROVE  /\ a.by[2] <= round'[t]
                        /\ a.by[2] = round'[t] /\ round'[t] < MaxRound =>
                             mode'[t] \in StoredModes /\ a \in found'[t]
        BY DEF RowsAreNumbered, SweepRows
    <2>1. /\ a.by[2] <= round[t]
          /\ a.by[2] = round[t] /\ round[t] < MaxRound =>
               mode[t] \in StoredModes /\ a \in found[t]
        BY DEF RowsAreNumbered, SweepRows
    <2>2. a.by[2] \in Nat
        BY DEF ScannerTypeOK, Anomaly, Author
    <2>3. CASE t = s
        <3>1. round'[s] = NextRound(round[s])
            BY DEF ScannerTypeOK
        <3>2. a.by[2] <= round'[s] /\ (round'[s] < MaxRound => a.by[2] < round'[s])
            BY <2>1, <2>2, <2>3, <3>1, SweeperAssumption DEF NextRound,
               ScannerTypeOK
        <3>3. round'[s] \in Nat
            BY <3>1, SweeperAssumption DEF NextRound, ScannerTypeOK
        <3>4. QED
            BY <2>1, <2>2, <2>3, <3>2, <3>3
    <2>4. CASE t # s
        BY <2>1, <2>4 DEF ScannerTypeOK
    <2>5. QED
        BY <2>3, <2>4
<1>6. OneSweepAlertPerKind' /\ GaugeNeverAhead'
    BY DEF OneSweepAlertPerKind, SweepRows, GaugeNeverAhead
<1>7. QED
    BY <1>1, <1>2, <1>3, <1>4, <1>5, <1>6 DEF ScannerIInv

(* Scoring puts the verdicts on what was read aside. *)
LEMMA AssessStep ==
    ASSUME ScannerIInv, NEW s \in Sweeper, Assess(s)
    PROVE  ScannerIInv'
<1> USE DEF ScannerIInv, Assess, Enter, metricVars
<1>1. ScannerTypeOK'
    <2>1. Verdicts(s, events) \subseteq Anomaly
        BY VerdictsFacts DEF ScannerTypeOK
    <2>2. QED
        BY <2>1 DEF ScannerTypeOK, Running
<1>2. BookIsFunctional'
    BY DEF BookIsFunctional
<1>3. FoundIsVerdict'
    BY DEF FoundIsVerdict, ScannerTypeOK, StoredModes, Verdicts, Pass
<1>4. StoredIsFound'
    BY DEF StoredIsFound, ScannerTypeOK, StoredModes
<1>5. RowsAreNumbered'
    BY DEF RowsAreNumbered, SweepRows, ScannerTypeOK, StoredModes
<1>6. OneSweepAlertPerKind' /\ GaugeNeverAhead'
    BY DEF OneSweepAlertPerKind, SweepRows, GaugeNeverAhead
<1>7. QED
    BY <1>1, <1>2, <1>3, <1>4, <1>5, <1>6 DEF ScannerIInv

(* A pass that fails leaves the table alone. *)
LEMMA PassFailStep ==
    ASSUME ScannerIInv, NEW s \in Sweeper, PassFails(s)
    PROVE  ScannerIInv'
<1> USE DEF ScannerIInv, PassFails, Enter, metricVars
<1>1. ScannerTypeOK'
    BY DEF ScannerTypeOK, Rest
<1>2. BookIsFunctional'
    BY DEF BookIsFunctional
<1>3. FoundIsVerdict'
    BY DEF FoundIsVerdict, ScannerTypeOK, StoredModes, Verdicts, Pass
<1>4. StoredIsFound'
    BY DEF StoredIsFound, ScannerTypeOK, StoredModes
<1>5. RowsAreNumbered'
    BY DEF RowsAreNumbered, SweepRows, ScannerTypeOK, StoredModes
<1>6. OneSweepAlertPerKind' /\ GaugeNeverAhead'
    BY DEF OneSweepAlertPerKind, SweepRows, GaugeNeverAhead
<1>7. QED
    BY <1>1, <1>2, <1>3, <1>4, <1>5, <1>6 DEF ScannerIInv

(* A commit, torn or not, adds one pass that has no row yet. *)
LEMMA StoreStep ==
    ASSUME ScannerIInv, NEW s \in Sweeper, CommitPass(s) \/ CommitPassTorn(s)
    PROVE  ScannerIInv'
<1> USE DEF ScannerIInv, CommitPass, CommitPassTorn, Store, Enter, metricVars
<1>1. /\ mode[s] = "assessed" /\ mode'[s] \in StoredModes
      /\ \A t \in Sweeper \ {s} : mode'[t] = mode[t]
      /\ anomalies' = anomalies \cup found[s]
      /\ UNCHANGED <<loans, events, round, book, read, found, gauge, completed>>
    BY DEF ScannerTypeOK, StoredModes
<1>2. found[s] = Verdicts(s, read[s])
    BY <1>1 DEF FoundIsVerdict
<1>3. /\ \A a \in found[s] : a.by = Pass(s)
      /\ \A a, b \in found[s] : a.loan = b.loan /\ a.type = b.type => a = b
    BY <1>2, VerdictsFacts DEF ScannerTypeOK
<1>4. ScannerTypeOK'
    BY DEF ScannerTypeOK, Running, Rest
<1>5. BookIsFunctional'
    BY <1>1 DEF BookIsFunctional
<1>6. FoundIsVerdict'
    BY <1>1 DEF FoundIsVerdict, Verdicts, Pass, StoredModes
<1>7. StoredIsFound'
    BY <1>1 DEF StoredIsFound
<1>8. RowsAreNumbered'
    <2> SUFFICES ASSUME NEW t \in Sweeper, NEW a \in anomalies', a.by[1] = t
                 PROVE  /\ a.by[2] <= round[t]
                        /\ a.by[2] = round[t] /\ round[t] < MaxRound =>
                             mode'[t] \in StoredModes /\ a \in found[t]
        BY <1>1 DEF RowsAreNumbered, SweepRows
    <2>1. CASE a \in anomalies
        BY <1>1, <2>1 DEF RowsAreNumbered, SweepRows
    <2>2. CASE a \in found[s]
        <3>1. a.by[1] = s /\ a.by[2] = round[s]
            BY <1>3, <2>2 DEF Pass
        <3>2. a.by[2] <= round[s]
            BY <3>1, SweeperAssumption DEF ScannerTypeOK
        <3>3. QED
            BY <1>1, <2>2, <3>1, <3>2
    <2>3. QED
        BY <1>1, <2>1, <2>2
<1>9. OneSweepAlertPerKind'
    <2> SUFFICES ASSUME NEW a \in anomalies', NEW b \in anomalies',
                        a.by[1] \in Sweeper, a.by = b.by, a.by[2] < MaxRound,
                        a.loan = b.loan, a.type = b.type
                 PROVE  a = b
        BY DEF OneSweepAlertPerKind, SweepRows
    <2>1. ASSUME NEW c \in anomalies, c.by = Pass(s), c.by[2] < MaxRound PROVE FALSE
        <3>1. c.by[1] = s /\ c.by[2] = round[s]
            BY <2>1 DEF Pass
        <3>2. mode[s] \in StoredModes
            BY <2>1, <3>1 DEF RowsAreNumbered, SweepRows
        <3>3. QED
            BY <1>1, <3>2 DEF StoredModes
    <2>2. CASE a \in anomalies /\ b \in anomalies
        BY <2>2 DEF OneSweepAlertPerKind, SweepRows
    <2>3. CASE a \in found[s] /\ b \in found[s]
        BY <1>3, <2>3
    <2>4. CASE a \in anomalies /\ b \in found[s]
        BY <1>3, <2>1, <2>4
    <2>5. CASE a \in found[s] /\ b \in anomalies
        BY <1>3, <2>1, <2>5
    <2>6. QED
        BY <1>1, <2>2, <2>3, <2>4, <2>5
<1>10. GaugeNeverAhead'
    BY <1>1 DEF GaugeNeverAhead
<1>11. QED
    BY <1>4, <1>5, <1>6, <1>7, <1>8, <1>9, <1>10 DEF ScannerIInv

(* The metrics follow what is stored. *)
LEMMA PublishStep ==
    ASSUME ScannerIInv, NEW s \in Sweeper, Publish(s)
    PROVE  ScannerIInv'
<1> USE DEF ScannerIInv, Publish, Enter
<1>1. ScannerTypeOK'
    <2>1. Home[s] \in Worker
        BY SweeperAssumption
    <2>2. mode' \in [Sweeper -> Running \cup Rest] /\ gauge' \in [Worker -> SUBSET Anomaly]
        BY <2>1 DEF ScannerTypeOK, Rest
    <2>3. completed' \subseteq Sweeper \X (0 .. MaxRound)
        BY DEF ScannerTypeOK, Pass
    <2>4. QED
        BY <2>2, <2>3 DEF ScannerTypeOK
<1>2. BookIsFunctional'
    BY DEF BookIsFunctional
<1>3. FoundIsVerdict'
    BY DEF FoundIsVerdict, ScannerTypeOK, StoredModes, Verdicts, Pass
<1>4. StoredIsFound'
    BY DEF StoredIsFound, ScannerTypeOK, StoredModes
<1>5. RowsAreNumbered'
    BY DEF RowsAreNumbered, SweepRows, ScannerTypeOK, StoredModes
<1>6. OneSweepAlertPerKind'
    BY DEF OneSweepAlertPerKind, SweepRows
<1>7. GaugeNeverAhead'
    BY DEF GaugeNeverAhead, StoredIsFound, ScannerTypeOK, StoredModes
<1>8. QED
    BY <1>1, <1>2, <1>3, <1>4, <1>5, <1>6, <1>7 DEF ScannerIInv

(* A crash ends passes and resets metrics, and takes no row back. *)
LEMMA PassCrashStep ==
    ASSUME ScannerIInv, NEW w \in Worker, PassesCrash(w)
    PROVE  ScannerIInv'
<1> USE DEF ScannerIInv, PassesCrash
<1>1. \A s \in Sweeper :
        /\ mode'[s] \in StoredModes <=> mode[s] \in StoredModes
        /\ mode'[s] = "assessed" => mode[s] = "assessed"
        /\ mode'[s] \in Running \cup Rest
    BY DEF ScannerTypeOK, StoredModes, Running, Rest
<1>2. mode' \in [Sweeper -> Running \cup Rest]
    BY <1>1 DEF ScannerTypeOK
<1>3. ScannerTypeOK'
    BY <1>2 DEF ScannerTypeOK
<1>4. BookIsFunctional'
    BY DEF BookIsFunctional
<1>5. FoundIsVerdict'
    BY <1>1 DEF FoundIsVerdict, Verdicts, Pass
<1>6. StoredIsFound'
    BY <1>1 DEF StoredIsFound
<1>7. RowsAreNumbered'
    BY <1>1 DEF RowsAreNumbered, SweepRows
<1>8. OneSweepAlertPerKind'
    BY DEF OneSweepAlertPerKind, SweepRows
<1>9. GaugeNeverAhead'
    BY DEF GaugeNeverAhead, ScannerTypeOK
<1>10. QED
    BY <1>3, <1>4, <1>5, <1>6, <1>7, <1>8, <1>9 DEF ScannerIInv

(* Loan rows and events may change under a pass: it keeps what it read. *)
LEMMA WorldStep ==
    ASSUME ScannerIInv,
           \/ \E l \in Loan : Service(l)
           \/ \E r \in Request : EventArrives(r)
           \/ UNCHANGED scannerVars
    PROVE  ScannerIInv'
<1> USE DEF ScannerIInv, sweepVars, passVars, metricVars
<1>1. UNCHANGED <<anomalies, mode, round, book, read, found, gauge, completed>>
    BY DEF Service, EventArrives, scannerVars
<1>2. loans' \in [Loan -> Row] /\ events' \subseteq Request
    BY DEF Service, EventArrives, scannerVars, ScannerTypeOK
<1>3. ScannerTypeOK'
    BY <1>1, <1>2 DEF ScannerTypeOK
<1>4. BookIsFunctional' /\ FoundIsVerdict' /\ StoredIsFound'
    BY <1>1 DEF BookIsFunctional, FoundIsVerdict, StoredIsFound, Verdicts, Pass
<1>5. RowsAreNumbered' /\ OneSweepAlertPerKind' /\ GaugeNeverAhead'
    BY <1>1 DEF RowsAreNumbered, OneSweepAlertPerKind, SweepRows,
       GaugeNeverAhead
<1>6. QED
    BY <1>3, <1>4, <1>5 DEF ScannerIInv

LEMMA ScannerNextStep == ScannerIInv /\ [ScannerNext]_scannerVars => ScannerIInv'
<1> SUFFICES ASSUME ScannerIInv, [ScannerNext]_scannerVars PROVE ScannerIInv'
    OBVIOUS
<1>1. CASE \E s \in Sweeper : Sweep(s)
    BY <1>1, SelectStep, AssessStep, PassFailStep, StoreStep,
       PublishStep DEF Sweep
<1>2. CASE \E w \in Worker : PassesCrash(w)
    BY <1>2, PassCrashStep
<1>3. CASE \/ \E l \in Loan : Service(l)
           \/ \E r \in Request : EventArrives(r)
           \/ UNCHANGED scannerVars
    BY <1>3, WorldStep
<1>4. QED
    BY <1>1, <1>2, <1>3 DEF ScannerNext

-----------------------------------------------------------------------------
(* Stored rows, numbers, verdicts and gauges fit together in every         *)
(* reachable state: the invariant that the other theorems rest on.         *)
THEOREM ScannerInvariance == ScannerSpec => []ScannerIInv
BY ScannerInitStep, ScannerNextStep, PTL DEF ScannerSpec

(* Every variable keeps its type: no pass adds a malformed row.            *)
THEOREM ScannerTypeCorrect == ScannerSpec => []ScannerTypeOK
<1>1. ScannerIInv => ScannerTypeOK
    BY DEF ScannerIInv
<1>2. QED
    BY <1>1, ScannerInvariance, PTL

(* A pass that fails or dies stores none of its rows.                      *)
LEMMA PassAllOrNothingLemma == ScannerIInv => PassAllOrNothing
<1> SUFFICES ASSUME ScannerIInv, NEW s \in Sweeper, mode[s] \notin StoredModes,
                    round[s] < MaxRound, NEW a \in RowsOf(s)
             PROVE  FALSE
    BY DEF PassAllOrNothing
<1>1. a \in anomalies /\ a.by[1] = s /\ a.by[2] = round[s]
    BY DEF RowsOf, Pass
<1>2. QED
    BY <1>1 DEF ScannerIInv, RowsAreNumbered, SweepRows

(* PassAllOrNothing holds of run_once, whatever fails, tears and dies.     *)
THEOREM PassAtomicity == ScannerSpec => []PassAllOrNothing
BY PassAllOrNothingLemma, ScannerInvariance, PTL

(* A stored pass has flagged every loan of its book that called for it.    *)
LEMMA StoredPassCoversLemma == ScannerIInv => StoredPassCovers
<1> SUFFICES ASSUME ScannerIInv, NEW s \in Sweeper, mode[s] \in StoredModes, NEW e \in book[s]
             PROVE  /\ e[2] >= WarningDays \/ e[2] >= DefaultDays =>
                         \E a \in RowsOf(s) :
                            /\ a.loan = e[1] /\ a.type = "DPD_BREACH"
                            /\ a.score = e[2]
                            /\ a.severity = "CRITICAL" <=> e[2] >= DefaultDays
                    /\ IsAnomaly(Score(EventsOf(e[1], read[s]))) =>
                         \E a \in RowsOf(s) :
                            /\ a.loan = e[1] /\ a.type = "BEHAVIORAL"
                            /\ a.seen = EventsOf(e[1], read[s])
    BY DEF StoredPassCovers
<1> DEFINE E == EventsOf(e[1], read[s])
<1>1. e[1] \in Loan /\ e[2] \in Nat
    BY DEF ScannerIInv, ScannerTypeOK
<1>2. SweepAlerts(Pass(s), e[1], e[2], E) \subseteq RowsOf(s)
    <2>1. SweepAlerts(Pass(s), e[1], e[2], E) \subseteq found[s]
        BY DEF ScannerIInv, FoundIsVerdict, Verdicts
    <2>2. \A a \in found[s] : a \in anomalies /\ a.by = Pass(s)
        BY VerdictsFacts DEF ScannerIInv, ScannerTypeOK, FoundIsVerdict,
           StoredIsFound
    <2>3. QED
        BY <2>1, <2>2 DEF RowsOf
<1>3. ASSUME e[2] >= WarningDays \/ e[2] >= DefaultDays
      PROVE  \E a \in RowsOf(s) :
                /\ a.loan = e[1] /\ a.type = "DPD_BREACH" /\ a.score = e[2]
                /\ a.severity = "CRITICAL" <=> e[2] >= DefaultDays
    <2>1. PICK sev \in DpdSeverity(e[2]) : sev = "CRITICAL" <=> e[2] >= DefaultDays
        BY <1>1, <1>3, DpdSeverityFacts
    <2>2. [by |-> Pass(s), loan |-> e[1], type |-> "DPD_BREACH", severity |-> sev,
           score |-> e[2], seen |-> {}] \in RowsOf(s)
        BY <1>2, <2>1 DEF SweepAlerts, DpdAlert
    <2>3. QED
        BY <2>1, <2>2
<1>4. ASSUME IsAnomaly(Score(E))
      PROVE  \E a \in RowsOf(s) :
                a.loan = e[1] /\ a.type = "BEHAVIORAL" /\ a.seen = E
    <2>1. [by |-> Pass(s), loan |-> e[1], type |-> "BEHAVIORAL",
           severity |-> BehavioralSeverity(Score(E)),
           score |-> Score(E), seen |-> E] \in RowsOf(s)
        BY <1>2, <1>4 DEF SweepAlerts, BehavioralAlert
    <2>2. QED
        BY <2>1
<1>5. QED
    BY <1>3, <1>4

(* StoredPassCovers holds of run_once: no loan of the book is skipped.     *)
THEOREM PassCompleteness == ScannerSpec => []StoredPassCovers
BY StoredPassCoversLemma, ScannerInvariance, PTL

(* No pass raises two alerts of a kind for a loan.                         *)
THEOREM NoDoubleAlert == ScannerSpec => []OneAlertPerKind
<1>1. ScannerIInv /\ OnlySweeps => OneAlertPerKind
    BY DEF ScannerIInv, OnlySweeps, OneSweepAlertPerKind, OneAlertPerKind
<1>2. ScannerInit => OnlySweeps
    BY DEF ScannerInit, OnlySweeps, SweepRows
<1>3. ScannerIInv /\ OnlySweeps /\ [ScannerNext]_scannerVars => OnlySweeps'
    <2> SUFFICES ASSUME ScannerIInv, OnlySweeps, [ScannerNext]_scannerVars PROVE OnlySweeps'
        OBVIOUS
    <2>1. \/ anomalies' = anomalies
          \/ \E s \in Sweeper : mode[s] = "assessed" /\ anomalies' = anomalies \cup found[s]
        BY DEF ScannerNext, Sweep, SelectBook, Assess, PassFails, CommitPass,
           CommitPassTorn,
               Store, Publish, Service, EventArrives, PassesCrash, scannerVars
    <2>2. \A s \in Sweeper : mode[s] = "assessed" => \A a \in found[s] : a.by = Pass(s)
        BY VerdictsFacts DEF ScannerIInv, ScannerTypeOK, FoundIsVerdict
    <2>3. QED
        BY <2>1, <2>2 DEF OnlySweeps, SweepRows, Pass
<1>4. QED
    BY <1>1, <1>2, <1>3, ScannerInvariance, PTL DEF ScannerSpec

(* The alert gauge never runs ahead of the table.                          *)
THEOREM GaugeSoundness == ScannerSpec => []GaugeNeverAhead
<1>1. ScannerIInv => GaugeNeverAhead
    BY DEF ScannerIInv
<1>2. QED
    BY <1>1, ScannerInvariance, PTL

-----------------------------------------------------------------------------
(* Both over one database. *)

(* What a pass finds is signed by it, and a behavioral row rests on all it *)
(* read of its loan.                                                       *)
LEMMA FoundSigned ==
    ASSUME ScannerIInv, NEW s \in Sweeper, mode[s] \in StoredModes \cup {"assessed"},
           NEW a \in found[s]
    PROVE  a.by = Pass(s) /\ a.by[1] = s
<1>1. a.by = Pass(s)
    BY VerdictsFacts DEF ScannerIInv, ScannerTypeOK, FoundIsVerdict
<1>2. QED
    BY <1>1 DEF Pass

LEMMA FoundForm ==
    ASSUME ScannerIInv, NEW s \in Sweeper, mode[s] \in StoredModes \cup {"assessed"},
           NEW a \in found[s]
    PROVE  \/ /\ a.type = "BEHAVIORAL"
              /\ a.seen = EventsOf(a.loan, read[s])
              /\ a \in BehavioralAlert(a.by, a.loan, a.seen)
              /\ a.score = Score(a.seen)
              /\ IsAnomaly(a.score)
           \/ a.type = "DPD_BREACH" /\ a \in DpdAlert(a.by, a.loan, a.score)
<1>1. PICK e \in book[s] : a \in SweepAlerts(Pass(s), e[1], e[2], EventsOf(e[1], read[s]))
    BY DEF ScannerIInv, FoundIsVerdict, Verdicts
<1> DEFINE E == EventsOf(e[1], read[s])
<1>2. CASE a \in BehavioralAlert(Pass(s), e[1], E)
    <2>1. /\ a = [by |-> Pass(s), loan |-> e[1], type |-> "BEHAVIORAL",
                  severity |-> BehavioralSeverity(Score(E)), score |-> Score(E), seen |-> E]
          /\ IsAnomaly(a.score)
        BY <1>2 DEF BehavioralAlert
    <2>2. a.by = Pass(s) /\ a.loan = e[1] /\ a.seen = E /\ a.score = Score(E) /\ a.type = "BEHAVIORAL"
        BY <2>1
    <2>3. QED
        BY <1>2, <2>1, <2>2
<1>3. CASE a \in DpdAlert(Pass(s), e[1], e[2])
    <2>1. PICK sev \in DpdSeverity(e[2]) :
            a = [by |-> Pass(s), loan |-> e[1], type |-> "DPD_BREACH", severity |-> sev,
                 score |-> e[2], seen |-> {}]
        BY <1>3 DEF DpdAlert
    <2>2. a.by = Pass(s) /\ a.loan = e[1] /\ a.score = e[2] /\ a.type = "DPD_BREACH"
        BY <2>1
    <2>3. QED
        BY <1>3, <2>2
<1>4. QED
    BY <1>1, <1>2, <1>3 DEF SweepAlerts

(* What a request is about to commit rests on what is stored with it. *)
LEMMA PendingJustified ==
    ASSUME IngestIInv, NEW r \in Request, stage[r] = "scored", NEW a \in pending[r]
    PROVE  /\ a.loan = LoanOf(r)
           /\ a.seen \subseteq EventsOf(a.loan, events \cup {r})
           /\ a.score = Score(a.seen)
           /\ IsAnomaly(a.score)
<1>1. view[r] \cup {r} \in SUBSET Request /\ LoanOf(r) \in Loan
    BY DEF IngestIInv, IngestTypeOK, ViewIsCommitted, InFlight
<1>2. a \in InlineAlert(r, view[r] \cup {r})
    BY DEF IngestIInv, PendingIsVerdict
<1>3. /\ a.loan = LoanOf(r) /\ a.seen = view[r] \cup {r}
      /\ a.score = Score(a.seen) /\ IsAnomaly(a.score)
    BY <1>1, <1>2, InlineAlertType
<1>4. view[r] \cup {r} \subseteq EventsOf(LoanOf(r), events \cup {r})
    BY DEF IngestIInv, ViewIsCommitted, EventsOf
<1>5. QED
    BY <1>3, <1>4

(* What a request does to the tables: nothing, or its own commit. *)
LEMMA HandleWrites ==
    ASSUME NEW r \in Request, Handle(r)
    PROVE  \/ UNCHANGED <<events, anomalies>>
           \/ stage[r] = "scored" /\ events' = events \cup {r} /\ anomalies' = anomalies \cup pending[r]
BY DEF Handle, Load, Reject, FlushAndScore, ScoreRaises, RollBack, Commit,
   CommitTorn, Write, Reply

(* What a pass does to the tables: nothing, or its own commit. *)
LEMMA SweepWrites ==
    ASSUME NEW s \in Sweeper, Sweep(s)
    PROVE  /\ UNCHANGED events
           /\ \/ UNCHANGED anomalies
              \/ mode[s] = "assessed" /\ anomalies' = anomalies \cup found[s]
BY DEF Sweep, SelectBook, Assess, PassFails, CommitPass, CommitPassTorn, Store,
   Publish

(* The invariant of the requests bears with whatever passes add. *)
LEMMA RequestsUndisturbed ==
    ASSUME IngestIInv, anomalies' \subseteq Anomaly, InlineRows' = InlineRows,
           UNCHANGED <<events, requestVars>>
    PROVE  IngestIInv'
<1> USE DEF IngestIInv, requestVars, InFlight, Stored
<1>1. IngestTypeOK' /\ PendingIsVerdict' /\ ViewIsCommitted'
    BY DEF IngestTypeOK, PendingIsVerdict, ViewIsCommitted
<1>2. StoredByCommit'
    BY DEF StoredByCommit
<1>3. SeenOrOverlapped'
    BY DEF SeenOrOverlapped, Overlapped
<1>4. LastSawAll'
    BY DEF LastSawAll, Serial, Overlapped, EventsOf
<1>5. QED
    BY <1>1, <1>2, <1>3, <1>4

(* The invariant of the passes bears with whatever requests add. *)
LEMMA PassesUndisturbed ==
    ASSUME ScannerIInv, events' \subseteq Request, anomalies' \subseteq Anomaly,
           anomalies \subseteq anomalies', SweepRows' = SweepRows, UNCHANGED <<loans, sweepVars>>
    PROVE  ScannerIInv'
<1> USE DEF ScannerIInv, sweepVars, passVars, metricVars
<1>1. ScannerTypeOK'
    BY DEF ScannerTypeOK
<1>2. BookIsFunctional' /\ FoundIsVerdict'
    BY DEF BookIsFunctional, FoundIsVerdict, Verdicts, Pass
<1>3. StoredIsFound' /\ GaugeNeverAhead'
    BY DEF StoredIsFound, GaugeNeverAhead
<1>4. RowsAreNumbered' /\ OneSweepAlertPerKind'
    BY DEF RowsAreNumbered, OneSweepAlertPerKind
<1>5. QED
    BY <1>1, <1>2, <1>3, <1>4

LEMMA InitStep == Init => IInv
<1> SUFFICES ASSUME Init PROVE IInv
    OBVIOUS
<1>1. IngestIInv /\ ScannerIInv
    BY IngestInitStep, ScannerInitStep DEF Init
<1>2. TypeOK
    BY <1>1 DEF Init, TypeOK, IngestIInv, ScannerIInv
<1>3. ReadIsCommitted /\ AlertJustified
    BY DEF Init, IngestInit, ScannerInit, ReadIsCommitted, AlertJustified,
       StoredModes
<1>4. QED
    BY <1>1, <1>2, <1>3 DEF IInv

(* A request adds rows of its own, and no pass loses by it. *)
LEMMA ServeStep ==
    ASSUME IInv, NEW r \in Request, Serve(r)
    PROVE  IInv'
<1>1. IngestIInv'
    BY IngestNextStep DEF IInv, Serve, IngestNext
<1>2. \/ UNCHANGED <<events, anomalies>>
      \/ stage[r] = "scored" /\ events' = events \cup {r} /\ anomalies' = anomalies \cup pending[r]
    BY HandleWrites DEF Serve
<1>3. \A a \in pending[r] : a.by[1] \notin Sweeper
    BY PendingSigned, BookAssumption DEF IInv, IngestIInv
<1>4. SweepRows' = SweepRows
    BY <1>2, <1>3 DEF SweepRows
<1>5. /\ events' \subseteq Request /\ anomalies' \subseteq Anomaly
      /\ events \subseteq events' /\ anomalies \subseteq anomalies'
    BY <1>1, <1>2 DEF IngestIInv, IngestTypeOK
<1>6. UNCHANGED <<loans, sweepVars, known>>
    BY DEF Serve
<1>7. ScannerIInv'
    BY <1>4, <1>5, <1>6, PassesUndisturbed DEF IInv
<1>8. TypeOK'
    BY <1>1, <1>6, <1>7 DEF IInv, TypeOK, IngestIInv, ScannerIInv
<1>9. ReadIsCommitted'
    BY <1>5, <1>6 DEF IInv, ReadIsCommitted, sweepVars, passVars
<1>10. AlertJustified'
    <2> SUFFICES ASSUME NEW a \in anomalies', a.type = "BEHAVIORAL"
                 PROVE  /\ a.seen \subseteq EventsOf(a.loan, events')
                        /\ a.score = Score(a.seen)
                        /\ IsAnomaly(a.score)
        BY DEF AlertJustified
    <2>1. CASE a \in anomalies
        BY <1>5, <2>1 DEF IInv, AlertJustified, EventsOf
    <2>2. CASE a \notin anomalies
        BY <1>2, <2>2, PendingJustified DEF IInv
    <2>3. QED
        BY <2>1, <2>2
<1>11. QED
    BY <1>1, <1>7, <1>8, <1>9, <1>10 DEF IInv

(* A pass adds rows of its own, on events that are still there. *)
LEMMA SweepStep ==
    ASSUME IInv, NEW s \in Sweeper, BeginPass(s) \/ PursuePass(s)
    PROVE  IInv'
<1>1. Sweep(s) /\ UNCHANGED requestVars
    BY DEF BeginPass, PursuePass, Apart, Sweep
<1>2. ScannerIInv'
    BY <1>1, ScannerNextStep DEF IInv, ScannerNext
<1>3. /\ UNCHANGED events
      /\ \/ UNCHANGED anomalies
         \/ mode[s] = "assessed" /\ anomalies' = anomalies \cup found[s]
    BY <1>1, SweepWrites
<1>4. mode[s] = "assessed" => \A a \in found[s] : a.by[1] \notin Request
    BY FoundSigned, BookAssumption DEF IInv
<1>5. InlineRows' = InlineRows
    BY <1>3, <1>4 DEF InlineRows
<1>6. IngestIInv'
    BY <1>1, <1>2, <1>3, <1>5, RequestsUndisturbed DEF IInv, ScannerIInv,
       ScannerTypeOK
<1>7. known' = known \/ (BeginPass(s) /\ known' = [known EXCEPT ![s] = events])
    BY DEF BeginPass, PursuePass, Apart
<1>8. TypeOK'
    BY <1>2, <1>6, <1>7 DEF IInv, TypeOK, IngestIInv, ScannerIInv, IngestTypeOK
<1>9. ReadIsCommitted'
    <2>1. CASE BeginPass(s)
        BY <1>3, <2>1 DEF IInv, TypeOK, ScannerTypeOK, ReadIsCommitted,
           BeginPass, SelectBook,
                          Enter, StoredModes
    <2>2. CASE Apart(Assess(s))
        BY <1>3, <2>2 DEF IInv, TypeOK, ScannerTypeOK, ReadIsCommitted, Apart,
           Assess, Enter,
                          StoredModes
    <2>3. CASE Apart(PassFails(s)) \/ Apart(CommitPass(s)) \/ Apart(CommitPassTorn(s))
               \/ Apart(Publish(s))
        BY <1>3, <2>3 DEF IInv, TypeOK, ScannerTypeOK, ReadIsCommitted, Apart,
           PassFails,
                          CommitPass, CommitPassTorn, Publish, Enter, StoredModes
    <2>4. QED
        BY <2>1, <2>2, <2>3 DEF PursuePass
<1>10. AlertJustified'
    <2> SUFFICES ASSUME NEW a \in anomalies', a.type = "BEHAVIORAL"
                 PROVE  /\ a.seen \subseteq EventsOf(a.loan, events')
                        /\ a.score = Score(a.seen)
                        /\ IsAnomaly(a.score)
        BY DEF AlertJustified
    <2>1. CASE a \in anomalies
        BY <1>3, <2>1 DEF IInv, AlertJustified
    <2>2. CASE mode[s] = "assessed" /\ a \in found[s]
        <3>1. a.seen = EventsOf(a.loan, read[s]) /\ a.score = Score(a.seen) /\ IsAnomaly(a.score)
            BY <2>2, FoundForm DEF IInv
        <3>2. EventsOf(a.loan, read[s]) \subseteq EventsOf(a.loan, events)
            BY DEF IInv, ReadIsCommitted, EventsOf
        <3>3. QED
            BY <1>3, <3>1, <3>2
    <2>3. QED
        BY <1>3, <2>1, <2>2
<1>11. QED
    BY <1>2, <1>6, <1>8, <1>9, <1>10 DEF IInv

(* A crash takes requests and passes, a servicing run rewrites a loan row: *)
(* neither touches the two tables.                                         *)
LEMMA TablesStayStep ==
    ASSUME IInv,
           \/ \E w \in Worker : Crash(w)
           \/ \E l \in Loan : Apart(Service(l))
           \/ UNCHANGED vars
    PROVE  IInv'
<1>1. UNCHANGED <<events, anomalies, read, known>>
    BY DEF Crash, RequestsCrash, PassesCrash, Apart, Service, vars, sweepVars,
       passVars
<1>2. [IngestNext]_ingestVars
    BY DEF Crash, IngestNext, Apart, Service, vars, ingestVars
<1>3. [ScannerNext]_scannerVars
    BY DEF Crash, ScannerNext, Apart, vars, scannerVars
<1>4. IngestIInv' /\ ScannerIInv'
    BY <1>2, <1>3, IngestNextStep, ScannerNextStep DEF IInv
<1>5. TypeOK'
    BY <1>1, <1>4 DEF IInv, TypeOK, IngestIInv, ScannerIInv
<1>6. \A s \in Sweeper : mode'[s] \in StoredModes \cup {"assessed"} =>
                         mode[s] \in StoredModes \cup {"assessed"}
    BY DEF Crash, PassesCrash, Apart, Service, vars, sweepVars, passVars,
       StoredModes,
           IInv, TypeOK, ScannerTypeOK
<1>7. ReadIsCommitted'
    BY <1>1, <1>6 DEF IInv, ReadIsCommitted
<1>8. AlertJustified'
    BY <1>1 DEF IInv, AlertJustified, EventsOf
<1>9. QED
    BY <1>4, <1>5, <1>7, <1>8 DEF IInv

LEMMA NextStep == IInv /\ [Next]_vars => IInv'
<1> SUFFICES ASSUME IInv, [Next]_vars PROVE IInv'
    OBVIOUS
<1>1. CASE \E r \in Request : Serve(r)
    BY <1>1, ServeStep
<1>2. CASE \E s \in Sweeper : BeginPass(s) \/ PursuePass(s)
    BY <1>2, SweepStep
<1>3. CASE \/ \E w \in Worker : Crash(w)
           \/ \E l \in Loan : Apart(Service(l))
           \/ UNCHANGED vars
    BY <1>3, TablesStayStep
<1>4. QED
    BY <1>1, <1>2, <1>3 DEF Next

(* Requests and passes over one database keep each other's invariants.     *)
THEOREM Invariance == Spec => []IInv
BY InitStep, NextStep, PTL DEF Spec

(* Every variable of the service keeps its type, requests and passes       *)
(* together: neither hands the other a row or a loan it could not hold.    *)
THEOREM TypeCorrect == Spec => []TypeOK
<1>1. IInv => TypeOK
    BY DEF IInv
<1>2. QED
    BY <1>1, Invariance, PTL

(* Every behavioral alert of the service, a request's or a pass's, rests   *)
(* on stored events of its own loan and carries the score of just these.   *)
THEOREM AlertsAreJustified == Spec => []AlertJustified
<1>1. IInv => AlertJustified
    BY DEF IInv
<1>2. QED
    BY <1>1, Invariance, PTL

(* What ingest promises about a request it keeps while passes sweep the    *)
(* same tables: a 201 is durable, a failure leaves nothing, an event has   *)
(* its verdict with it, a verdict misses only what overlapped.             *)
THEOREM RequestsKeepTheirPromises ==
    Spec => []( /\ AckedDurable
                /\ FailureLeavesNothing
                /\ EventAndAlertTogether
                /\ MissNeedsOverlap
                /\ SerialIngestScoresTheLoan )
<1>1. IInv => /\ AckedDurable
              /\ FailureLeavesNothing
              /\ EventAndAlertTogether
              /\ MissNeedsOverlap
              /\ SerialIngestScoresTheLoan
    BY AckedDurableLemma, FailureLeavesNothingLemma, EventAndAlertTogetherLemma,
       MissNeedsOverlapLemma, SerialIngestScoresTheLoanLemma DEF IInv
<1>2. QED
    BY <1>1, Invariance, PTL

(* What run_once promises about a pass it keeps while requests add events  *)
(* and alerts: stored whole or not at all, complete, never over-counted.   *)
THEOREM PassesKeepTheirPromises ==
    Spec => [](PassAllOrNothing /\ StoredPassCovers /\ GaugeNeverAhead)
<1>1. IInv => PassAllOrNothing /\ StoredPassCovers /\ GaugeNeverAhead
    BY PassAllOrNothingLemma, StoredPassCoversLemma DEF IInv, ScannerIInv
<1>2. QED
    BY <1>1, Invariance, PTL

(* Every stored row is a request's or a pass's.                            *)
LEMMA EveryRowHasAnAuthor ==
    ASSUME TypeOK, NEW a \in anomalies
    PROVE  a \in InlineRows \/ a \in SweepRows
BY DEF TypeOK, IngestTypeOK, Anomaly, Author, InlineRows, SweepRows

(* A request raises at most one alert, a pass one of a kind for a loan,    *)
(* and no row is signed by both, so that no author doubles an alert.       *)
THEOREM NoAuthorDoubles == Spec => []OneAlertPerKind
<1>1. IInv => OneAlertPerKind
    <2> SUFFICES ASSUME IInv, NEW a \in anomalies, NEW b \in anomalies, a.by = b.by,
                        a.by[2] < MaxRound, a.loan = b.loan, a.type = b.type
                 PROVE  a = b
        BY DEF OneAlertPerKind
    <2>1. CASE a \in SweepRows
        <3>1. b \in SweepRows
            BY <2>1 DEF SweepRows
        <3>2. QED
            BY <2>1, <3>1 DEF IInv, ScannerIInv, OneSweepAlertPerKind
    <2>2. CASE a \in InlineRows
        <3>1. b \in InlineRows
            BY <2>2 DEF InlineRows
        <3>2. PICK r \in events : a \in InlineAlert(r, view[r] \cup {r})
            BY <2>2, InlineOrigin DEF IInv
        <3>3. PICK q \in events : b \in InlineAlert(q, view[q] \cup {q})
            BY <3>1, InlineOrigin DEF IInv
        <3>4. a.by = <<r, 0>> /\ b.by = <<q, 0>>
            BY <3>2, <3>3 DEF InlineAlert
        <3>5. <<r, 0>> = <<q, 0>>
            BY <3>4
        <3>6. r = q
            BY <3>5
        <3>7. QED
            BY <3>2, <3>3, <3>6 DEF InlineAlert
    <2>3. QED
        BY <2>1, <2>2, EveryRowHasAnAuthor DEF IInv
<1>2. QED
    BY <1>1, Invariance, PTL

(* The alerts of a pass rest on all that was committed when it began: its  *)
(* second SELECT reads no less, since no event ever leaves the table.      *)
THEOREM Freshness == Spec => []VerdictIsFresh
<1>1. IInv => VerdictIsFresh
    <2> SUFFICES ASSUME IInv, NEW s \in Sweeper, mode[s] \in StoredModes \cup {"assessed"},
                        NEW a \in found[s], a.type = "BEHAVIORAL"
                 PROVE  EventsOf(a.loan, known[s]) \subseteq a.seen
        BY DEF VerdictIsFresh
    <2>1. a.seen = EventsOf(a.loan, read[s])
        BY FoundForm DEF IInv
    <2>2. known[s] \subseteq read[s]
        BY DEF IInv, ReadIsCommitted
    <2>3. QED
        BY <2>1, <2>2 DEF EventsOf
<1>2. QED
    BY <1>1, Invariance, PTL

(* A stored pass makes up for the events that overlapping requests missed: *)
(* its book's loans that are anomalous on all that was known when it began *)
(* have an alert on just that.                                             *)
THEOREM SweepMakesUp == Spec => []SweepCatchesInlineMiss
<1>1. IInv => SweepCatchesInlineMiss
    <2> SUFFICES ASSUME IInv, NEW s \in Sweeper, NEW l \in Loan, mode[s] \in StoredModes,
                        NEW e \in book[s], e[1] = l,
                        EventsOf(l, events) = EventsOf(l, known[s]),
                        IsAnomaly(Score(EventsOf(l, events)))
                 PROVE  \E a \in anomalies : a.loan = l /\ a.seen = EventsOf(l, events)
        BY DEF SweepCatchesInlineMiss
    <2>1. known[s] \subseteq read[s] /\ read[s] \subseteq events
        BY DEF IInv, ReadIsCommitted
    <2>2. EventsOf(l, read[s]) = EventsOf(l, events)
        BY <2>1 DEF EventsOf
    <2>3. \E a \in RowsOf(s) : a.loan = l /\ a.seen = EventsOf(l, read[s])
        BY <2>2, StoredPassCoversLemma DEF IInv, StoredPassCovers
    <2>4. QED
        BY <2>2, <2>3 DEF RowsOf
<1>2. QED
    BY <1>1, Invariance, PTL

-----------------------------------------------------------------------------
(* The service implements the ledger. *)

(* The ledger's decisions are the service's. *)
LEMMA LedgerDecides ==
    /\ \A r, seen : Ledger!InlineAlert(r, seen) = InlineAlert(r, seen)
    /\ \A by, l, seen : Ledger!BehavioralAlert(by, l, seen) = BehavioralAlert(by, l, seen)
    /\ \A by, l, d : Ledger!DpdAlert(by, l, d) = DpdAlert(by, l, d)
    /\ \A l, E : Ledger!EventsOf(l, E) = EventsOf(l, E)
    /\ \A r : Ledger!LoanOf(r) = LoanOf(r)
    /\ Ledger!Anomaly = Anomaly
BY DEF Ledger!InlineAlert, InlineAlert, Ledger!BehavioralAlert, BehavioralAlert,
       Ledger!DpdAlert, DpdAlert, Ledger!EventsOf, EventsOf, Ledger!LoanOf, LoanOf,
       Ledger!Anomaly, Anomaly, Ledger!Author, Author, Ledger!IsAnomaly, IsAnomaly,
       Ledger!BehavioralSeverity, BehavioralSeverity, Ledger!DpdSeverity, DpdSeverity

(* A request's commit records its event with the verdict on what it saw;   *)
(* its other steps are invisible in the tables.                            *)
LEMMA ServeImplements ==
    ASSUME IInv, NEW r \in Request, Serve(r)
    PROVE  [Ledger!Next]_(Ledger!ledger)
<1>1. CASE UNCHANGED <<events, anomalies>>
    BY <1>1 DEF Ledger!ledger
<1>2. CASE stage[r] = "scored" /\ events' = events \cup {r} /\ anomalies' = anomalies \cup pending[r]
    <2>1. LoanOf(r) \in Loan /\ view[r] \in SUBSET EventsOf(LoanOf(r), events)
        BY <1>2 DEF IInv, IngestIInv, ViewIsCommitted, InFlight
    <2>2. pending[r] = InlineAlert(r, view[r] \cup {r})
        BY <1>2 DEF IInv, IngestIInv, PendingIsVerdict
    <2>3. Ledger!RecordEvent(r)
        BY <1>2, <2>1, <2>2, LedgerDecides DEF Ledger!RecordEvent
    <2>4. QED
        BY <2>3 DEF Ledger!Next
<1>3. QED
    BY <1>1, <1>2, HandleWrites DEF Serve

(* A pass's commit records justified rows, one of a kind for a loan.       *)
LEMMA PassImplements ==
    ASSUME IInv, NEW s \in Sweeper, BeginPass(s) \/ PursuePass(s)
    PROVE  [Ledger!Next]_(Ledger!ledger)
<1>1. /\ UNCHANGED events
      /\ \/ UNCHANGED anomalies
         \/ mode[s] = "assessed" /\ anomalies' = anomalies \cup found[s]
    BY SweepWrites DEF BeginPass, PursuePass, Apart, Sweep
<1>2. CASE UNCHANGED anomalies
    BY <1>1, <1>2 DEF Ledger!ledger
<1>3. CASE mode[s] = "assessed" /\ anomalies' = anomalies \cup found[s]
    <2>1. ASSUME NEW a \in found[s]
          PROVE  a \in Anomaly /\ a.by = Pass(s) /\ a.by[1] = s /\ Ledger!Justified(a)
        <3>1. a \in Anomaly /\ a.by = Pass(s) /\ a.by[1] = s
            BY <1>3, FoundSigned DEF IInv, ScannerIInv, ScannerTypeOK
        <3>2. EventsOf(a.loan, read[s]) \subseteq EventsOf(a.loan, events)
            BY DEF IInv, ReadIsCommitted, EventsOf
        <3>3. Ledger!Justified(a)
            BY <1>3, <3>2, FoundForm, LedgerDecides DEF IInv, Ledger!Justified
        <3>4. QED
            BY <3>1, <3>3
    <2>2. \A a, b \in found[s] : a.loan = b.loan /\ a.type = b.type => a = b
        BY <1>3, VerdictsFacts DEF IInv, ScannerIInv, ScannerTypeOK,
           FoundIsVerdict
    <2> DEFINE new == anomalies' \ anomalies
    <2>3. new \subseteq found[s]
        BY <1>3
    <2>4. /\ anomalies \subseteq anomalies'
          /\ \A a \in new : a \in Ledger!Anomaly /\ a.by[1] = s /\ Ledger!Justified(a)
          /\ \A a, b \in new : /\ a.by = b.by
                               /\ (a.loan = b.loan /\ a.type = b.type) => a = b
          /\ UNCHANGED events
        <3> HIDE DEF new
        <3>1. Ledger!Anomaly = Anomaly
            BY LedgerDecides
        <3>2. QED
            BY <1>1, <1>3, <2>1, <2>2, <2>3, <3>1
    <2>5. Ledger!RecordPass(s)
        BY <2>4, Zenon DEF Ledger!RecordPass
    <2>6. QED
        BY <2>5 DEF Ledger!Next
<1>4. QED
    BY <1>1, <1>2, <1>3

(* Every behaviour of the service is one of the ledger: events arrive with *)
(* their verdict, passes whole, and nothing is ever taken back.            *)
THEOREM Refinement == Spec => ImplementsLedger
<1>1. Init => Ledger!Init
    BY DEF Init, IngestInit, Ledger!Init
<1>2. IInv /\ [Next]_vars => [Ledger!Next]_(Ledger!ledger)
    <2> SUFFICES ASSUME IInv, [Next]_vars PROVE [Ledger!Next]_(Ledger!ledger)
        OBVIOUS
    <2>1. CASE \E r \in Request : Serve(r)
        BY <2>1, ServeImplements
    <2>2. CASE \E s \in Sweeper : BeginPass(s) \/ PursuePass(s)
        BY <2>2, PassImplements
    <2>3. CASE \/ \E w \in Worker : Crash(w)
               \/ \E l \in Loan : Apart(Service(l))
               \/ UNCHANGED vars
        BY <2>3 DEF Crash, RequestsCrash, Apart, Service, vars, Ledger!ledger
    <2>4. QED
        BY <2>1, <2>2, <2>3 DEF Next
<1>3. QED
    BY <1>1, <1>2, Invariance, PTL DEF Spec, ImplementsLedger, Ledger!Spec

=============================================================================
