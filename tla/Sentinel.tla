------------------------------ MODULE Sentinel ------------------------------
(***************************************************************************)
(* The service: ingest requests (Ingest) and scanner passes (Scanner) of   *)
(* all workers over one database.  They share the tables loan_events and   *)
(* anomalies, and a worker that dies takes the requests and the passes it  *)
(* runs with it.                                                           *)
(***************************************************************************)
EXTENDS Ingest, Scanner

VARIABLE known    \* history: the events committed when s's pass began

Ledger == INSTANCE AlertLedger

vars == <<loans, events, anomalies, requestVars, sweepVars, known>>

Init ==
    /\ IngestInit
    /\ ScannerInit
    /\ known = [s \in Sweeper |-> {}]

-----------------------------------------------------------------------------
Serve(r) ==
    /\ Handle(r)
    /\ UNCHANGED <<loans, sweepVars, known>>

BeginPass(s) ==
    /\ SelectBook(s)
    /\ known' = [known EXCEPT ![s] = events]
    /\ UNCHANGED requestVars

Apart(A) == A /\ UNCHANGED <<requestVars, known>>

PursuePass(s) ==
    \/ Apart(Assess(s))
    \/ Apart(PassFails(s))
    \/ Apart(CommitPass(s))
    \/ Apart(CommitPassTorn(s))
    \/ Apart(Publish(s))

Crash(w) ==
    /\ RequestsCrash(w)
    /\ PassesCrash(w)
    /\ UNCHANGED known

Next ==
    \/ \E r \in Request : Serve(r)
    \/ \E s \in Sweeper : BeginPass(s) \/ PursuePass(s)
    \/ \E l \in Loan : Apart(Service(l))
    \/ \E w \in Worker : Crash(w)

Spec == Init /\ [][Next]_vars

(* Scanner's fairness; no request is ever obliged to be sent or to succeed. *)
Fairness ==
    \A s \in Background :
        /\ WF_vars(BeginPass(s) \/ PursuePass(s))
        /\ SF_vars(Apart(Assess(s)))
        /\ SF_vars(Apart(CommitPass(s)))

FairSpec == Spec /\ Fairness

-----------------------------------------------------------------------------
TypeOK ==
    /\ IngestTypeOK
    /\ ScannerTypeOK
    /\ known \in [Sweeper -> SUBSET Request]

(* The sweep makes up for what inline scoring misses: when a pass has been *)
(* stored, every loan of its book whose events were all committed when the *)
(* pass began, and score below the threshold, has an alert on all of them. *)
SweepCatchesInlineMiss ==
    \A s \in Sweeper, l \in Loan :
        /\ mode[s] \in StoredModes
        /\ \E e \in book[s] : e[1] = l
        /\ EventsOf(l, events) = EventsOf(l, known[s])
        /\ IsAnomaly(Score(EventsOf(l, events)))
        => \E a \in anomalies : a.loan = l /\ a.seen = EventsOf(l, events)

(* An alert of a sweep rests on no less than what had been acknowledged to *)
(* the connector before its pass began: nothing a client was told is in    *)
(* the book is left out of the verdict.                                    *)
VerdictIsFresh ==
    \A s \in Sweeper :
        mode[s] \in StoredModes \cup {"assessed"} =>
            \A a \in found[s] :
                a.type = "BEHAVIORAL" => EventsOf(a.loan, known[s]) \subseteq a.seen

(* Sentinel implements the ledger. *)
ImplementsLedger == Ledger!Spec

(* Why the above hold.  IInv is inductive (SentinelProofs): the invariants *)
(* of the parts survive each other's company, what a pass found committed  *)
(* when it began and when it read is still there, and it read no less than *)
(* had been there when it began.                                           *)
ReadIsCommitted ==
    \A s \in Sweeper :
        /\ known[s] \subseteq events
        /\ read[s] \subseteq events
        /\ mode[s] \in StoredModes \cup {"assessed"} => known[s] \subseteq read[s]

IInv ==
    /\ TypeOK
    /\ IngestIInv
    /\ ScannerIInv
    /\ ReadIsCommitted
    /\ AlertJustified

=============================================================================
