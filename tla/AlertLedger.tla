----------------------------- MODULE AlertLedger ----------------------------
(***************************************************************************)
(* What the service promises to whoever reads its two tables: a ledger of  *)
(* events and a ledger of alerts that only grow, where an event arrives    *)
(* together with the verdict on it, a pass of the scanner arrives whole,   *)
(* and every alert can be justified from rows that were there before it.   *)
(* How requests, passes, failures and crashes bring this about is left to  *)
(* Sentinel, which implements this specification.                          *)
(***************************************************************************)
EXTENDS LoanBook

ledger == <<events, anomalies>>

Init == events = {} /\ anomalies = {}

(* An event, and the alert that it and some earlier events call for. *)
RecordEvent(r) ==
    /\ LoanOf(r) \in Loan
    /\ events' = events \cup {r}
    /\ \E before \in SUBSET EventsOf(LoanOf(r), events) :
         anomalies' = anomalies \cup InlineAlert(r, before \cup {r})

Justified(a) ==
    \/ /\ a.type = "BEHAVIORAL"
       /\ a.seen \subseteq EventsOf(a.loan, events)
       /\ a \in BehavioralAlert(a.by, a.loan, a.seen)
    \/ /\ a.type = "DPD_BREACH"
       /\ a \in DpdAlert(a.by, a.loan, a.score)

(* The alerts of one pass: all justified, with one author, and one of a    *)
(* kind for a loan.                                                        *)
RecordPass(s) ==
    LET new == anomalies' \ anomalies
    IN  /\ anomalies \subseteq anomalies'
        /\ \A a \in new : a \in Anomaly /\ a.by[1] = s /\ Justified(a)
        /\ \A a, b \in new :
             /\ a.by = b.by
             /\ (a.loan = b.loan /\ a.type = b.type) => a = b
        /\ UNCHANGED events

Next ==
    \/ \E r \in Request : RecordEvent(r)
    \/ \E s \in Sweeper : RecordPass(s)

Spec == Init /\ [][Next]_ledger

=============================================================================
