----------------------------- MODULE AnomalyFeed ----------------------------
(***************************************************************************)
(* The alert feed, GET /v1/anomalies (api/routes/anomalies.py): one SELECT *)
(* with ORDER BY detected_at DESC, LIMIT and OFFSET for each page, and a   *)
(* client that walks the pages while passes and ingests insert rows and    *)
(* operators resolve them.                                                 *)
(*                                                                         *)
(* Writers are the transactions of Scanner and Ingest, reduced to what the *)
(* feed can tell apart: detected_at is read from the clock when a pass     *)
(* begins and is the same in all rows it commits, so commits may come out  *)
(* of the order of detected_at.  A page is a set: the order within it is   *)
(* that of the query, and rows of one detected_at come in any order.       *)
(***************************************************************************)
EXTENDS Integers, Sequences, FiniteSets

CONSTANTS
    Writer,        \* transactions that insert anomalies
    Batch(_),      \* Batch(w): the severities of the rows w commits, a sequence
    Query,         \* what a client may ask for
    Late           \* bound of the clock

Severity == {"INFO", "WARNING", "CRITICAL"}

ASSUME FeedAssumption ==
    /\ \A w \in Writer : Batch(w) \in Seq(Severity)
    /\ Query \subseteq [severity : SUBSET Severity, limit : 1 .. 200,
                        include_resolved : BOOLEAN]
    /\ Late \in Nat

VARIABLES
    clock,
    now,           \* now[w]: clock read at the start of w, -1 before
    anomalies,     \* rows: [by, n, detected_at, severity]
    resolved,      \* the rows whose resolved_at is not NULL
    query,         \* what the client asks for
    offset,        \* OFFSET of the next page, -1 once the walk has ended
    page,          \* the last page sent
    seen,          \* the rows sent so far
    \* history
    since,         \* the rows that matched when the walk began
    repeated,      \* some row was sent twice, or after an older one
    inserted,      \* some row was inserted during the walk
    settled        \* some row was resolved during the walk

feedVars == <<query, offset, page, seen, repeated>>
vars == <<clock, now, anomalies, resolved, since, inserted, settled, feedVars>>

Row == [by : Writer, n : Nat, detected_at : 0 .. Late, severity : Severity]

Init ==
    /\ clock = 0
    /\ now = [w \in Writer |-> -1]
    /\ anomalies = {}
    /\ resolved = {}
    /\ query \in Query
    /\ offset = 0
    /\ page = {}
    /\ seen = {}
    /\ since = {}
    /\ repeated = FALSE
    /\ inserted = FALSE
    /\ settled = FALSE

-----------------------------------------------------------------------------
(* The table under the feed. *)

Tick ==
    /\ clock < Late
    /\ clock' = clock + 1
    /\ UNCHANGED <<now, anomalies, resolved, since, inserted, settled, feedVars>>

(* now = datetime.now(UTC) *)
BeginWrite(w) ==
    /\ now[w] = -1
    /\ now' = [now EXCEPT ![w] = clock]
    /\ UNCHANGED <<clock, anomalies, resolved, since, inserted, settled, feedVars>>

CommitWrite(w) ==
    /\ now[w] # -1
    /\ \A a \in anomalies : a.by # w
    /\ anomalies' = anomalies \cup {[by |-> w, n |-> i, detected_at |-> now[w],
                                     severity |-> Batch(w)[i]] : i \in DOMAIN Batch(w)}
    /\ inserted' = (inserted \/ offset > 0)
    /\ UNCHANGED <<clock, now, resolved, since, settled, feedVars>>

(* UPDATE anomalies SET resolved_at = ...: nothing in this code does it. *)
Resolve(a) ==
    /\ a \in anomalies \ resolved
    /\ resolved' = resolved \cup {a}
    /\ settled' = (settled \/ offset > 0)
    /\ UNCHANGED <<clock, now, anomalies, since, inserted, feedVars>>

-----------------------------------------------------------------------------
(* list_anomalies *)

Matching ==
    {a \in anomalies : /\ a.severity \in query.severity
                       /\ query.include_resolved \/ a \notin resolved}

(* mutant: no ORDER BY *)
AheadUnordered(k) == {A \in SUBSET Matching : Cardinality(A) = k}

(* What the first k rows of the answer may be, newest first. *)
Ahead(k) ==
    {A \in SUBSET Matching :
        /\ Cardinality(A) = k
        /\ \A a \in A, b \in Matching \ A : b.detected_at <= a.detected_at}

(* No more rows than there are. *)
UpTo(k) == IF k < Cardinality(Matching) THEN k ELSE Cardinality(Matching)

(* LIMIT and OFFSET: the rows after the first offset ones. *)
Pages ==
    {AB[2] \ AB[1] : AB \in {X \in Ahead(UpTo(offset)) \X Ahead(UpTo(offset + query.limit)) :
                              X[1] \subseteq X[2]}}

(* One request of the walk.  The client asks for the next page until one   *)
(* comes short.                                                            *)
List ==
    /\ offset >= 0
    /\ page' \in Pages
    /\ offset' = IF Cardinality(page') < query.limit THEN -1 ELSE offset + query.limit
    /\ seen' = seen \cup page'
    /\ repeated' = \/ repeated
                   \/ \E a \in seen, b \in page' : a = b \/ b.detected_at > a.detected_at
    /\ since' = IF offset = 0 THEN Matching ELSE since
    /\ UNCHANGED <<clock, now, anomalies, resolved, query, inserted, settled>>

Next ==
    \/ Tick
    \/ \E w \in Writer : BeginWrite(w) \/ CommitWrite(w)
    \/ \E a \in anomalies : Resolve(a)
    \/ List

Spec == Init /\ [][Next]_vars

-----------------------------------------------------------------------------
TypeOK ==
    /\ clock \in 0 .. Late
    /\ now \in [Writer -> -1 .. Late]
    /\ anomalies \subseteq Row
    /\ resolved \subseteq anomalies
    /\ query \in Query
    /\ offset \in Nat \cup {-1}
    /\ page \subseteq seen /\ seen \subseteq anomalies
    /\ Cardinality(page) <= query.limit
    /\ since \subseteq anomalies
    /\ {repeated, inserted, settled} \subseteq BOOLEAN

(* A tie: another row of the same detected_at, as every two rows of a pass *)
(* have.                                                                   *)
Tied(a) == \E b \in anomalies : b # a /\ b.detected_at = a.detected_at

(* A row that matched all through a walk and was not sent is explained by  *)
(* a tie, or by a row that left the filter during the walk.  Inserts alone *)
(* never lose one, not even those committed out of the order of            *)
(* detected_at (anomalies.py:24).                                          *)
MissHasCause ==
    offset = -1 =>
        \A a \in (since \cap Matching) \ seen :
            Tied(a) \/ (settled /\ ~query.include_resolved)

(* Newest first holds over the pages of a walk, and no alert comes twice,  *)
(* unless a row was inserted during it or two rows of the table tie.       *)
RepeatHasCause ==
    repeated => inserted \/ \E a \in anomalies : Tied(a)

(* Why the two hold: how many matching rows are newer than a row tells on  *)
(* which side of OFFSET it is.  A row still to be sent lies below it, one  *)
(* that was sent above, and so does whatever is newer than that.  IInv is  *)
(* inductive (FeedProofs).                                                 *)
Newer(a) == {b \in Matching : b.detected_at > a.detected_at}

UnsentIsBelow ==
    \A a \in (since \cap Matching) \ seen :
        \/ Tied(a)
        \/ settled /\ ~query.include_resolved
        \/ offset >= 0 /\ Cardinality(Newer(a)) >= offset

SentIsAbove ==
    ~inserted /\ (\A a \in anomalies : ~Tied(a)) =>
        /\ ~repeated
        /\ offset >= 0 =>
             \A a \in seen, b \in Matching :
                b.detected_at >= a.detected_at => Cardinality(Newer(b)) < offset

IInv ==
    /\ TypeOK
    /\ IsFiniteSet(anomalies)
    /\ offset = 0 => seen = {}
    /\ UnsentIsBelow
    /\ SentIsAbove

=============================================================================
