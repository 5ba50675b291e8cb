----------------------------- MODULE FeedProofs -----------------------------
(***************************************************************************)
(* Proofs about what a lender looks at: the alert feed (AnomalyFeed), for  *)
(* any writers, batches, queries and clock, and the page (Dashboard), for  *)
(* any number of starts, any length of a start and any size of the log.    *)
(***************************************************************************)
EXTENDS AnomalyFeed, Dashboard, FiniteSetTheorems, SequenceTheorems, TLAPS

-----------------------------------------------------------------------------
(* The alert feed: what a walk over LIMIT and OFFSET pages can miss and    *)
(* repeat.                                                                 *)

(* A client asks for at least one row at a time. *)
LEMMA LimitType ==
  ASSUME query \in Query
  PROVE  query.limit \in Nat /\ query.limit >= 1
<1>1. query \in [severity : SUBSET Severity, limit : 1 .. 200,
                 include_resolved : BOOLEAN]
  BY FeedAssumption
<1>2. query.limit \in 1 .. 200
  BY <1>1
<1> QED
  BY <1>2

(* Parts of a finite table are finite, and their sizes are numbers. *)
LEMMA MatchingFinite ==
  ASSUME IsFiniteSet(anomalies), NEW A \in SUBSET Matching
  PROVE  /\ IsFiniteSet(A) /\ Cardinality(A) \in Nat
         /\ IsFiniteSet(Matching) /\ Cardinality(Matching) \in Nat
         /\ Cardinality(A) <= Cardinality(Matching)
         /\ Cardinality(A) = Cardinality(Matching) => A = Matching
<1>1. IsFiniteSet(Matching)
  BY FS_Subset DEF Matching
<1>2. IsFiniteSet(A) /\ Cardinality(A) <= Cardinality(Matching)
      /\ (Cardinality(A) = Cardinality(Matching) => A = Matching)
  BY <1>1, FS_Subset
<1>3. Cardinality(A) \in Nat /\ Cardinality(Matching) \in Nat
  BY <1>1, <1>2, FS_CardinalityType
<1> QED
  BY <1>1, <1>2, <1>3

LEMMA NewerSize ==
  ASSUME IsFiniteSet(anomalies), NEW a \in Matching, anomalies \subseteq Row
  PROVE  /\ IsFiniteSet(Newer(a))
         /\ Cardinality(Newer(a)) \in Nat
         /\ Cardinality(Newer(a)) < Cardinality(Matching)
<1>1. Newer(a) \in SUBSET Matching
  BY DEF Newer
<1>2. a \notin Newer(a)
  BY FeedAssumption DEF Newer, Matching, Row
<1> QED
  BY <1>1, <1>2, MatchingFinite

(* What is newer than a newer row is fewer. *)
LEMMA NewerIsFewer ==
  ASSUME IsFiniteSet(anomalies), anomalies \subseteq Row,
         NEW a \in Matching, NEW b \in Matching, b.detected_at >= a.detected_at
  PROVE  Cardinality(Newer(b)) <= Cardinality(Newer(a))
<1>1. Newer(b) \in SUBSET Newer(a)
  BY FeedAssumption DEF Newer, Matching, Row
<1> QED
  BY <1>1, NewerSize, FS_Subset

(* ORDER BY detected_at DESC: of the first k rows each has fewer than k    *)
(* newer ones,                                                             *)
LEMMA AheadHasFewNewer ==
  ASSUME IsFiniteSet(anomalies), anomalies \subseteq Row,
         NEW k \in Nat, NEW A \in Ahead(k), NEW a \in A
  PROVE  Cardinality(Newer(a)) < k
<1>1. A \in SUBSET Matching /\ Cardinality(A) = k
  BY DEF Ahead
<1>2. Newer(a) \in SUBSET (A \ {a})
  BY <1>1, FeedAssumption DEF Newer, Ahead, Matching, Row
<1>3. IsFiniteSet(A)
  BY <1>1, MatchingFinite
<1>4. IsFiniteSet(A \ {a}) /\ Cardinality(A \ {a}) = k - 1
  BY <1>1, <1>3, FS_RemoveElement
<1>5. Cardinality(Newer(a)) <= k - 1
  BY <1>2, <1>4, FS_Subset
<1>6. Cardinality(Newer(a)) \in Nat
  BY <1>1, NewerSize
<1> QED
  BY <1>5, <1>6

(* and a row that is not among them has at least k, unless it ties.        *)
LEMMA BehindHasManyNewer ==
  ASSUME IsFiniteSet(anomalies), anomalies \subseteq Row,
         NEW k \in Nat, NEW A \in Ahead(k), NEW a \in Matching \ A, ~Tied(a)
  PROVE  k <= Cardinality(Newer(a))
<1>1. A \in SUBSET Matching /\ Cardinality(A) = k
  BY DEF Ahead
<1>2. A \in SUBSET Newer(a)
  <2> SUFFICES ASSUME NEW b \in A PROVE b.detected_at > a.detected_at
    BY <1>1 DEF Newer
  <2>1. a.detected_at <= b.detected_at
    BY DEF Ahead
  <2>2. a.detected_at # b.detected_at
    BY <1>1 DEF Tied, Matching
  <2>3. a.detected_at \in Int /\ b.detected_at \in Int
    BY <1>1, FeedAssumption DEF Matching, Row
  <2> QED
    BY <2>1, <2>2, <2>3
<1> QED
  BY <1>1, <1>2, NewerSize, FS_Subset

(* No more rows than there are. *)
LEMMA UpToBounds ==
  ASSUME IsFiniteSet(anomalies), NEW k \in Nat
  PROVE  /\ UpTo(k) \in Nat /\ UpTo(k) <= k
         /\ UpTo(k) <= Cardinality(Matching)
         /\ UpTo(k) < Cardinality(Matching) => UpTo(k) = k
<1>1. Cardinality(Matching) \in Nat
  BY MatchingFinite
<1> QED
  BY <1>1 DEF UpTo

(* A page lies between two answers of the query, cut off where it begins   *)
(* and where it ends.                                                      *)
LEMMA PageCut ==
  ASSUME NEW B \in Pages
  PROVE  \E P \in Ahead(UpTo(offset)), Q \in Ahead(UpTo(offset + query.limit)) :
            P \subseteq Q /\ B = Q \ P
<1>1. PICK X \in Ahead(UpTo(offset)) \X Ahead(UpTo(offset + query.limit)) :
         X[1] \subseteq X[2] /\ B = X[2] \ X[1]
  BY DEF Pages
<1> QED
  BY <1>1

(* A page has no more rows than were asked for, and fewer only if it holds *)
(* the last one.                                                           *)
LEMMA PageSize ==
  ASSUME TypeOK, IsFiniteSet(anomalies), offset >= 0,
         NEW P \in Ahead(UpTo(offset)), NEW Q \in Ahead(UpTo(offset + query.limit)),
         P \subseteq Q
  PROVE  /\ Cardinality(Q \ P) \in Nat
         /\ Cardinality(Q \ P) <= query.limit
         /\ Cardinality(Q \ P) < query.limit => Q = Matching
<1>1. offset \in Nat /\ query.limit \in Nat /\ offset + query.limit \in Nat
  <2>1. query.limit \in Nat
    BY LimitType DEF TypeOK
  <2>2. offset \in Nat
    BY DEF TypeOK
  <2> QED
    BY <2>1, <2>2
<1>2. /\ P \in SUBSET Matching /\ Cardinality(P) = UpTo(offset)
      /\ Q \in SUBSET Matching /\ Cardinality(Q) = UpTo(offset + query.limit)
  BY DEF Ahead
<1>3. IsFiniteSet(P) /\ IsFiniteSet(Q)
  BY <1>2, MatchingFinite
<1>4. Cardinality(Q \ P) = Cardinality(Q) - Cardinality(P)
  <2>1. Q \cap P = P
    OBVIOUS
  <2> QED
    BY <1>3, <2>1, FS_Difference
<1>5. Cardinality(Q \ P) \in Nat
  BY <1>3, FS_Difference, FS_CardinalityType
<1>6. Cardinality(Q \ P) <= query.limit
  <2>1. CASE UpTo(offset) < Cardinality(Matching)
    BY <1>1, <1>2, <1>4, <2>1, UpToBounds
  <2>2. CASE ~(UpTo(offset) < Cardinality(Matching))
    <3>1. UpTo(offset) = Cardinality(Matching) /\ Cardinality(Matching) \in Nat
      BY <1>1, <2>2, UpToBounds, MatchingFinite
    <3>2. UpTo(offset + query.limit) <= Cardinality(Matching)
      BY <1>1, UpToBounds
    <3> QED
      BY <1>1, <1>2, <1>4, <3>1, <3>2, UpToBounds
  <2> QED
    BY <2>1, <2>2
<1>7. ASSUME Cardinality(Q \ P) < query.limit PROVE Q = Matching
  <2>1. UpTo(offset) <= offset
    BY <1>1, UpToBounds
  <2>2. UpTo(offset + query.limit) # offset + query.limit
    BY <1>1, <1>2, <1>4, <1>7, <2>1, UpToBounds
  <2>3. UpTo(offset + query.limit) = Cardinality(Matching)
    BY <1>1, <2>2, UpToBounds, MatchingFinite
  <2> QED
    BY <1>2, <2>3, MatchingFinite
<1> QED
  BY <1>5, <1>6, <1>7

-----------------------------------------------------------------------------
LEMMA InitStep == Init => IInv
<1> SUFFICES ASSUME Init PROVE IInv
  OBVIOUS
<1>1. TypeOK
  <2>1. query \in Query /\ query.limit \in Nat
    BY LimitType DEF Init
  <2>2. Cardinality(page) <= query.limit
    BY <2>1, FS_EmptySet, LimitType DEF Init
  <2>3. clock \in 0 .. Late /\ now \in [Writer -> -1 .. Late]
    BY FeedAssumption DEF Init
  <2> QED
    BY <2>1, <2>2, <2>3 DEF Init, TypeOK
<1>2. IsFiniteSet(anomalies)
  BY FS_EmptySet DEF Init
<1>3. UnsentIsBelow /\ SentIsAbove
  BY DEF Init, UnsentIsBelow, SentIsAbove
<1> QED
  BY <1>1, <1>2, <1>3 DEF Init, IInv

(* The clock, and a pass or a request that begins, are nothing to a walk. *)
LEMMA IdleStep ==
  ASSUME IInv, Tick \/ (\E w \in Writer : BeginWrite(w)) \/ UNCHANGED vars
  PROVE  IInv'
<1> USE DEF IInv, feedVars
<1>1. UNCHANGED <<anomalies, resolved, since, inserted, settled, feedVars>>
  BY DEF Tick, BeginWrite, vars
<1>2. TypeOK'
  BY FeedAssumption DEF TypeOK, Tick, BeginWrite, vars
<1>3. UnsentIsBelow' /\ SentIsAbove'
  BY <1>1 DEF UnsentIsBelow, SentIsAbove, Newer, Matching, Tied
<1> QED
  BY <1>1, <1>2, <1>3

(* The rows a transaction commits: new ones, finitely many. *)
LEMMA CommitWriteFacts ==
  ASSUME IInv, NEW w \in Writer, CommitWrite(w)
  PROVE  /\ anomalies \subseteq anomalies'
         /\ anomalies' \subseteq Row
         /\ IsFiniteSet(anomalies')
<1> DEFINE row(i) == [by |-> w, n |-> i, detected_at |-> now[w], severity |-> Batch(w)[i]]
           f == [i \in DOMAIN Batch(w) |-> row(i)]
           new == {row(i) : i \in DOMAIN Batch(w)}
<1>1. anomalies' = anomalies \cup new
  BY DEF CommitWrite
<1>2. Batch(w) \in Seq(Severity) /\ now[w] \in 0 .. Late
  BY FeedAssumption DEF CommitWrite, IInv, TypeOK
<1>3. new \subseteq Row
  BY <1>2 DEF Row
<1>4. IsFiniteSet(new)
  <2>1. DOMAIN Batch(w) = 1 .. Len(Batch(w)) /\ Len(Batch(w)) \in Nat
    BY <1>2
  <2>2. IsFiniteSet(DOMAIN Batch(w))
    BY <2>1, FS_Interval
  <2>3. f \in Surjection(DOMAIN Batch(w), new)
    BY DEF Surjection
  <2> QED
    BY <2>2, <2>3, FS_Surjection
<1>5. IsFiniteSet(anomalies')
  BY <1>1, <1>4, FS_Union DEF IInv
<1> QED
  BY <1>1, <1>3, <1>5 DEF IInv, TypeOK

(* Inserts push rows down, never up: what is still to be sent stays below  *)
(* OFFSET, whatever detected_at the new rows have.                         *)
LEMMA CommitWriteStep ==
  ASSUME IInv, NEW w \in Writer, CommitWrite(w)
  PROVE  IInv'
<1> USE DEF IInv
<1>1. /\ anomalies \subseteq anomalies' /\ anomalies' \subseteq Row
      /\ IsFiniteSet(anomalies')
      /\ UNCHANGED <<resolved, since, settled, query, offset, page, seen, repeated>>
      /\ inserted' = (inserted \/ offset > 0)
  BY CommitWriteFacts DEF CommitWrite, feedVars
<1>2. TypeOK'
  BY <1>1 DEF TypeOK, CommitWrite, feedVars
<1>3. \A a \in anomalies : Tied(a) => Tied(a)'
  BY <1>1 DEF Tied
<1>4. UnsentIsBelow'
  <2> SUFFICES ASSUME NEW a \in (since \cap Matching') \ seen,
                      ~Tied(a)', ~(settled /\ ~query.include_resolved)
               PROVE  offset >= 0 /\ Cardinality(Newer(a)') >= offset
    BY <1>1 DEF UnsentIsBelow
  <2>1. a \in Matching
    BY <1>1 DEF Matching, TypeOK
  <2>2. offset >= 0 /\ Cardinality(Newer(a)) >= offset
    BY <1>3, <2>1 DEF UnsentIsBelow, Matching
  <2>3. Newer(a) \in SUBSET Newer(a)' /\ Newer(a)' \in SUBSET anomalies'
    BY <1>1 DEF Newer, Matching
  <2>4. IsFiniteSet(Newer(a)')
    BY <1>1, <2>3, FS_Subset
  <2>5. /\ Cardinality(Newer(a)) <= Cardinality(Newer(a)')
        /\ Cardinality(Newer(a)) \in Nat /\ Cardinality(Newer(a)') \in Nat
    BY <2>3, <2>4, FS_Subset, FS_CardinalityType
  <2> QED
    BY <2>2, <2>5 DEF TypeOK
<1>5. SentIsAbove'
  <2> SUFFICES ASSUME ~inserted', \A a \in anomalies' : ~Tied(a)'
               PROVE  ~repeated /\ (offset >= 0 => seen = {})
    BY <1>1 DEF SentIsAbove
  <2>1. ~inserted /\ ~(offset > 0)
    BY <1>1
  <2>2. ~repeated
    BY <1>1, <1>3, <2>1 DEF SentIsAbove
  <2> QED
    BY <2>1, <2>2 DEF TypeOK
<1> QED
  BY <1>1, <1>2, <1>4, <1>5

(* A row that leaves the filter pulls the rows behind it up, which is why  *)
(* one of them may be missed; what was sent stays above OFFSET.            *)
LEMMA ResolveStep ==
  ASSUME IInv, NEW r \in anomalies, Resolve(r)
  PROVE  IInv'
<1> USE DEF IInv
<1>1. /\ resolved' = resolved \cup {r} /\ settled' = (settled \/ offset > 0)
      /\ UNCHANGED <<anomalies, since, inserted, query, offset, page, seen, repeated>>
  BY DEF Resolve, feedVars
<1>2. TypeOK'
  BY <1>1 DEF TypeOK, Resolve
<1>3. /\ Matching' \subseteq Matching
      /\ query.include_resolved => Matching' = Matching
      /\ \A a : Tied(a)' <=> Tied(a)
  BY <1>1 DEF Matching, Tied
<1>4. \A a : Newer(a)' \in SUBSET Newer(a)
  BY <1>3 DEF Newer
<1>5. \A a \in Matching : /\ Cardinality(Newer(a)') \in Nat
                          /\ Cardinality(Newer(a)') <= Cardinality(Newer(a))
                          /\ Cardinality(Newer(a)) \in Nat
  BY <1>4, NewerSize, FS_Subset, FS_CardinalityType DEF TypeOK
<1>6. UnsentIsBelow'
  <2> SUFFICES ASSUME NEW a \in (since \cap Matching') \ seen,
                      ~Tied(a), ~(settled' /\ ~query.include_resolved)
               PROVE  offset >= 0 /\ Cardinality(Newer(a)') >= offset
    BY <1>1, <1>3 DEF UnsentIsBelow
  <2>1. offset >= 0 /\ Cardinality(Newer(a)) >= offset
    BY <1>1, <1>3 DEF UnsentIsBelow
  <2>2. CASE offset = 0
    BY <1>3, <1>5, <2>2
  <2>3. CASE offset # 0
    <3>1. offset > 0
      BY <2>1, <2>3 DEF TypeOK
    <3>2. settled'
      BY <1>1, <3>1, Zenon
    <3>3. query.include_resolved
      BY <3>2, Zenon
    <3>4. Newer(a)' = Newer(a)
      BY <1>3, <3>3 DEF Newer
    <3> QED
      BY <2>1, <3>4
  <2> QED
    BY <2>2, <2>3
<1>7. SentIsAbove'
  <2> SUFFICES ASSUME ~inserted, \A a \in anomalies : ~Tied(a)
               PROVE  /\ ~repeated
                      /\ offset >= 0 =>
                           \A a \in seen, b \in Matching' :
                              b.detected_at >= a.detected_at =>
                                 Cardinality(Newer(b)') < offset
    BY <1>1, <1>3 DEF SentIsAbove
  <2>1. /\ ~repeated
        /\ offset >= 0 =>
             \A a \in seen, b \in Matching :
                b.detected_at >= a.detected_at => Cardinality(Newer(b)) < offset
    BY DEF SentIsAbove
  <2>2. ASSUME offset >= 0, NEW a \in seen, NEW b \in Matching',
               b.detected_at >= a.detected_at
        PROVE  Cardinality(Newer(b)') < offset
    <3>1. b \in Matching /\ Cardinality(Newer(b)) < offset
      BY <1>3, <2>1, <2>2
    <3> QED
      BY <1>5, <3>1 DEF TypeOK
  <2> QED
    BY <2>1, <2>2
<1> QED
  BY <1>1, <1>2, <1>6, <1>7

(* A page sends just the rows between two answers of the query, so that a  *)
(* row that is passed over has as many newer ones as the next OFFSET says, *)
(* and a row that is sent has fewer.                                       *)
LEMMA ListStep ==
  ASSUME IInv, List
  PROVE  IInv'
<1> USE DEF IInv
<1> DEFINE after == offset + query.limit
<1>1. /\ offset \in Nat /\ query.limit \in Nat /\ query.limit >= 1
      /\ after \in Nat /\ anomalies \subseteq Row
  <2>1. offset \in Nat
    BY DEF List, TypeOK
  <2>2. query.limit \in Nat /\ query.limit >= 1
    BY LimitType DEF TypeOK
  <2> QED
    BY <2>1, <2>2 DEF TypeOK
<1>2. /\ page' \in Pages
      /\ offset' = IF Cardinality(page') < query.limit THEN -1 ELSE after
      /\ seen' = seen \cup page'
      /\ since' = IF offset = 0 THEN Matching ELSE since
      /\ UNCHANGED <<clock, now, anomalies, resolved, query, inserted, settled>>
  BY DEF List
<1>3. PICK P \in Ahead(UpTo(offset)), Q \in Ahead(UpTo(after)) :
         P \subseteq Q /\ page' = Q \ P
  BY <1>2, PageCut
<1>4. P \subseteq Matching /\ Q \subseteq Matching
  BY DEF Ahead
<1>5. /\ Cardinality(page') \in Nat /\ Cardinality(page') <= query.limit
      /\ Cardinality(page') < query.limit => Q = Matching
  BY <1>1, <1>3, PageSize
<1>6. UNCHANGED Matching /\ (\A a : Newer(a)' = Newer(a)) /\ (\A a : Tied(a)' <=> Tied(a))
  BY <1>2 DEF Matching, Newer, Tied
<1>7. TypeOK'
  <2>1. page' \subseteq anomalies /\ since' \subseteq anomalies
    BY <1>2, <1>3, <1>4 DEF Matching, TypeOK
  <2>2. repeated' \in BOOLEAN
    BY DEF List, TypeOK
  <2>3. offset' \in Nat \cup {-1}
    BY <1>1, <1>2
  <2> QED
    BY <1>2, <1>5, <2>1, <2>2, <2>3 DEF TypeOK
<1>8. offset' # 0
  BY <1>1, <1>2
<1>9. UnsentIsBelow'
  <2> SUFFICES ASSUME NEW a \in (since' \cap Matching) \ seen',
                      ~Tied(a), ~(settled /\ ~query.include_resolved)
               PROVE  offset' >= 0 /\ Cardinality(Newer(a)) >= offset'
    BY <1>2, <1>6 DEF UnsentIsBelow
  <2>1. Cardinality(Newer(a)) \in Nat /\ Cardinality(Newer(a)) < Cardinality(Matching)
    BY <1>1, NewerSize
  <2>2. Cardinality(Newer(a)) >= offset
    BY <1>1, <1>2, <2>1 DEF UnsentIsBelow
  <2>3. a \notin P
    <3>1. UpTo(offset) \in Nat /\ UpTo(offset) <= offset
      BY <1>1, UpToBounds
    <3> QED
      BY <1>1, <2>1, <2>2, <3>1, AheadHasFewNewer
  <2>4. a \notin Q
    BY <1>2, <1>3, <2>3
  <2>5. UpTo(after) <= Cardinality(Newer(a)) /\ UpTo(after) \in Nat
    BY <1>1, <2>4, UpToBounds, BehindHasManyNewer
  <2>6. UpTo(after) = after
    BY <1>1, <2>1, <2>5, UpToBounds, MatchingFinite
  <2>7. ~(Cardinality(page') < query.limit)
    BY <1>5, <2>4
  <2> QED
    BY <1>1, <1>2, <2>5, <2>6, <2>7
<1>10. SentIsAbove'
  <2> SUFFICES ASSUME ~inserted, \A a \in anomalies : ~Tied(a)
               PROVE  /\ ~repeated'
                      /\ offset' >= 0 =>
                           \A a \in seen', b \in Matching :
                              b.detected_at >= a.detected_at =>
                                 Cardinality(Newer(b)) < offset'
    BY <1>2, <1>6 DEF SentIsAbove
  <2>1. /\ ~repeated
        /\ \A a \in seen, b \in Matching :
              b.detected_at >= a.detected_at => Cardinality(Newer(b)) < offset
    BY <1>1 DEF SentIsAbove
  <2>2. ASSUME NEW a \in seen, NEW b \in page'
        PROVE  a # b /\ ~(b.detected_at > a.detected_at)
    <3>1. b \in Matching /\ b \notin P /\ ~Tied(b)
      BY <1>3, <1>4 DEF Matching
    <3>2. Cardinality(Newer(b)) \in Nat /\ Cardinality(Newer(b)) < Cardinality(Matching)
      BY <1>1, <3>1, NewerSize
    <3>3. UpTo(offset) <= Cardinality(Newer(b)) /\ UpTo(offset) \in Nat
      BY <1>1, <3>1, UpToBounds, BehindHasManyNewer
    <3>4. UpTo(offset) = offset
      BY <1>1, <3>2, <3>3, UpToBounds, MatchingFinite
    <3>5. ~(b.detected_at >= a.detected_at)
      BY <1>1, <2>1, <3>1, <3>2, <3>3, <3>4
    <3>6. a.detected_at \in Int /\ b.detected_at \in Int
      BY <1>1, <3>1, FeedAssumption DEF Matching, TypeOK, Row
    <3> QED
      BY <3>5, <3>6
  <2>3. ~repeated'
    BY <2>1, <2>2, Zenon DEF List
  <2>4. ASSUME offset' >= 0, NEW a \in seen', NEW b \in Matching,
               b.detected_at >= a.detected_at
        PROVE  Cardinality(Newer(b)) < offset'
    <3>1. offset' = after
      BY <1>1, <1>2, <2>4
    <3>2. Cardinality(Newer(b)) \in Nat
      BY <1>1, NewerSize
    <3>3. CASE a \in seen
      BY <1>1, <2>1, <2>4, <3>1, <3>2, <3>3
    <3>4. CASE a \in page'
      <4>1. a \in Q /\ a \in Matching
        BY <1>3, <1>4, <3>4
      <4>2. UpTo(after) \in Nat /\ UpTo(after) <= after
        BY <1>1, UpToBounds
      <4>3. Cardinality(Newer(a)) < UpTo(after)
        BY <1>1, <4>1, <4>2, AheadHasFewNewer
      <4>4. Cardinality(Newer(b)) <= Cardinality(Newer(a)) /\ Cardinality(Newer(a)) \in Nat
        BY <1>1, <2>4, <4>1, NewerIsFewer, NewerSize
      <4> QED
        BY <1>1, <3>1, <3>2, <4>2, <4>3, <4>4
    <3> QED
      BY <1>2, <2>4, <3>3, <3>4
  <2> QED
    BY <2>3, <2>4
<1> QED
  BY <1>2, <1>7, <1>8, <1>9, <1>10

LEMMA NextStep == IInv /\ [Next]_vars => IInv'
<1> SUFFICES ASSUME IInv, [Next]_vars PROVE IInv'
  OBVIOUS
<1>1. CASE Tick \/ (\E w \in Writer : BeginWrite(w)) \/ UNCHANGED vars
  BY <1>1, IdleStep
<1>2. CASE \E w \in Writer : CommitWrite(w)
  BY <1>2, CommitWriteStep
<1>3. CASE \E r \in anomalies : Resolve(r)
  BY <1>3, ResolveStep
<1>4. CASE List
  BY <1>4, ListStep
<1> QED
  BY <1>1, <1>2, <1>3, <1>4 DEF Next

(* At every point of a walk OFFSET divides what was sent from what is      *)
(* still to be sent, up to ties, inserts and rows that leave the filter.   *)
THEOREM Invariance == Spec => []IInv
  BY InitStep, NextStep, PTL DEF Spec

(* Every variable keeps its type: no page is longer than LIMIT, and none   *)
(* holds a row that is not in the table.                                   *)
THEOREM TypeCorrect == Spec => []TypeOK
<1>1. IInv => TypeOK
  BY DEF IInv
<1> QED
  BY <1>1, Invariance, PTL

(* A walk misses a row that matched throughout only for a tie or for a row *)
(* that left the filter meanwhile; inserts alone lose nothing.             *)
THEOREM MissesHaveCauses == Spec => []MissHasCause
<1>1. IInv => MissHasCause
  BY DEF IInv, UnsentIsBelow, MissHasCause
<1> QED
  BY <1>1, Invariance, PTL

(* A walk repeats a row, or sends a newer one after an older, only for an  *)
(* insert or a tie.                                                        *)
THEOREM RepeatsHaveCauses == Spec => []RepeatHasCause
<1>1. IInv => RepeatHasCause
  BY DEF IInv, SentIsAbove, RepeatHasCause
<1> QED
  BY <1>1, Invariance, PTL

-----------------------------------------------------------------------------
(* The page: its timers and its alert log. *)

(* An element put before a sequence comes first and pushes the others on.  *)
LEMMA OnTop ==
  ASSUME NEW S, NEW x \in S, NEW s \in Seq(S)
  PROVE  /\ <<x>> \o s \in Seq(S)
         /\ Len(<<x>> \o s) = Len(s) + 1
         /\ <<x>> \o s # <<>>
         /\ (<<x>> \o s)[1] = x
         /\ \A i \in 2 .. Len(s) + 1 : (<<x>> \o s)[i] = s[i - 1]
<1>1. <<x>> \in Seq(S) /\ Len(<<x>>) = 1 /\ <<x>>[1] = x /\ Len(s) \in Nat
  OBVIOUS
<1>2. /\ <<x>> \o s \in Seq(S)
      /\ Len(<<x>> \o s) = Len(s) + 1
      /\ \A i \in 1 .. Len(s) + 1 :
           (<<x>> \o s)[i] = IF i <= 1 THEN <<x>>[i] ELSE s[i - 1]
  BY <1>1, ConcatProperties
<1>3. <<x>> \o s # <<>>
  BY <1>1, <1>2
<1> QED
  BY <1>1, <1>2, <1>3

(* All but the last element. *)
LEMMA FrontAndLast ==
  ASSUME NEW S, NEW s \in Seq(S), Len(s) >= 1
  PROVE  /\ Front(s) \in Seq(S)
         /\ Len(Front(s)) = Len(s) - 1
         /\ \A i \in 1 .. Len(s) - 1 : Front(s)[i] = s[i]
         /\ Last(s) = s[Len(s)]
         /\ Last(s) \in S
<1>1. Len(s) \in Nat /\ Len(s) - 1 \in Nat
  OBVIOUS
<1>2. \A i \in 1 .. Len(s) - 1 : s[i] \in S
  BY <1>1, ElementOfSeq
<1> DEFINE n == Len(s) - 1
<1>3. /\ SubSeq(s, 1, n) \in Seq(S)
      /\ Len(SubSeq(s, 1, n)) = n
      /\ \A i \in 1 .. n : SubSeq(s, 1, n)[i] = s[i]
  <2>1. n \in Int /\ n >= 0 /\ 1 \in Int /\ \A i \in 1 .. n : s[i] \in S
    BY <1>1, <1>2
  <2> HIDE DEF n
  <2>2. /\ SubSeq(s, 1, n) \in Seq(S)
        /\ Len(SubSeq(s, 1, n)) = IF 1 <= n THEN n - 1 + 1 ELSE 0
        /\ \A i \in 1 .. n - 1 + 1 : SubSeq(s, 1, n)[i] = s[1 + i - 1]
    BY <2>1, SubSeqProperties
  <2>3. n - 1 + 1 = n /\ \A i \in 1 .. n : 1 + i - 1 = i
    BY <2>1
  <2> QED
    BY <2>1, <2>2, <2>3
<1>4. Last(s) = s[Len(s)] /\ s[Len(s)] \in S
  BY <1>1, ElementOfSeq DEF Last
<1> QED
  BY <1>3, <1>4 DEF Front
(* The log before the first entry. *)
LEMMA EmptyLogType == EmptyLog \in Seq({Text, Hint} \cup 1 .. MaxEntries)
<1> DEFINE S == {Text, Hint} \cup 1 .. MaxEntries
<1>1. Text \in S /\ Hint \in S
  OBVIOUS
<1> HIDE DEF S
<1>2. <<Text, Hint, Text>> \in Seq(S)
  BY <1>1
<1> QED
  BY <1>2 DEF EmptyLog, S

-----------------------------------------------------------------------------
LEMMA DashboardInitStep == DashboardInit => DashboardIInv
<1> SUFFICES ASSUME DashboardInit PROVE DashboardIInv
  OBVIOUS
<1> USE DashboardAssumption DEF DashboardInit
<1>1. DashboardTypeOK
  <2>1. /\ progress \in [Startup -> -1 .. Full - 1] /\ added \in 0 .. MaxEntries
        /\ logCount \in 0 .. LogSize /\ Len(logEntries) <= LogSize
    OBVIOUS
  <2>2. logEntries \in Seq(1 .. MaxEntries)
    OBVIOUS
  <2>3. log \in Seq({Text, Hint} \cup 1 .. MaxEntries)
    BY EmptyLogType
  <2> QED
    BY <2>1, <2>2, <2>3 DEF DashboardTypeOK
<1>2. Pending = {}
  BY DEF Pending
<1>3. OneStart /\ TimersFollowButton
  BY <1>2 DEF OneStart, TimersFollowButton
<1>4. LogShape
  BY DEF LogShape
<1> QED
  BY <1>1, <1>3, <1>4 DEF DashboardIInv

(* A first child that is white space means an empty log: entries are       *)
(* elements.                                                               *)
LEMMA TextMeansEmpty ==
  ASSUME DashboardTypeOK, LogShape, log[1] = Text
  PROVE  log = EmptyLog
<1>1. ASSUME logEntries # <<>> PROVE FALSE
  <2>1. logEntries \in Seq(1 .. MaxEntries) /\ Len(logEntries) \in Nat \ {0}
    BY <1>1, EmptySeq DEF DashboardTypeOK
  <2>2. 1 \in 1 .. Len(logEntries)
    BY <2>1
  <2>3. logEntries[1] = added
    BY <2>2, DashboardAssumption DEF DashboardTypeOK, LogShape
  <2>4. added \in 1 .. MaxEntries
    BY <2>1, <2>2, <2>3, ElementOfSeq
  <2>5. (<<added>>)[1] = added /\ (<<added>> \o EmptyLog)[1] = added
    BY <2>4, EmptyLogType, OnTop
  <2>6. log \in {<<added>>, <<added>> \o EmptyLog}
    BY <1>1 DEF LogShape
  <2> QED
    BY <2>4, <2>5, <2>6 DEF Text
<1> QED
  BY <1>1 DEF LogShape

(* What an entry does to the log and to the list behind it: it comes on    *)
(* top of both, and the entry that has to go has left the log long before. *)
LEMMA AddLogEntryFacts ==
  ASSUME DashboardTypeOK, LogShape, AddLogEntry
  PROVE  /\ added' = added + 1 /\ added' \in 1 .. MaxEntries
         /\ logEntries' \in Seq(1 .. MaxEntries)
         /\ Len(logEntries') \in 1 .. LogSize
         /\ \A i \in 1 .. Len(logEntries') : logEntries'[i] = added' + 1 - i
         /\ log' \in Seq({Text, Hint} \cup 1 .. MaxEntries)
         /\ log' \in {<<added'>>, <<added'>> \o EmptyLog}
         /\ logCount' = Len(logEntries')
<1> DEFINE Node == {Text, Hint} \cup 1 .. MaxEntries
           kept == IF log[1] = Text THEN log ELSE <<>>
           entries == <<added'>> \o logEntries
           shown == <<added'>> \o kept
<1>1. /\ added' = added + 1 /\ added \in Nat /\ added' \in 1 .. MaxEntries
      /\ logCount' = Len(logEntries')
  BY DashboardAssumption DEF AddLogEntry, DashboardTypeOK
<1>2. /\ logEntries \in Seq(1 .. MaxEntries) /\ Len(logEntries) \in 0 .. LogSize
      /\ \A i \in 1 .. Len(logEntries) : logEntries[i] = added + 1 - i
      /\ LogSize \in Nat \ {0}
  BY DashboardAssumption DEF DashboardTypeOK, LogShape
<1>3. kept \in {EmptyLog, <<>>}
  BY TextMeansEmpty
<1>4. /\ entries \in Seq(1 .. MaxEntries)
      /\ Len(entries) = Len(logEntries) + 1
      /\ entries[1] = added'
      /\ \A i \in 2 .. Len(logEntries) + 1 : entries[i] = logEntries[i - 1]
  BY <1>1, <1>2, OnTop
<1>5. \A i \in 1 .. Len(entries) : entries[i] = added' + 1 - i
  <2> SUFFICES ASSUME NEW i \in 1 .. Len(entries) PROVE entries[i] = added' + 1 - i
    OBVIOUS
  <2> HIDE DEF entries
  <2>1. CASE i = 1
    BY <1>1, <1>4, <2>1
  <2>2. CASE i # 1
    <3>1. i \in 2 .. Len(logEntries) + 1 /\ i - 1 \in 1 .. Len(logEntries)
      BY <1>2, <1>4, <2>2
    <3>2. entries[i] = logEntries[i - 1] /\ logEntries[i - 1] = added + 1 - (i - 1)
      BY <1>2, <1>4, <3>1
    <3> QED
      BY <1>1, <3>1, <3>2
  <2> QED
    BY <2>1, <2>2
<1>6. /\ shown \in Seq(Node)
      /\ shown \in {<<added'>>, <<added'>> \o EmptyLog}
      /\ \A i \in 1 .. Len(shown) : shown[i] \in {added', Text, Hint}
  <2> DEFINE T == {added', Text, Hint}
  <2>1. kept \in Seq(T)
    <3>1. Text \in T /\ Hint \in T
      OBVIOUS
    <3> HIDE DEF T
    <3>2. <<Text, Hint, Text>> \in Seq(T) /\ <<>> \in Seq(T)
      BY <3>1
    <3> QED
      BY <1>3, <3>2 DEF EmptyLog
  <2>2. shown \in Seq(T)
    BY <2>1, OnTop
  <2>3. T \subseteq Node
    BY <1>1
  <2>4. shown \in Seq(Node)
    BY <2>2, <2>3, SeqMonotonic
  <2>5. \A i \in 1 .. Len(shown) : shown[i] \in T
    BY <2>2, ElementOfSeq
  <2>6. <<added'>> \o <<>> = <<added'>>
    BY <1>1, ConcatEmptySeq
  <2> QED
    BY <1>3, <2>4, <2>5, <2>6
<1> HIDE DEF kept, shown, entries
<1>7. /\ Front(entries) \in Seq(1 .. MaxEntries)
      /\ Len(Front(entries)) = Len(entries) - 1
      /\ \A i \in 1 .. Len(entries) - 1 : Front(entries)[i] = entries[i]
      /\ Last(entries) = entries[Len(entries)] /\ Last(entries) \in 1 .. MaxEntries
  <2> DEFINE Entry == 1 .. MaxEntries
  <2>1. entries \in Seq(Entry) /\ Len(entries) >= 1
    BY <1>2, <1>4
  <2> HIDE DEF Entry
  <2>2. /\ Front(entries) \in Seq(Entry)
        /\ Len(Front(entries)) = Len(entries) - 1
        /\ \A i \in 1 .. Len(entries) - 1 : Front(entries)[i] = entries[i]
        /\ Last(entries) = entries[Len(entries)] /\ Last(entries) \in Entry
    BY <2>1, FrontAndLast
  <2> QED
    BY <2>2 DEF Entry
<1>8. CASE Len(entries) > LogSize
  <2>1. logEntries' = Front(entries) /\ log' = RemoveFirst(shown, Last(entries))
    BY <1>8 DEF AddLogEntry, entries, shown, kept
  <2>2. Len(entries) = LogSize + 1 /\ Len(entries) >= 2
    BY <1>2, <1>4, <1>8
  <2>3. Last(entries) \notin {added', Text, Hint}
    <3>1. Last(entries) = entries[Len(entries)] /\ Last(entries) \in 1 .. MaxEntries
      BY <1>7
    <3>2. Last(entries) = added' + 1 - Len(entries)
      BY <1>5, <2>2, <3>1
    <3> QED
      BY <1>1, <2>2, <3>1, <3>2, DashboardAssumption DEF Text, Hint
  <2>4. log' = shown
    BY <1>6, <2>1, <2>3 DEF RemoveFirst
  <2>5. /\ logEntries' \in Seq(1 .. MaxEntries)
        /\ Len(logEntries') = LogSize
        /\ \A i \in 1 .. LogSize : logEntries'[i] = entries[i]
    <3>1. Len(entries) - 1 = LogSize
      BY <1>2, <2>2
    <3> QED
      BY <1>7, <2>1, <3>1
  <2>6. \A i \in 1 .. LogSize : i \in 1 .. Len(entries)
    BY <1>2, <2>2
  <2>7. \A i \in 1 .. Len(logEntries') : logEntries'[i] = added' + 1 - i
    BY <1>5, <2>5, <2>6
  <2>8. Len(logEntries') \in 1 .. LogSize
    BY <1>2, <2>5
  <2> QED
    BY <1>1, <1>6, <2>4, <2>5, <2>7, <2>8
<1>9. CASE ~(Len(entries) > LogSize)
  <2>1. logEntries' = entries /\ log' = shown
    BY <1>9 DEF AddLogEntry, entries, shown, kept
  <2> QED
    BY <1>1, <1>2, <1>4, <1>5, <1>6, <1>9, <2>1
<1> QED
  BY <1>8, <1>9

(* An entry, injected or the monitor's, leaves the timers alone. *)
LEMMA EntryStep ==
  ASSUME DashboardIInv, Inject \/ \E k \in Startup : Monitor(k)
  PROVE  DashboardIInv'
<1>1. AddLogEntry /\ UNCHANGED timerVars
  BY DEF Inject, Monitor
<1>2. /\ added' = added + 1 /\ added' \in 1 .. MaxEntries
      /\ logEntries' \in Seq(1 .. MaxEntries)
      /\ Len(logEntries') \in 1 .. LogSize
      /\ \A i \in 1 .. Len(logEntries') : logEntries'[i] = added' + 1 - i
      /\ log' \in Seq({Text, Hint} \cup 1 .. MaxEntries)
      /\ log' \in {<<added'>>, <<added'>> \o EmptyLog}
      /\ logCount' = Len(logEntries')
  BY <1>1, AddLogEntryFacts DEF DashboardIInv
<1>3. DashboardTypeOK'
  BY <1>1, <1>2, DashboardAssumption DEF DashboardIInv, DashboardTypeOK, timerVars
<1>4. OneStart' /\ TimersFollowButton'
  BY <1>1 DEF DashboardIInv, OneStart, TimersFollowButton, Pending, timerVars
<1>5. LogShape'
  BY <1>2 DEF LogShape
<1> QED
  BY <1>3, <1>4, <1>5 DEF DashboardIInv

(* A start that comes while another is under way is an overlap; any other  *)
(* comes to a still page.                                                  *)
LEMMA StartStep ==
  ASSUME DashboardIInv, NEW k \in Startup, Start(k)
  PROVE  DashboardIInv'
<1> USE DEF DashboardIInv, Start, logVars
<1>1. DashboardTypeOK'
  BY DashboardAssumption DEF DashboardTypeOK
<1>2. LogShape'
  BY DEF LogShape
<1>3. overlapped' \/ (~overlapped /\ Pending = {})
  OBVIOUS
<1>4. CASE ~overlapped /\ Pending = {}
  <2>1. Pending' = {k}
    BY <1>4, DashboardAssumption DEF DashboardTypeOK, Pending
  <2>2. OneStart'
    BY <1>4, <2>1 DEF DashboardTypeOK, Pending, OneStart
  <2>3. TimersFollowButton'
    BY <1>4, <2>1 DEF TimersFollowButton
  <2> QED
    BY <1>1, <1>2, <2>2, <2>3
<1>5. CASE overlapped'
  BY <1>1, <1>2, <1>5 DEF OneStart, TimersFollowButton
<1> QED
  BY <1>3, <1>4, <1>5

(* Stopping clears the one interval that fires. *)
LEMMA StopStep ==
  ASSUME DashboardIInv, Stop \/ Reset
  PROVE  DashboardIInv'
<1> USE DEF DashboardIInv, Stop, Reset, StopMonitor, logVars
<1>1. DashboardTypeOK'
  <2>1. /\ isMonitoring' \in BOOLEAN /\ button' \in {"Start", "Pause", "Resume"}
        /\ live' \subseteq Startup
        /\ UNCHANGED <<mainInterval, unused, progress, closing, overlay,
                       overlapped, added>>
    BY DEF DashboardTypeOK
  <2>2. CASE UNCHANGED <<log, logEntries, logCount>>
    BY <2>1, <2>2 DEF DashboardTypeOK
  <2>3. CASE log' = EmptyLog /\ logEntries' = <<>> /\ logCount' = 0
    <3>1. log' \in Seq({Text, Hint} \cup 1 .. MaxEntries)
      BY <2>3, EmptyLogType
    <3>2. /\ logEntries' \in Seq(1 .. MaxEntries) /\ Len(logEntries') <= LogSize
          /\ logCount' \in 0 .. LogSize
      BY <2>3, DashboardAssumption
    <3> QED
      BY <2>1, <3>1, <3>2 DEF DashboardTypeOK
  <2> QED
    BY <2>2, <2>3
<1>2. LogShape'
  BY DEF LogShape
<1>3. Pending' = Pending
  BY DEF Pending
<1>4. OneStart'
  BY <1>3 DEF OneStart
<1>5. TimersFollowButton'
  BY <1>3 DEF TimersFollowButton
<1> QED
  BY <1>1, <1>2, <1>4, <1>5

(* A start that counts down stays the one that is under way. *)
LEMMA ProgressStep ==
  ASSUME DashboardIInv, NEW k \in Startup, Progress(k)
  PROVE  DashboardIInv'
<1> USE DEF DashboardIInv, Progress, logVars
<1>1. DashboardTypeOK'
  BY DashboardAssumption DEF DashboardTypeOK
<1>2. LogShape'
  BY DEF LogShape
<1>3. Pending' = Pending
  BY DashboardAssumption DEF DashboardTypeOK, Pending
<1>4. OneStart'
  BY <1>3, DashboardAssumption DEF DashboardTypeOK, OneStart, Pending
<1>5. TimersFollowButton'
  BY <1>3 DEF TimersFollowButton
<1> QED
  BY <1>1, <1>2, <1>4, <1>5

(* The one start that was under way is over, and its interval runs.        *)
LEMMA BeginMonitorStep ==
  ASSUME DashboardIInv, NEW k \in Startup, BeginMonitor(k)
  PROVE  DashboardIInv'
<1> USE DEF DashboardIInv, BeginMonitor, logVars
<1>1. DashboardTypeOK'
  BY DEF DashboardTypeOK
<1>2. LogShape'
  BY DEF LogShape
<1>3. CASE ~overlapped
  <2>1. Pending = {k} /\ progress[k] < 0 /\ ~isMonitoring
    BY <1>3 DEF OneStart, Pending
  <2>2. Pending' = {}
    BY <2>1, DashboardAssumption DEF DashboardTypeOK, Pending
  <2>3. live = {}
    BY <1>3, <2>1 DEF TimersFollowButton
  <2>4. OneStart'
    BY <2>2 DEF OneStart, Pending
  <2>5. TimersFollowButton'
    BY <2>2, <2>3 DEF TimersFollowButton
  <2> QED
    BY <1>1, <1>2, <2>4, <2>5
<1>4. CASE overlapped
  BY <1>1, <1>2, <1>4 DEF OneStart, TimersFollowButton
<1> QED
  BY <1>3, <1>4

LEMMA DashboardNextStep == DashboardIInv /\ [DashboardNext]_dashboardVars => DashboardIInv'
<1> SUFFICES ASSUME DashboardIInv, [DashboardNext]_dashboardVars PROVE DashboardIInv'
  OBVIOUS
<1>1. CASE Stop \/ Reset
  BY <1>1, StopStep
<1>2. CASE Inject \/ \E k \in Startup : Monitor(k)
  BY <1>2, EntryStep
<1>3. CASE \E k \in Startup : Start(k) \/ Progress(k) \/ BeginMonitor(k)
  BY <1>3, StartStep, ProgressStep, BeginMonitorStep
<1>4. CASE UNCHANGED dashboardVars
  BY <1>4 DEF dashboardVars, timerVars, logVars, DashboardIInv, DashboardTypeOK, OneStart,
       TimersFollowButton,
              LogShape, Pending
<1> QED
  BY <1>1, <1>2, <1>3, <1>4 DEF DashboardNext

(* Timers, button, overlay and log fit together in every reachable state.  *)
THEOREM DashboardInvariance == DashboardSpec => []DashboardIInv
  BY DashboardInitStep, DashboardNextStep, PTL DEF DashboardSpec

(* Every variable keeps its type: the list behind the log never outgrows   *)
(* LogSize.                                                                *)
THEOREM DashboardTypeCorrect == DashboardSpec => []DashboardTypeOK
<1>1. DashboardIInv => DashboardTypeOK
  BY DEF DashboardIInv
<1> QED
  BY <1>1, DashboardInvariance, PTL

(* With one start at a time the interval that fires is the one stopping    *)
(* would clear, and the overlay is up exactly while a start is under way.  *)
THEOREM TimersAreTheButtons == DashboardSpec => []TimersFollowButton
<1>1. DashboardIInv => TimersFollowButton
  BY DEF DashboardIInv
<1> QED
  BY <1>1, DashboardInvariance, PTL

(* The list holds the newest alerts, newest first and without a gap, and   *)
(* the page shows the newest of them alone, whatever was removed.          *)
THEOREM NewestFirst == DashboardSpec => []NewestOnTop
<1>1. DashboardIInv => NewestOnTop
  <2> SUFFICES ASSUME DashboardIInv PROVE NewestOnTop
    OBVIOUS
  <2>1. logEntries = <<>> <=> Len(logEntries) = 0
    BY DEF DashboardIInv, DashboardTypeOK
  <2> QED
    BY <2>1 DEF DashboardIInv, LogShape, NewestOnTop
<1> QED
  BY <1>1, DashboardInvariance, PTL

=============================================================================
