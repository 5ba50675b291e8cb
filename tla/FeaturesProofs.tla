--------------------------- MODULE FeaturesProofs ---------------------------
(***************************************************************************)
(* Proofs about build_features, for any events of any loan at any time:    *)
(* the vector is that of the set of the events, events that are too old    *)
(* leave no trace in it, and its shares are shares.                        *)
(***************************************************************************)
EXTENDS Features, SumTheorems

(* Times and amounts are integers. *)
LEMMA EventShape ==
  ASSUME NEW E \in Seq(Event), NEW i \in DOMAIN E
  PROVE  E[i].ts \in Int /\ E[i].amount \in Int
<1>1. E[i] \in Event
  OBVIOUS
<1> QED
  BY <1>1, FeaturesAssumption

(* A list has finitely many places. *)
LEMMA PlacesFinite ==
  ASSUME NEW E \in Seq(Event)
  PROVE  IsFiniteSet(DOMAIN E) /\ \A I \in SUBSET DOMAIN E : IsFiniteSet(I)
<1>1. DOMAIN E = 1 .. Len(E) /\ Len(E) \in Nat
  OBVIOUS
<1>2. IsFiniteSet(DOMAIN E)
  BY <1>1, FS_Interval
<1> QED
  BY <1>2, FS_Subset

-----------------------------------------------------------------------------
(* What sorted returns. *)

(* A list of all places in I, the earliest first. *)
LEMMA SortedLists ==
  ASSUME NEW E \in Seq(Event), NEW I \in SUBSET DOMAIN E
  PROVE  /\ Sorted(E, I) \in [1 .. Cardinality(I) -> I]
         /\ \A k, l \in 1 .. Cardinality(I) :
              k < l => E[Sorted(E, I)[k]].ts <= E[Sorted(E, I)[l]].ts
         /\ \A i \in I : \E k \in 1 .. Cardinality(I) : Sorted(E, I)[k] = i
<1> DEFINE m == Len(E) + 1
           w == [i \in I |-> E[i].ts * m + i]
           L == Sorted(E, I)
<1>0. m \in Nat /\ m > 0 /\ \A i \in I : i \in Int /\ 0 < i /\ i < m /\ E[i].ts \in Int
  BY EventShape
<1>1. \A i \in I : w[i] \in Int /\ w[i] = E[i].ts * m + i
  BY <1>0
<1> HIDE DEF m
<1>2. ASSUME NEW i \in I, NEW j \in I, E[i].ts < E[j].ts PROVE w[i] < w[j]
  <2> DEFINE a == E[i].ts
             b == E[j].ts
  <2>1. a \in Int /\ b \in Int /\ a + 1 <= b
    BY <1>0, <1>2
  <2> HIDE DEF a, b
  <2>2. (a + 1) * m <= b * m /\ (a + 1) * m = a * m + m
    BY <1>0, <2>1
  <2>3. a * m \in Int /\ b * m \in Int
    BY <1>0, <2>1
  <2>4. a * m + i < b * m + j
    BY <1>0, <2>2, <2>3
  <2> QED
    BY <1>1, <2>4 DEF a, b
<1>3. ASSUME NEW i \in I, NEW j \in I PROVE Earlier(E, i, j) <=> w[i] < w[j]
  <2>1. CASE E[i].ts < E[j].ts
    BY <1>2, <2>1 DEF Earlier
  <2>2. CASE E[j].ts < E[i].ts
    <3>1. w[j] < w[i]
      BY <1>2, <2>2
    <3>2. ~ (w[i] < w[j]) /\ ~ Earlier(E, i, j)
      BY <1>0, <1>1, <2>2, <3>1 DEF Earlier
    <3> QED
      BY <3>2
  <2>3. CASE E[i].ts = E[j].ts
    <3> DEFINE c == E[i].ts * m
    <3>1. c \in Int /\ w[i] = c + i /\ w[j] = c + j
      BY <1>0, <1>1, <2>3
    <3> HIDE DEF c, w
    <3>2. w[i] < w[j] <=> i < j
      BY <1>0, <3>1
    <3> QED
      BY <1>0, <2>3, <3>2 DEF Earlier
  <2> QED
    BY <1>0, <2>1, <2>2, <2>3
<1>4. ASSUME NEW i \in I, NEW j \in I, w[i] = w[j] PROVE i = j
  <2>1. ~ (w[i] < w[j]) /\ ~ (w[j] < w[i])
    BY <1>1, <1>4
  <2>2. ~ Earlier(E, i, j) /\ ~ Earlier(E, j, i)
    BY <1>3, <2>1
  <2> QED
    BY <1>0, <2>2 DEF Earlier
<1> HIDE DEF w
<1>5. L = [k \in 1 .. Cardinality(I) |->
             CHOOSE i \in I : Cardinality({j \in I : w[j] < w[i]}) = k - 1]
  <2> DEFINE rank(i) == Cardinality({j \in I : Earlier(E, j, i)})
             weight(i) == Cardinality({j \in I : w[j] < w[i]})
             at(k) == CHOOSE i \in I : rank(i) = k - 1
             by(k) == CHOOSE i \in I : weight(i) = k - 1
  <2>1. \A i \in I : rank(i) = weight(i)
    <3>1. \A i \in I : {j \in I : Earlier(E, j, i)} = {j \in I : w[j] < w[i]}
      BY <1>3
    <3> QED
      BY <3>1
  <2>2. L = [k \in 1 .. Cardinality(I) |-> at(k)]
    BY DEF Sorted
  <2> HIDE DEF rank, weight, L
  <2>3. ASSUME NEW k PROVE at(k) = by(k)
    <3>1. \A i \in I : rank(i) = k - 1 <=> weight(i) = k - 1
      BY <2>1
    <3> QED
      BY <3>1, Zenon
  <2>4. L = [k \in 1 .. Cardinality(I) |-> by(k)]
    <3> HIDE DEF at, by
    <3> QED
      BY <2>2, <2>3
  <2> QED
    BY <2>4 DEF weight
<1> HIDE DEF L
<1>6. IsFiniteSet(I)
  BY PlacesFinite
<1>7. Lists(L, I, w)
  BY <1>1, <1>4, <1>5, <1>6, RankLists
<1>8. L \in [1 .. Cardinality(I) -> I]
  BY <1>7 DEF Lists
<1>9. ASSUME NEW k \in 1 .. Cardinality(I), NEW l \in 1 .. Cardinality(I), k < l
      PROVE  E[L[k]].ts <= E[L[l]].ts
  <2>1. w[L[k]] <= w[L[l]] /\ L[k] \in I /\ L[l] \in I
    BY <1>7, <1>8, <1>9 DEF Lists
  <2>2. ~ (w[L[l]] < w[L[k]])
    BY <1>1, <2>1
  <2>3. ~ (E[L[l]].ts < E[L[k]].ts)
    BY <1>2, <2>1, <2>2
  <2> QED
    BY <1>0, <2>1, <2>3
<1>10. \A i \in I : \E k \in 1 .. Cardinality(I) : L[k] = i
  BY <1>6, <1>7, ListsAll DEF Lists
<1> QED
  BY <1>8, <1>9, <1>10 DEF L

-----------------------------------------------------------------------------
(* The same events, or some of them, in another order. *)

(* R lists events of E, each at most once: p tells from which place. *)
Picks(R, E, p) ==
    /\ E \in Seq(Event)
    /\ R \in Seq(Event)
    /\ p \in [DOMAIN R -> DOMAIN E]
    /\ \A k, l \in DOMAIN R : p[k] = p[l] => k = l
    /\ \A k \in DOMAIN R : R[k] = E[p[k]]

(* The places that hold events from the places in I. *)
From(p, I) == {k \in DOMAIN p : p[k] \in I}

(* None of the events at the places in I is left out. *)
Has(p, I) == \A i \in I : \E k \in DOMAIN p : p[k] = i

(* Counts and sums do not depend on the order. *)
LEMMA SumsAgree ==
  ASSUME NEW R, NEW E, NEW p, Picks(R, E, p), NEW I \in SUBSET DOMAIN E, Has(p, I)
  PROVE  /\ From(p, I) \in SUBSET DOMAIN R
         /\ Cardinality(From(p, I)) = Cardinality(I)
         /\ Total(R, From(p, I)) = Total(E, I)
         /\ Squares(R, From(p, I)) = Squares(E, I)
         /\ Turnover(R, From(p, I)) = Turnover(E, I)
<1> DEFINE J == From(p, I)
           q == [k \in J |-> p[k]]
<1>1. J \in SUBSET DOMAIN R /\ IsFiniteSet(J)
  BY PlacesFinite DEF Picks, From
<1>2. q \in [J -> I]
  BY DEF From
<1>3. \A k, l \in J : q[k] = q[l] => k = l
  BY <1>1 DEF Picks
<1>4. \A i \in I : \E k \in J : q[k] = i
  BY DEF From, Has
<1>5. \A k \in J : q[k] \in I /\ R[k] = E[q[k]]
  BY <1>1, <1>2 DEF Picks
<1>6. \A i \in I : E[i].amount \in Int
  BY EventShape DEF Picks
<1> HIDE DEF J, q
<1>7. ASSUME NEW F, DOMAIN F = I, \A i \in I : F[i] \in Int,
             NEW G, DOMAIN G = J, \A k \in J : G[k] = F[q[k]]
      PROVE  Cardinality(J) = Cardinality(I) /\ SumFunction(G) = SumFunction(F)
  <2>1. Cardinality(I) = Cardinality(J) /\ SumFunctionOnSet(G, J) = SumFunctionOnSet(F, I)
    BY <1>1, <1>2, <1>3, <1>4, <1>7, SumReindexed
  <2> QED
    BY <1>7, <2>1 DEF SumFunction
<1>8. Cardinality(J) = Cardinality(I) /\ Total(R, J) = Total(E, I)
  <2> DEFINE F == [i \in I |-> E[i].amount]
             G == [k \in J |-> R[k].amount]
  <2>1. \A i \in I : F[i] \in Int
    BY <1>6
  <2>2. \A k \in J : G[k] = F[q[k]]
    BY <1>5
  <2>3. DOMAIN F = I /\ DOMAIN G = J
    OBVIOUS
  <2>4. Total(R, J) = SumFunction(G) /\ Total(E, I) = SumFunction(F)
    BY DEF Total
  <2> HIDE DEF F, G
  <2> QED
    BY <1>7, <2>1, <2>2, <2>3, <2>4
<1>9. Squares(R, J) = Squares(E, I)
  <2> DEFINE F == [i \in I |-> E[i].amount * E[i].amount]
             G == [k \in J |-> R[k].amount * R[k].amount]
  <2>1. \A i \in I : F[i] \in Int
    BY <1>6
  <2>2. \A k \in J : G[k] = F[q[k]]
    BY <1>5
  <2>3. DOMAIN F = I /\ DOMAIN G = J
    OBVIOUS
  <2>4. Squares(R, J) = SumFunction(G) /\ Squares(E, I) = SumFunction(F)
    BY DEF Squares
  <2> HIDE DEF F, G
  <2> QED
    BY <1>7, <2>1, <2>2, <2>3, <2>4
<1>10. Turnover(R, J) = Turnover(E, I)
  <2> DEFINE F == [i \in I |-> Size(E[i].amount)]
             G == [k \in J |-> Size(R[k].amount)]
  <2>1. \A i \in I : F[i] \in Int
    BY <1>6 DEF Size
  <2>2. \A k \in J : G[k] = F[q[k]]
    BY <1>5
  <2>3. DOMAIN F = I /\ DOMAIN G = J
    OBVIOUS
  <2>4. Turnover(R, J) = SumFunction(G) /\ Turnover(E, I) = SumFunction(F)
    BY DEF Turnover
  <2> HIDE DEF F, G
  <2> QED
    BY <1>7, <2>1, <2>2, <2>3, <2>4
<1> QED
  BY <1>1, <1>8, <1>9, <1>10 DEF J

(* Windows, signs and types are those of the events. *)
LEMMA PlacesAgree ==
  ASSUME NEW R, NEW E, NEW p, Picks(R, E, p)
  PROVE  /\ \A days : Window(R, days) = From(p, Window(E, days))
         /\ \A I \in SUBSET DOMAIN E :
              /\ \A types : Of(R, From(p, I), types) = From(p, Of(E, I, types))
              /\ Inflows(R, From(p, I)) = From(p, Inflows(E, I))
              /\ Outflows(R, From(p, I)) = From(p, Outflows(E, I))
<1>1. DOMAIN p = DOMAIN R /\ \A k \in DOMAIN R : p[k] \in DOMAIN E /\ R[k] = E[p[k]]
  BY DEF Picks
<1>2. ASSUME NEW days PROVE Window(R, days) = From(p, Window(E, days))
  BY <1>1 DEF Window, From
<1>3. ASSUME NEW I \in SUBSET DOMAIN E, NEW types
      PROVE  /\ Of(R, From(p, I), types) = From(p, Of(E, I, types))
             /\ Inflows(R, From(p, I)) = From(p, Inflows(E, I))
             /\ Outflows(R, From(p, I)) = From(p, Outflows(E, I))
  BY <1>1 DEF Of, Inflows, Outflows, From
<1> QED
  BY <1>2, <1>3

(* A window of 30 days lies in one of 90. *)
LEMMA WindowsNest ==
  ASSUME NEW E \in Seq(Event), asOf \in Int
  PROVE  Window(E, 30) \subseteq Window(E, 90) /\ Window(E, 90) \subseteq DOMAIN E
<1>1. asOf - 90 * PerDay <= asOf - 30 * PerDay /\ 90 * PerDay \in Int /\ 30 * PerDay \in Int
  BY FeaturesAssumption
<1>2. \A i \in DOMAIN E : E[i].ts \in Int
  BY EventShape
<1> QED
  BY <1>1, <1>2 DEF Window

(* The daily buckets. *)
LEMMA BucketsAgree ==
  ASSUME NEW R, NEW E, NEW p, Picks(R, E, p), Has(p, Window(E, 30))
  PROVE  Buckets(R) = Buckets(E)
<1> DEFINE W == Window(E, 30)
           V == Window(R, 30)
<1>1. V = From(p, W) /\ W \in SUBSET DOMAIN E
  BY PlacesAgree DEF Window
<1>2. \A k \in V : p[k] \in W /\ R[k] = E[p[k]]
  BY <1>1 DEF From, Picks
<1>3. \A i \in W : \E k \in V : p[k] = i
  BY <1>1 DEF From, Has
<1> DEFINE days == {Age(E[i]) : i \in W}
           at(d) == Total(E, {i \in W : Age(E[i]) = d})
           daysR == {Age(R[k]) : k \in V}
           atR(d) == Total(R, {k \in V : Age(R[k]) = d})
<1>4. days = daysR
  BY <1>2, <1>3
<1>5. ASSUME NEW d PROVE at(d) = atR(d)
  <2> DEFINE I == {i \in W : Age(E[i]) = d}
             J == {k \in V : Age(R[k]) = d}
  <2>1. I \in SUBSET DOMAIN E /\ Has(p, I)
    BY <1>1 DEF Has
  <2>2. J = From(p, I)
    BY <1>1, <1>2 DEF From
  <2> HIDE DEF I, J
  <2>3. Total(R, J) = Total(E, I)
    BY <2>1, <2>2, SumsAgree
  <2> QED
    BY <2>3 DEF I, J
<1>6. Buckets(E) = [d \in days |-> at(d)] /\ Buckets(R) = [d \in daysR |-> atR(d)]
  BY DEF Buckets
<1> HIDE DEF days, daysR, at, atR
<1> QED
  BY <1>4, <1>5, <1>6

(* The earliest and the latest of the POS events span the gaps between     *)
(* them.                                                                   *)
LEMMA CadenceSpans ==
  ASSUME NEW E \in Seq(Event), asOf \in Int, Cardinality(PosInflows(E)) >= 2
  PROVE  LET P == Of(E, Window(E, 30), {"POS_INFLOW"})
         IN  /\ Cardinality(P) \in Nat /\ Cardinality(P) >= 2
             /\ \E a, b \in P :
                  /\ \A i \in P : E[a].ts <= E[i].ts /\ E[i].ts <= E[b].ts
                  /\ Cadence(E) = <<E[b].ts - E[a].ts, PerDay * (Cardinality(P) - 1)>>
<1> DEFINE P == Of(E, Window(E, 30), {"POS_INFLOW"})
           n == Cardinality(P)
           pos == Sorted(E, P)
<1>1. P \in SUBSET DOMAIN E /\ IsFiniteSet(P) /\ PosInflows(E) \in SUBSET P
  <2>1. P \in SUBSET DOMAIN E
    BY DEF Of, Window
  <2>2. PosInflows(E) \in SUBSET P
    BY DEF PosInflows, Of, Inflows
  <2> QED
    BY <2>1, <2>2, PlacesFinite
<1>2. n \in Nat /\ n >= 2
  <2>1. Cardinality(PosInflows(E)) <= n /\ n \in Nat
    BY <1>1, FS_Subset, FS_CardinalityType
  <2>2. IsFiniteSet(PosInflows(E))
    BY <1>1, FS_Subset
  <2>3. Cardinality(PosInflows(E)) \in Nat
    BY <2>2, FS_CardinalityType
  <2> QED
    BY <2>1, <2>3
<1>3. /\ pos \in [1 .. n -> P]
      /\ \A k, l \in 1 .. n : k < l => E[pos[k]].ts <= E[pos[l]].ts
      /\ \A i \in P : \E k \in 1 .. n : pos[k] = i
  BY <1>1, SortedLists
<1>4. \A i \in P : E[i].ts \in Int
  BY <1>1, EventShape
<1> DEFINE gaps == [i \in 1 .. Len(pos) - 1 |-> E[pos[i + 1]].ts - E[pos[i]].ts]
<1>5. Cadence(E) = <<SumFunction(gaps), PerDay * (Len(pos) - 1)>>
  BY DEF Cadence
<1> HIDE DEF P, n, pos
<1>6. Len(pos) = n
  BY <1>2, <1>3
<1> DEFINE t == [i \in 1 .. n |-> E[pos[i]].ts]
<1>7. SumFunction(gaps) = t[n] - t[1]
  <2>1. \A i \in 1 .. n : t[i] \in Int
    BY <1>3, <1>4
  <2>2. \A i \in 1 .. n - 1 : gaps[i] = t[i + 1] - t[i]
    BY <1>2, <1>6
  <2>3. DOMAIN gaps = 1 .. n - 1
    BY <1>6
  <2>4. n \in Nat \ {0}
    BY <1>2
  <2> HIDE DEF gaps, t
  <2>5. SumFunctionOnSet(gaps, 1 .. n - 1) = t[n] - t[1]
    BY <2>1, <2>2, <2>4, SumTelescopes
  <2> QED
    BY <2>3, <2>5 DEF SumFunction
<1>8. pos[1] \in P /\ pos[n] \in P /\ t[1] = E[pos[1]].ts /\ t[n] = E[pos[n]].ts
  BY <1>2, <1>3
<1>9. ASSUME NEW i \in P PROVE E[pos[1]].ts <= E[i].ts /\ E[i].ts <= E[pos[n]].ts
  <2>1. PICK k \in 1 .. n : pos[k] = i
    BY <1>3
  <2>2. 1 \in 1 .. n /\ n \in 1 .. n /\ (k = 1 \/ 1 < k) /\ (k = n \/ k < n)
    BY <1>2
  <2>3. E[pos[1]].ts \in Int /\ E[pos[n]].ts \in Int /\ E[i].ts \in Int
    BY <1>4, <1>8
  <2>4. E[pos[1]].ts <= E[pos[k]].ts
    BY <1>3, <2>1, <2>2, <2>3
  <2>5. E[pos[k]].ts <= E[pos[n]].ts
    BY <1>3, <2>1, <2>2, <2>3
  <2> QED
    BY <2>1, <2>4, <2>5
<1> HIDE DEF t, gaps
<1>10. Cadence(E) = <<E[pos[n]].ts - E[pos[1]].ts, PerDay * (n - 1)>>
  BY <1>5, <1>6, <1>7, <1>8
<1> QED
  BY <1>2, <1>8, <1>9, <1>10 DEF P, n

(* The latest inflow of all tells the days since the last one. *)
LEMMA RecencyIsLatest ==
  ASSUME NEW E \in Seq(Event)
  PROVE  IF Inflows(E, DOMAIN E) = {} THEN Recency(E) = 999
         ELSE \E i \in Inflows(E, DOMAIN E) :
                /\ Recency(E) = Age(E[i])
                /\ \A j \in Inflows(E, DOMAIN E) : E[j].ts <= E[i].ts
<1> DEFINE D == DOMAIN E
           n == Cardinality(D)
           s == Sorted(E, D)
           K == {k \in DOMAIN s : E[s[k]].amount > 0}
<1>1. /\ s \in [1 .. n -> D]
      /\ \A k, l \in 1 .. n : k < l => E[s[k]].ts <= E[s[l]].ts
      /\ \A i \in D : \E k \in 1 .. n : s[k] = i
  BY SortedLists
<1>2. n \in Nat
  BY PlacesFinite, FS_CardinalityType
<1>3. Recency(E) = IF K = {} THEN 999 ELSE Age(E[s[Max(K)]])
  BY DEF Recency
<1>4. \A i \in D : E[i].ts \in Int
  BY EventShape
<1> HIDE DEF n, s
<1>5. K \in SUBSET (1 .. n) /\ \A k \in K : s[k] \in Inflows(E, D)
  BY <1>1 DEF Inflows
<1>6. ASSUME NEW i \in Inflows(E, D) PROVE \E k \in K : s[k] = i
  BY <1>1, <1>6 DEF Inflows
<1>7. CASE K = {}
  BY <1>3, <1>6, <1>7
<1>8. CASE K # {}
  <2>1. Max(K) \in K /\ \A k \in K : Max(K) >= k
    <3> DEFINE v == [k \in K |-> 0 - k]
    <3>1. IsFiniteSet(K)
      <4>1. IsFiniteSet(1 .. n)
        BY <1>2, FS_Interval
      <4> QED
        BY <1>5, <4>1, FS_Subset
    <3>2. \A k \in K : v[k] \in Int /\ v[k] = 0 - k /\ k \in Int
      BY <1>5
    <3> HIDE DEF v, K
    <3>3. PICK x \in K : \A y \in K : v[x] <= v[y]
      BY <1>8, <3>1, <3>2, Lightest
    <3>4. \A y \in K : x >= y
      BY <3>2, <3>3
    <3> QED
      BY <3>4 DEF Max
  <2> DEFINE i == s[Max(K)]
  <2>2. i \in Inflows(E, D) /\ Recency(E) = Age(E[i])
    BY <1>3, <1>5, <1>8, <2>1
  <2>3. ASSUME NEW j \in Inflows(E, D) PROVE E[j].ts <= E[i].ts
    <3>1. PICK k \in K : s[k] = j
      BY <1>6
    <3>2. k \in 1 .. n /\ Max(K) \in 1 .. n /\ k <= Max(K)
      BY <1>5, <2>1
    <3>3. E[j].ts \in Int
      BY <1>4 DEF Inflows
    <3> HIDE DEF K
    <3>4. CASE k = Max(K)
      BY <3>1, <3>3, <3>4
    <3>5. CASE k < Max(K)
      BY <1>1, <3>1, <3>2, <3>5
    <3> QED
      BY <3>2, <3>4, <3>5
  <2> HIDE DEF i
  <2> QED
    BY <2>2, <2>3
<1> QED
  BY <1>7, <1>8

(* It does not depend on the order of the events. *)
LEMMA RecencyAgrees ==
  ASSUME NEW R, NEW E, NEW p, Picks(R, E, p), Has(p, DOMAIN E)
  PROVE  Recency(R) = Recency(E)
<1> DEFINE I == Inflows(E, DOMAIN E)
           J == Inflows(R, DOMAIN R)
<1>1. /\ E \in Seq(Event) /\ R \in Seq(Event)
      /\ \A k \in DOMAIN R : p[k] \in DOMAIN E /\ R[k] = E[p[k]]
      /\ \A i \in DOMAIN E : \E k \in DOMAIN R : p[k] = i
  BY DEF Picks, Has
<1>2. \A k \in J : p[k] \in I /\ R[k] = E[p[k]]
  BY <1>1 DEF Inflows
<1>3. \A i \in I : \E k \in J : p[k] = i
  BY <1>1 DEF Inflows
<1>4. (\A i \in I : E[i].ts \in Int) /\ (\A k \in J : R[k].ts \in Int)
  BY <1>1, EventShape DEF Inflows
<1>5. /\ I = {} => Recency(E) = 999
      /\ I # {} => \E i \in I : /\ Recency(E) = Age(E[i])
                               /\ \A j \in I : E[j].ts <= E[i].ts
  BY <1>1, RecencyIsLatest
<1>6. /\ J = {} => Recency(R) = 999
      /\ J # {} => \E k \in J : /\ Recency(R) = Age(R[k])
                               /\ \A l \in J : R[l].ts <= R[k].ts
  BY <1>1, RecencyIsLatest
<1> HIDE DEF I, J
<1>7. CASE I = {}
  BY <1>2, <1>5, <1>6, <1>7
<1>8. CASE I # {}
  <2>1. PICK i \in I : Recency(E) = Age(E[i]) /\ \A j \in I : E[j].ts <= E[i].ts
    BY <1>5, <1>8
  <2>2. PICK k \in J : Recency(R) = Age(R[k]) /\ \A l \in J : R[l].ts <= R[k].ts
    BY <1>3, <1>6, <1>8
  <2>3. PICK l \in J : p[l] = i
    BY <1>3
  <2>4. R[l].ts = E[i].ts /\ R[l].ts <= R[k].ts
    BY <1>2, <2>2, <2>3
  <2>5. R[k].ts <= E[i].ts
    BY <1>2, <2>1
  <2>6. R[k].ts = E[i].ts
    BY <1>4, <2>4, <2>5
  <2> QED
    BY <2>1, <2>2, <2>6 DEF Age
<1> QED
  BY <1>7, <1>8

(* Nor does the cadence. *)
LEMMA CadenceAgrees ==
  ASSUME NEW R, NEW E, NEW p, Picks(R, E, p), Has(p, Window(E, 30)), asOf \in Int
  PROVE  Cadence(R) = Cadence(E)
<1> DEFINE W == Window(E, 30)
           P == Of(E, W, {"POS_INFLOW"})
           Q == Of(R, Window(R, 30), {"POS_INFLOW"})
<1>1. /\ E \in Seq(Event) /\ R \in Seq(Event)
      /\ \A k \in DOMAIN p : R[k] = E[p[k]] /\ p[k] \in DOMAIN E
  BY DEF Picks
<1>2. W \in SUBSET DOMAIN E /\ P \in SUBSET W /\ PosInflows(E) \in SUBSET W
  BY DEF Window, Of, Inflows, PosInflows
<1>3. Has(p, P) /\ Has(p, PosInflows(E))
  BY <1>2 DEF Has
<1>4. Q = From(p, P) /\ PosInflows(R) = From(p, PosInflows(E))
  <2>1. Inflows(E, W) \in SUBSET DOMAIN E
    BY <1>2 DEF Inflows
  <2> HIDE DEF W
  <2> QED
    BY <1>2, <2>1, PlacesAgree DEF PosInflows, W
<1>5. Cardinality(Q) = Cardinality(P) /\ Cardinality(PosInflows(R)) = Cardinality(PosInflows(E))
  <2>1. P \in SUBSET DOMAIN E /\ PosInflows(E) \in SUBSET DOMAIN E
    BY <1>2
  <2> HIDE DEF P, Q
  <2> QED
    BY <1>3, <1>4, <2>1, SumsAgree
<1>6. CASE ~ (Cardinality(PosInflows(E)) >= 2)
  BY <1>5, <1>6 DEF Cadence
<1>7. CASE Cardinality(PosInflows(E)) >= 2
  <2>1. PICK a, b \in P :
          /\ \A i \in P : E[a].ts <= E[i].ts /\ E[i].ts <= E[b].ts
          /\ Cadence(E) = <<E[b].ts - E[a].ts, PerDay * (Cardinality(P) - 1)>>
    BY <1>1, <1>7, CadenceSpans
  <2>2. PICK c, d \in Q :
          /\ \A k \in Q : R[c].ts <= R[k].ts /\ R[k].ts <= R[d].ts
          /\ Cadence(R) = <<R[d].ts - R[c].ts, PerDay * (Cardinality(Q) - 1)>>
    BY <1>1, <1>5, <1>7, CadenceSpans
  <2>3. \A i \in P : E[i].ts \in Int
    BY <1>1, <1>2, EventShape
  <2> HIDE DEF P, Q
  <2>4. \A k \in Q : p[k] \in P /\ R[k] = E[p[k]]
    BY <1>1, <1>4 DEF From
  <2>5. \A i \in P : \E k \in Q : p[k] = i
    BY <1>3, <1>4 DEF From, Has
  <2>6. R[c].ts = E[a].ts
    <3>1. PICK k \in Q : p[k] = a
      BY <2>5
    <3>2. R[c].ts <= E[a].ts /\ E[a].ts <= R[c].ts /\ R[c].ts \in Int /\ E[a].ts \in Int
      BY <2>1, <2>2, <2>3, <2>4, <3>1
    <3> QED
      BY <3>2
  <2>7. R[d].ts = E[b].ts
    <3>1. PICK k \in Q : p[k] = b
      BY <2>5
    <3>2. E[b].ts <= R[d].ts /\ R[d].ts <= E[b].ts /\ R[d].ts \in Int /\ E[b].ts \in Int
      BY <2>1, <2>2, <2>3, <2>4, <3>1
    <3> QED
      BY <3>2
  <2> QED
    BY <1>5, <2>1, <2>2, <2>6, <2>7
<1> QED
  BY <1>6, <1>7

(* FEATURE_ORDER, as a set. *)
Feature ==
    {"cashflow_volatility_30d", "pos_inflow_consistency_score", "nsf_event_count_90d",
     "overdraft_count_90d", "missed_payment_count_90d", "avg_balance_30d",
     "inflow_outflow_ratio", "inflow_total_30d", "outflow_total_30d", "event_count_30d",
     "max_drawdown_pct", "days_since_last_inflow", "cash_only_inflow_ratio",
     "repayment_to_principal_ratio", "avg_pos_inflow_amt", "pos_inflow_cadence_days",
     "weekend_activity_ratio", "large_outflow_count_30d"}

(* A vector is a function on these. *)
LEMMA VectorShape ==
  ASSUME NEW E
  PROVE  Vector(E) = [f \in Feature |-> Vector(E)[f]]
  BY DEF Vector, Feature

(* The vector of some of the events, those of 90 days among them, is that  *)
(* of all, but for the days since the last inflow.                         *)
LEMMA VectorAgrees ==
  ASSUME NEW R, NEW E, NEW p, Picks(R, E, p), Has(p, Window(E, 90)), asOf \in Int
  PROVE  \A x : [Vector(R) EXCEPT !.days_since_last_inflow = x]
              = [Vector(E) EXCEPT !.days_since_last_inflow = x]
<1> DEFINE W == Window(E, 30)
           Q == Window(E, 90)
           WR == Window(R, 30)
           QR == Window(R, 90)
           Out == Outflows(E, W)
           large == {i \in Out : 20 * Size(E[i].amount) >= Principal}
           largeR == {k \in Outflows(R, WR) : 20 * Size(R[k].amount) >= Principal}
           weekend == {i \in W : (E[i].ts \div PerDay) % 7 \in {5, 6}}
           weekendR == {k \in WR : (R[k].ts \div PerDay) % 7 \in {5, 6}}
<1>1. /\ E \in Seq(Event) /\ R \in Seq(Event)
      /\ \A k \in DOMAIN p : p[k] \in DOMAIN E /\ R[k] = E[p[k]]
  BY DEF Picks
<1>2. W \in SUBSET DOMAIN E /\ Q \in SUBSET DOMAIN E /\ W \in SUBSET Q
  BY <1>1, WindowsNest
<1>3. WR = From(p, W) /\ QR = From(p, Q)
  BY PlacesAgree
<1>4. ASSUME NEW I \in SUBSET Q
      PROVE  /\ I \in SUBSET DOMAIN E /\ Has(p, I)
             /\ Cardinality(From(p, I)) = Cardinality(I)
             /\ Total(R, From(p, I)) = Total(E, I)
             /\ Squares(R, From(p, I)) = Squares(E, I)
             /\ Turnover(R, From(p, I)) = Turnover(E, I)
             /\ \A types : Of(R, From(p, I), types) = From(p, Of(E, I, types))
                           /\ Of(E, I, types) \in SUBSET Q
             /\ Inflows(R, From(p, I)) = From(p, Inflows(E, I)) /\ Inflows(E, I) \in SUBSET Q
             /\ Outflows(R, From(p, I)) = From(p, Outflows(E, I)) /\ Outflows(E, I) \in SUBSET Q
  <2>1. I \in SUBSET DOMAIN E /\ Has(p, I)
    BY <1>2 DEF Has
  <2>2. /\ \A types : Of(E, I, types) \in SUBSET Q
        /\ Inflows(E, I) \in SUBSET Q /\ Outflows(E, I) \in SUBSET Q
    BY DEF Of, Inflows, Outflows
  <2> HIDE DEF Q
  <2> QED
    BY <2>1, <2>2, SumsAgree, PlacesAgree
<1>5. largeR = From(p, large) /\ large \in SUBSET Q
  <2>1. Outflows(R, WR) = From(p, Out) /\ Out \in SUBSET Q
    BY <1>2, <1>3, <1>4
  <2> HIDE DEF Out, Q, WR
  <2> QED
    BY <1>1, <2>1 DEF From
<1>6. weekendR = From(p, weekend) /\ weekend \in SUBSET Q
  <2> HIDE DEF W, Q, WR
  <2> QED
    BY <1>1, <1>2, <1>3 DEF From
<1>7. Has(p, W)
  BY <1>2, <1>4
<1>8. Buckets(R) = Buckets(E)
  BY <1>7, BucketsAgree
<1>9. Cadence(R) = Cadence(E)
  BY <1>7, CadenceAgrees
<1> DEFINE P == PosInflows(E)
           PR == PosInflows(R)
<1>10. PR = From(p, P) /\ P \in SUBSET Q
  <2> HIDE DEF Q, W, WR
  <2> QED
    BY <1>2, <1>3, <1>4 DEF PosInflows, W, WR
<1> HIDE DEF W, Q, WR, QR, large, largeR, weekend, weekendR, P, PR
<1>11. Volatility(R) = Volatility(E) /\ Drawdown(R) = Drawdown(E)
  BY <1>8 DEF Volatility, Drawdown
<1>12. /\ Cardinality(PR) = Cardinality(P)
       /\ Total(R, PR) = Total(E, P)
       /\ Squares(R, PR) = Squares(E, P)
  BY <1>4, <1>10
<1>13. PR = {} <=> P = {}
  BY <1>4, <1>10 DEF From, Has
<1>14. Inconsistency(R) = Inconsistency(E)
  BY <1>12, <1>13 DEF Inconsistency, P, PR
<1>15. /\ Total(R, Inflows(R, WR)) = Total(E, Inflows(E, W))
       /\ Turnover(R, Outflows(R, WR)) = Turnover(E, Outflows(E, W))
       /\ Turnover(R, Of(R, WR, {"REPAYMENT"})) = Turnover(E, Of(E, W, {"REPAYMENT"}))
       /\ Total(R, Of(R, Inflows(R, WR), {"BANK_DEPOSIT"}))
            = Total(E, Of(E, Inflows(E, W), {"BANK_DEPOSIT"}))
       /\ Cardinality(WR) = Cardinality(W)
       /\ \A type : Cardinality(Of(R, QR, {type})) = Cardinality(Of(E, Q, {type}))
  <2>1. W \in SUBSET Q /\ Q \in SUBSET Q
    BY <1>2
  <2>2. Inflows(R, WR) = From(p, Inflows(E, W)) /\ Inflows(E, W) \in SUBSET Q
    BY <1>3, <1>4, <2>1
  <2>3. Outflows(R, WR) = From(p, Outflows(E, W)) /\ Outflows(E, W) \in SUBSET Q
    BY <1>3, <1>4, <2>1
  <2>4. \A types : /\ Of(R, WR, types) = From(p, Of(E, W, types)) /\ Of(E, W, types) \in SUBSET Q
                  /\ Of(R, QR, types) = From(p, Of(E, Q, types)) /\ Of(E, Q, types) \in SUBSET Q
    BY <1>3, <1>4, <2>1
  <2>5. \A types : /\ Of(R, Inflows(R, WR), types) = From(p, Of(E, Inflows(E, W), types))
                  /\ Of(E, Inflows(E, W), types) \in SUBSET Q
    BY <1>4, <2>2
  <2>6. /\ Total(R, Inflows(R, WR)) = Total(E, Inflows(E, W))
        /\ Turnover(R, Outflows(R, WR)) = Turnover(E, Outflows(E, W))
    BY <1>4, <2>2, <2>3
  <2>7. Turnover(R, Of(R, WR, {"REPAYMENT"})) = Turnover(E, Of(E, W, {"REPAYMENT"}))
    BY <1>4, <2>4
  <2>8. Total(R, Of(R, Inflows(R, WR), {"BANK_DEPOSIT"}))
            = Total(E, Of(E, Inflows(E, W), {"BANK_DEPOSIT"}))
    BY <1>4, <2>5
  <2>9. Cardinality(WR) = Cardinality(W)
    BY <1>3, <1>4, <2>1
  <2>10. \A type : Cardinality(Of(R, QR, {type})) = Cardinality(Of(E, Q, {type}))
    BY <1>4, <2>4
  <2> QED
    BY <2>6, <2>7, <2>8, <2>9, <2>10
<1>16. CashOnly(R) = CashOnly(E)
  BY <1>15 DEF CashOnly, W, WR
<1>17. Weekend(R) = Weekend(E)
  <2>1. Cardinality(weekendR) = Cardinality(weekend)
    BY <1>4, <1>6
  <2> QED
    BY <1>15, <2>1 DEF Weekend, W, WR, weekend, weekendR
<1>18. Cardinality(largeR) = Cardinality(large)
  BY <1>4, <1>5
<1> DEFINE U == Vector(R)
           V == Vector(E)
<1>19. /\ U = [f \in Feature |-> U[f]] /\ V = [f \in Feature |-> V[f]]
  BY VectorShape
<1>20. \A f \in Feature \ {"days_since_last_inflow"} : U[f] = V[f]
  <2>1. /\ U.cashflow_volatility_30d = V.cashflow_volatility_30d
        /\ U.pos_inflow_consistency_score = V.pos_inflow_consistency_score
        /\ U.max_drawdown_pct = V.max_drawdown_pct
        /\ U.cash_only_inflow_ratio = V.cash_only_inflow_ratio
        /\ U.pos_inflow_cadence_days = V.pos_inflow_cadence_days
        /\ U.weekend_activity_ratio = V.weekend_activity_ratio
    BY <1>9, <1>11, <1>14, <1>16, <1>17 DEF Vector
  <2>2. /\ U.nsf_event_count_90d = V.nsf_event_count_90d
        /\ U.overdraft_count_90d = V.overdraft_count_90d
        /\ U.missed_payment_count_90d = V.missed_payment_count_90d
        /\ U.event_count_30d = V.event_count_30d
    BY <1>15 DEF Vector, W, WR, Q, QR
  <2>3. /\ U.avg_balance_30d = V.avg_balance_30d
        /\ U.inflow_outflow_ratio = V.inflow_outflow_ratio
        /\ U.inflow_total_30d = V.inflow_total_30d
        /\ U.outflow_total_30d = V.outflow_total_30d
        /\ U.repayment_to_principal_ratio = V.repayment_to_principal_ratio
    BY <1>15 DEF Vector, W, WR, Q, QR
  <2>4. U.avg_pos_inflow_amt = V.avg_pos_inflow_amt
    BY <1>12 DEF Vector, P, PR
  <2>5. U.large_outflow_count_30d = V.large_outflow_count_30d
    BY <1>18 DEF Vector, W, WR, large, largeR, Out
  <2> HIDE DEF U, V
  <2> QED
    BY <2>1, <2>2, <2>3, <2>4, <2>5 DEF Feature
<1> HIDE DEF U, V
<1>21. ASSUME NEW x PROVE [U EXCEPT !.days_since_last_inflow = x] = [V EXCEPT !.days_since_last_inflow = x]
  BY <1>19, <1>20
<1> QED
  BY <1>21 DEF U, V

-----------------------------------------------------------------------------
(* What the ratios are between. *)

(* Of amounts that are positive, some sum to a part of what all do. *)
LEMMA PartOfTotal ==
  ASSUME NEW E \in Seq(Event), NEW I \in SUBSET Inflows(E, DOMAIN E), NEW J \in SUBSET I
  PROVE  /\ Total(E, I) \in Int /\ Total(E, J) \in Int
         /\ 0 <= Total(E, J) /\ Total(E, J) <= Total(E, I)
         /\ I # {} => Total(E, I) > 0
<1> DEFINE F == [i \in I |-> E[i].amount]
           H == [i \in J |-> E[i].amount]
           G == [i \in I |-> IF i \in J THEN E[i].amount ELSE 0]
           zero == [i \in I |-> 0]
<1>1. I \in SUBSET DOMAIN E /\ J \in SUBSET I
  BY DEF Inflows
<1>2. IsFiniteSet(I) /\ IsFiniteSet(J)
  BY <1>1, PlacesFinite
<1>3. \A i \in I : E[i].amount \in Int /\ E[i].amount > 0
  BY <1>1, EventShape DEF Inflows
<1>4. /\ Total(E, I) = SumFunctionOnSet(F, I) /\ Total(E, J) = SumFunctionOnSet(H, J)
  <2>1. DOMAIN F = I /\ DOMAIN H = J
    OBVIOUS
  <2>2. Total(E, I) = SumFunction(F) /\ Total(E, J) = SumFunction(H)
    BY DEF Total
  <2> HIDE DEF F, H
  <2> QED
    BY <2>1, <2>2 DEF SumFunction
<1>5. /\ \A i \in I : F[i] \in Int /\ G[i] \in Int /\ G[i] <= F[i] /\ F[i] > 0 /\ zero[i] = 0
      /\ \A i \in J : H[i] \in Int /\ H[i] >= 0 /\ G[i] = H[i]
      /\ \A i \in I \ J : G[i] = 0
  BY <1>1, <1>3
<1> HIDE DEF F, G, H, zero
<1>6. SumFunctionOnSet(F, I) \in Int /\ SumFunctionOnSet(H, J) \in Int
  BY <1>2, <1>5, SumType
<1>7. SumFunctionOnSet(H, J) >= 0
  BY <1>2, <1>5, SumSign
<1>8. SumFunctionOnSet(H, J) = SumFunctionOnSet(G, J)
  BY <1>2, <1>5, SumSame
<1>9. SumFunctionOnSet(G, J) = SumFunctionOnSet(G, I)
  BY <1>2, <1>5, SumOfSome
<1>10. SumFunctionOnSet(G, I) <= SumFunctionOnSet(F, I)
  BY <1>2, <1>5, SumGrows
<1>11. ASSUME I # {} PROVE SumFunctionOnSet(F, I) > 0
  <2>1. PICK y \in I : TRUE
    BY <1>11
  <2>2. zero[y] < F[y] /\ \A i \in I : zero[i] \in Int /\ F[i] \in Int /\ zero[i] <= F[i]
    BY <1>5
  <2>3. SumFunctionOnSet(zero, I) < SumFunctionOnSet(F, I)
    BY <1>2, <2>2, SumGrowsStrictly
  <2>4. SumFunctionOnSet(zero, I) = 0
    BY <1>2, <1>5, SumOfZeros
  <2> QED
    BY <1>6, <2>3, <2>4
<1> QED
  BY <1>4, <1>6, <1>7, <1>8, <1>9, <1>10, <1>11

(* From zero to one. *)
Share(r) == 0 <= r[1] /\ r[1] <= r[2] /\ r[2] > 0

(* The clamp is needed from above only: the variance is never negative. *)
LEMMA InconsistencyIsShare ==
  ASSUME NEW E \in Seq(Event)
  PROVE  Share(Inconsistency(E))
<1> DEFINE P == PosInflows(E)
           n == Cardinality(P)
           sum == Total(E, P)
           squares == Squares(E, P)
           spread == n * squares - sum * sum
<1>1. CASE P = {}
  BY <1>1 DEF Inconsistency, Share
<1>2. CASE P # {}
  <2>1. P \in SUBSET Inflows(E, DOMAIN E) /\ P \in SUBSET DOMAIN E
    BY DEF PosInflows, Of, Inflows, Window
  <2>2. IsFiniteSet(P) /\ \A i \in P : E[i].amount \in Int
    BY <2>1, PlacesFinite, EventShape
  <2>3. sum \in Int /\ sum > 0
    BY <1>2, <2>1, PartOfTotal
  <2>4. n \in Int
    BY <2>2, FS_CardinalityType
  <2>5. squares \in Int /\ sum * sum <= n * squares
    <3> DEFINE F == [i \in P |-> E[i].amount]
               Q == [i \in P |-> E[i].amount * E[i].amount]
    <3>1. \A i \in P : F[i] \in Int /\ Q[i] \in Int /\ Q[i] = F[i] * F[i]
      BY <2>2
    <3>2. DOMAIN F = P /\ DOMAIN Q = P /\ sum = SumFunction(F) /\ squares = SumFunction(Q)
      BY DEF Total, Squares
    <3> HIDE DEF F, Q, P, sum, squares
    <3>3. sum = SumFunctionOnSet(F, P) /\ squares = SumFunctionOnSet(Q, P)
      BY <3>2 DEF SumFunction
    <3>4. SumFunctionOnSet(Q, P) \in Int
      BY <2>2, <3>1, SumType
    <3>5. SumFunctionOnSet(F, P) * SumFunctionOnSet(F, P)
            <= Cardinality(P) * SumFunctionOnSet(Q, P)
      BY <2>2, <3>1, CauchySchwarz
    <3> QED
      BY <3>3, <3>4, <3>5
  <2>6. Inconsistency(E) = <<IF spread < sum * sum THEN spread ELSE sum * sum, sum * sum>>
    BY <1>2 DEF Inconsistency
  <2> HIDE DEF P, n, sum, squares
  <2> DEFINE a == n * squares
             b == sum * sum
  <2>7. a \in Int /\ b \in Int /\ b > 0 /\ b <= a
    BY <2>3, <2>4, <2>5
  <2>8. Inconsistency(E) = <<IF a - b < b THEN a - b ELSE b, b>>
    BY <2>6
  <2> HIDE DEF a, b
  <2> QED
    BY <2>7, <2>8 DEF Share
<1> QED
  BY <1>1, <1>2

LEMMA CashOnlyIsShare ==
  ASSUME NEW E \in Seq(Event)
  PROVE  Share(CashOnly(E))
<1> DEFINE I == Inflows(E, Window(E, 30))
           J == Of(E, I, {"BANK_DEPOSIT"})
<1>1. I \in SUBSET Inflows(E, DOMAIN E) /\ J \in SUBSET I
  BY DEF Of, Inflows, Window
<1>2. CashOnly(E) = OverZero(Total(E, J), Total(E, I))
  BY DEF CashOnly
<1> HIDE DEF I, J
<1>3. /\ Total(E, I) \in Int /\ Total(E, J) \in Int
      /\ 0 <= Total(E, J) /\ Total(E, J) <= Total(E, I)
  BY <1>1, PartOfTotal
<1> QED
  BY <1>2, <1>3 DEF OverZero, Share

LEMMA WeekendIsShare ==
  ASSUME NEW E \in Seq(Event)
  PROVE  Share(Weekend(E))
<1> DEFINE W == Window(E, 30)
           D == {i \in W : (E[i].ts \div PerDay) % 7 \in {5, 6}}
<1>1. W \in SUBSET DOMAIN E /\ D \in SUBSET W
  BY DEF Window
<1>2. Weekend(E) = OverZero(Cardinality(D), Cardinality(W))
  BY DEF Weekend
<1> HIDE DEF W, D
<1>3. IsFiniteSet(W) /\ IsFiniteSet(D)
  BY <1>1, PlacesFinite
<1>4. Cardinality(W) \in Nat /\ Cardinality(D) \in Nat /\ Cardinality(D) <= Cardinality(W)
  BY <1>1, <1>3, FS_CardinalityType, FS_Subset
<1> QED
  BY <1>2, <1>4 DEF OverZero, Share

(* A mean gap is a length of time, from two events on. *)
LEMMA CadenceIsLength ==
  ASSUME NEW E \in Seq(Event), asOf \in Int
  PROVE  Cadence(E)[1] >= 0 /\ Cadence(E)[2] > 0
<1> DEFINE P == Of(E, Window(E, 30), {"POS_INFLOW"})
           n == Cardinality(P)
<1>1. CASE Cardinality(PosInflows(E)) >= 2
  <2>1. n \in Nat /\ n >= 2
    BY <1>1, CadenceSpans
  <2>2. PICK a, b \in P :
          /\ \A i \in P : E[a].ts <= E[i].ts /\ E[i].ts <= E[b].ts
          /\ Cadence(E) = <<E[b].ts - E[a].ts, PerDay * (n - 1)>>
    BY <1>1, CadenceSpans
  <2>3. P \in SUBSET DOMAIN E
    BY DEF Of, Window
  <2>4. E[a].ts \in Int /\ E[b].ts \in Int
    BY <2>3, EventShape
  <2>5. E[a].ts <= E[b].ts
    BY <2>2
  <2> HIDE DEF P, n
  <2>6. PerDay * (n - 1) > 0
    BY <2>1, FeaturesAssumption
  <2> QED
    BY <2>2, <2>4, <2>5, <2>6
<1>2. CASE ~ (Cardinality(PosInflows(E)) >= 2)
  BY <1>2 DEF Cadence
<1> QED
  BY <1>1, <1>2

-----------------------------------------------------------------------------
(* The events of the loan. *)

(* Events are events and as_of is a time. *)
THEOREM TypeCorrect == Spec => []TypeOK
<1>1. Init => TypeOK
  BY FeaturesAssumption DEF Init, TypeOK
<1>2. TypeOK /\ [Next]_vars => TypeOK'
  <2> SUFFICES ASSUME TypeOK, [Next]_vars PROVE TypeOK'
    OBVIOUS
  <2>1. CASE Arrive
    <3>1. PICK e \in Event : events' = Append(events, e)
      BY <2>1 DEF Arrive
    <3>2. Append(events, e) \in Seq(Event)
      BY DEF TypeOK
    <3> QED
      BY <2>1, <3>1, <3>2 DEF Arrive, TypeOK
  <2>2. CASE DayPasses
    BY <2>2, FeaturesAssumption DEF DayPasses, TypeOK
  <2>3. CASE UNCHANGED vars
    BY <2>3 DEF vars, TypeOK
  <2> QED
    BY <2>1, <2>2, <2>3 DEF Next
<1> QED
  BY <1>1, <1>2, PTL DEF Spec

(* A listing picks events. *)
LEMMA ListingPicks ==
  ASSUME TypeOK, NEW n \in Nat, NEW p \in Listings(n)
  PROVE  Picks(Listed(p), events, p) /\ DOMAIN p = 1 .. n
<1>1. p \in [1 .. n -> DOMAIN events] /\ \A k, l \in 1 .. n : p[k] = p[l] => k = l
  BY DEF Listings, IsInjective
<1>2. events \in Seq(Event) /\ \A i \in DOMAIN events : events[i] \in Event
  BY DEF TypeOK
<1>3. Listed(p) = [k \in 1 .. n |-> events[p[k]]]
  BY <1>1 DEF Listed
<1>4. Listed(p) \in [1 .. n -> Event] /\ DOMAIN Listed(p) = 1 .. n
  BY <1>1, <1>2, <1>3
<1>5. Listed(p) \in Seq(Event)
  BY <1>4
<1> QED
  BY <1>1, <1>2, <1>3, <1>4, <1>5 DEF Picks

(* The order in which the database returns the events does not matter.     *)
THEOREM OrderIsFree == Spec => []OrderDoesNotMatter
<1>1. TypeOK => OrderDoesNotMatter
  <2> SUFFICES ASSUME TypeOK, NEW p \in Listings(Len(events))
               PROVE  Vector(Listed(p)) = Vector(events)
    BY DEF OrderDoesNotMatter
  <2> DEFINE n == Len(events)
             R == Listed(p)
             U == Vector(R)
             V == Vector(events)
  <2>1. n \in Nat /\ DOMAIN events = 1 .. n /\ asOf \in Int
    BY DEF TypeOK
  <2>2. Picks(R, events, p) /\ DOMAIN p = 1 .. n
    BY <2>1, ListingPicks
  <2>3. Has(p, DOMAIN events)
    <3> DEFINE S == 1 .. n
    <3>1. p \in [S -> S] /\ \A k, l \in S : p[k] = p[l] => k = l
      BY <2>1 DEF Listings, IsInjective
    <3>2. IsFiniteSet(S)
      BY <2>1, FS_Interval
    <3> HIDE DEF S
    <3>3. p \in Injection(S, S)
      BY <3>1 DEF Injection, IsInjective
    <3>4. p \in Surjection(S, S)
      BY <3>2, <3>3, FS_Injection
    <3>5. \A i \in S : \E k \in S : p[k] = i
      BY <3>4 DEF Surjection
    <3> QED
      BY <2>1, <2>2, <3>5 DEF Has, S
  <2>4. Has(p, Window(events, 90))
    BY <2>3 DEF Has, Window
  <2>5. Recency(R) = Recency(events)
    BY <2>2, <2>3, RecencyAgrees
  <2>6. U.days_since_last_inflow = V.days_since_last_inflow
    BY <2>5 DEF Vector
  <2>7. U = [f \in Feature |-> U[f]] /\ V = [f \in Feature |-> V[f]]
    BY VectorShape
  <2>8. [U EXCEPT !.days_since_last_inflow = 0] = [V EXCEPT !.days_since_last_inflow = 0]
    <3> HIDE DEF R, n
    <3> QED
      BY <2>1, <2>2, <2>4, VectorAgrees
  <2> HIDE DEF U, V
  <2>9. \A f \in Feature \ {"days_since_last_inflow"} : U[f] = V[f]
    <3> SUFFICES ASSUME NEW f \in Feature, f # "days_since_last_inflow" PROVE U[f] = V[f]
      OBVIOUS
    <3>1. /\ [U EXCEPT !.days_since_last_inflow = 0][f] = U[f]
          /\ [V EXCEPT !.days_since_last_inflow = 0][f] = V[f]
      BY <2>7
    <3> QED
      BY <2>8, <3>1
  <2>10. \A f \in Feature : U[f] = V[f]
    BY <2>6, <2>9
  <2> QED
    BY <2>7, <2>10 DEF U, V
<1> QED
  BY <1>1, TypeCorrect, PTL

(* Events that are older than 90 days leave no trace but the days since    *)
(* the last inflow.                                                        *)
THEOREM OldEventsLeaveNoTrace == Spec => []OldEventsForgotten
<1>1. TypeOK => OldEventsForgotten
  <2> SUFFICES ASSUME TypeOK, NEW n \in 0 .. Len(events), NEW p \in Listings(n),
                      {i \in DOMAIN events : events[i].ts >= asOf - 90 * PerDay}
                        \subseteq {p[k] : k \in 1 .. n}
               PROVE  [Vector(Listed(p)) EXCEPT !.days_since_last_inflow = 0]
                        = [Vector(events) EXCEPT !.days_since_last_inflow = 0]
    BY DEF OldEventsForgotten
  <2>1. Picks(Listed(p), events, p) /\ DOMAIN p = 1 .. n
    BY ListingPicks
  <2>2. Has(p, Window(events, 90))
    BY <2>1 DEF Has, Window
  <2>3. asOf \in Int
    BY DEF TypeOK
  <2> DEFINE R == Listed(p)
  <2>4. Picks(R, events, p)
    BY <2>1
  <2> HIDE DEF R
  <2>5. [Vector(R) EXCEPT !.days_since_last_inflow = 0]
          = [Vector(events) EXCEPT !.days_since_last_inflow = 0]
    BY <2>2, <2>3, <2>4, VectorAgrees
  <2> QED
    BY <2>5 DEF R
<1> QED
  BY <1>1, TypeCorrect, PTL

(* The shares are between zero and one, and the cadence is a length of     *)
(* time, whatever the signs and sizes of the amounts.                      *)
THEOREM SharesAreShares == Spec => []SharesInRange
<1>1. TypeOK => SharesInRange
  <2> SUFFICES ASSUME TypeOK PROVE SharesInRange
    OBVIOUS
  <2> DEFINE V == Vector(events)
  <2>1. events \in Seq(Event) /\ asOf \in Int
    BY DEF TypeOK
  <2>2. /\ V.pos_inflow_consistency_score = Inconsistency(events)
        /\ V.cash_only_inflow_ratio = CashOnly(events)
        /\ V.weekend_activity_ratio = Weekend(events)
        /\ V.pos_inflow_cadence_days = Cadence(events)
    BY DEF Vector
  <2>3. /\ Share(Inconsistency(events)) /\ Share(CashOnly(events)) /\ Share(Weekend(events))
        /\ Cadence(events)[1] >= 0 /\ Cadence(events)[2] > 0
    BY <2>1, InconsistencyIsShare, CashOnlyIsShare, WeekendIsShare, CadenceIsLength
  <2> HIDE DEF V
  <2>4. /\ Share(V.pos_inflow_consistency_score)
        /\ Share(V.cash_only_inflow_ratio)
        /\ Share(V.weekend_activity_ratio)
        /\ V.pos_inflow_cadence_days[1] >= 0 /\ V.pos_inflow_cadence_days[2] > 0
    BY <2>2, <2>3
  <2> QED
    BY <2>4 DEF SharesInRange, Share, V
<1> QED
  BY <1>1, TypeCorrect, PTL

=============================================================================
