---------------------------- MODULE SumTheorems -----------------------------
(***************************************************************************)
(* What sums over finite sets come to, and how a finite set is listed: the *)
(* lemmas that the proofs about curves, shares and features share.         *)
(*                                                                         *)
(* They are proved by induction over the subsets of the set: of the        *)
(* subsets that refute the claim there would be a smallest one             *)
(* (SmallestSubset), and it is refuted by taking an element out of it.  A  *)
(* sum is the fold of the Functions module, which takes its elements out   *)
(* in the order of Pick.                                                   *)
(***************************************************************************)
EXTENDS Integers, Sequences, FiniteSets, Functions,
        FiniteSetTheorems, SequenceTheorems, WellFoundedInduction, TLAPS

(* The element that a fold takes out of s first. *)
Pick(s) == CHOOSE x \in s : TRUE

(* It is one of s. *)
LEMMA PickIn == \A s : s # {} => Pick(s) \in s
  BY DEF Pick

(* Every family of subsets of a finite set has a smallest member. *)
LEMMA SmallestSubset ==
  ASSUME NEW S, IsFiniteSet(S), NEW B \in SUBSET SUBSET S, B # {}
  PROVE  \E T \in B : \A U \in B : U \subseteq T => U = T
<1>1. IsWellFoundedOn(StrictSubsetOrdering(S), SUBSET S)
  BY FS_StrictSubsetOrderingWellFounded, FS_FiniteSubsetsOfFinite
<1>2. PICK T \in B : \A U \in B : ~ (<<U, T>> \in StrictSubsetOrdering(S))
  BY <1>1, WFMin
<1>3. ASSUME NEW U \in B, U \subseteq T PROVE U = T
  BY <1>2, <1>3 DEF StrictSubsetOrdering
<1> QED
  BY <1>3

(* g[s], for all subsets s of T, by recursion over what is left. *)
Solves(g, T, base, H) ==
    \A s \in SUBSET T : g[s] = IF s = {} THEN base ELSE H[<<s, g[s \ {Pick(s)}]>>]

(* Two solutions agree wherever both are defined. *)
LEMMA RecursionUnique ==
  ASSUME NEW S, IsFiniteSet(S), NEW base, NEW H, NEW T \in SUBSET S, NEW U \in SUBSET S,
         NEW g, NEW h, Solves(g, T, base, H), Solves(h, U, base, H)
  PROVE  \A s \in SUBSET T : s \in SUBSET U => g[s] = h[s]
<1> DEFINE B == {s \in SUBSET T : s \in SUBSET U /\ g[s] # h[s]}
<1> SUFFICES ASSUME B # {} PROVE FALSE
  OBVIOUS
<1>1. B \in SUBSET SUBSET S
  OBVIOUS
<1>2. PICK s \in B : \A u \in B : u \subseteq s => u = s
  <2> HIDE DEF B
  <2> QED
    BY <1>1, SmallestSubset
<1>3. s # {}
  BY DEF Solves
<1>4. Pick(s) \in s
  BY <1>3, PickIn
<1>5. s \ {Pick(s)} \notin B
  BY <1>2, <1>4
<1>6. g[s \ {Pick(s)}] = h[s \ {Pick(s)}]
  BY <1>5
<1> QED
  BY <1>3, <1>6 DEF Solves

(* There is a solution: the smallest subset without one would get one from *)
(* those of its own subsets.                                               *)
LEMMA RecursionExists ==
  ASSUME NEW S, IsFiniteSet(S), NEW V, NEW base \in V, NEW H \in [(SUBSET S) \X V -> V]
  PROVE  \E g \in [SUBSET S -> V] : Solves(g, S, base, H)
<1> DEFINE B == {T \in SUBSET S : ~ \E g \in [SUBSET T -> V] : Solves(g, T, base, H)}
           G(T) == CHOOSE g \in [SUBSET T -> V] : Solves(g, T, base, H)
<1> SUFFICES ASSUME B # {} PROVE FALSE
  OBVIOUS
<1>0. B \in SUBSET SUBSET S
  OBVIOUS
<1>1. PICK T \in B : \A U \in B : U \subseteq T => U = T
  <2> HIDE DEF B
  <2> QED
    BY <1>0, SmallestSubset
<1>2. ASSUME NEW U \in SUBSET T, U # T
      PROVE  G(U) \in [SUBSET U -> V] /\ Solves(G(U), U, base, H)
  <2>1. \E g \in [SUBSET U -> V] : Solves(g, U, base, H)
    BY <1>1, <1>2
  <2> QED
    BY <2>1
<1> HIDE DEF G
<1>3. ASSUME NEW U \in SUBSET T, U # T, NEW W \in SUBSET U
      PROVE  G(U)[W] = G(W)[W]
  <2>1. W \in SUBSET T /\ W # T /\ W \in SUBSET S /\ U \in SUBSET S
    BY <1>3
  <2>2. Solves(G(U), U, base, H) /\ Solves(G(W), W, base, H)
    BY <1>2, <1>3, <2>1
  <2> HIDE DEF B
  <2> QED
    BY <2>1, <2>2, RecursionUnique
<1> DEFINE last == IF T = {} THEN base ELSE H[<<T, G(T \ {Pick(T)})[T \ {Pick(T)}]>>]
           g == [s \in SUBSET T |-> IF s = T THEN last ELSE G(s)[s]]
<1>4. g \in [SUBSET T -> V]
  <2>0. \A U \in SUBSET T : U # T => G(U)[U] \in V
    BY <1>2
  <2>1. last \in V
    <3>1. CASE T # {}
      <4>1. T \ {Pick(T)} # T /\ T \ {Pick(T)} \in SUBSET T
        BY <3>1, PickIn
      <4>2. G(T \ {Pick(T)})[T \ {Pick(T)}] \in V
        BY <4>1, <2>0
      <4>3. <<T, G(T \ {Pick(T)})[T \ {Pick(T)}]>> \in (SUBSET S) \X V
        BY <4>2
      <4> QED
        BY <3>1, <4>3
    <3> QED
      BY <3>1
  <2> HIDE DEF last
  <2> QED
    BY <2>0, <2>1
<1>5. ASSUME NEW s \in SUBSET T
      PROVE  g[s] = IF s = {} THEN base ELSE H[<<s, g[s \ {Pick(s)}]>>]
  <2>1. CASE s = T
    <3>1. s # {} => s \ {Pick(s)} # T /\ s \ {Pick(s)} \in SUBSET T
      BY <2>1, PickIn
    <3> QED
      BY <2>1, <3>1
  <2>2. CASE s # T
    <3>1. s \ {Pick(s)} # T /\ s \ {Pick(s)} \in SUBSET T
      BY <2>2
    <3>2. g[s] = G(s)[s] /\ g[s \ {Pick(s)}] = G(s \ {Pick(s)})[s \ {Pick(s)}]
      BY <2>2, <3>1
    <3>3. G(s)[s \ {Pick(s)}] = G(s \ {Pick(s)})[s \ {Pick(s)}]
      BY <1>3, <2>2
    <3>4. G(s)[s] = IF s = {} THEN base ELSE H[<<s, G(s)[s \ {Pick(s)}]>>]
      BY <1>2, <2>2 DEF Solves
    <3> HIDE DEF g
    <3> QED
      BY <3>2, <3>3, <3>4
  <2> QED
    BY <2>1, <2>2
<1> HIDE DEF g
<1>6. Solves(g, T, base, H)
  BY <1>5 DEF Solves
<1> QED
  BY <1>1, <1>4, <1>6

(* g[s] is the sum of F over s, for all subsets s of S. *)
AddsUp(g, F, S) ==
    /\ g \in [SUBSET S -> Int]
    /\ \A s \in SUBSET S : g[s] = IF s = {} THEN 0 ELSE F[Pick(s)] + g[s \ {Pick(s)}]

(* The fold of the Functions module is such a sum. *)
LEMMA SumUnfolds ==
  ASSUME NEW S, IsFiniteSet(S), NEW F, \A x \in S : F[x] \in Int
  PROVE  \E g : AddsUp(g, F, S) /\ SumFunctionOnSet(F, S) = g[S]
<1> DEFINE H == [p \in (SUBSET S) \X Int |-> IF p[1] = {} THEN 0 ELSE F[Pick(p[1])] + p[2]]
           Eq(g) == g = [s \in SUBSET S |-> IF s = {} THEN 0 ELSE F[Pick(s)] + g[s \ {Pick(s)}]]
           it == CHOOSE g : Eq(g)
<1>1. H \in [(SUBSET S) \X Int -> Int]
  BY PickIn
<1>2. PICK g \in [SUBSET S -> Int] : Solves(g, S, 0, H)
  <2>1. 0 \in Int
    OBVIOUS
  <2> HIDE DEF H
  <2> QED
    BY <1>1, <2>1, RecursionExists, Zenon
<1>3. \A s \in SUBSET S : g[s] = IF s = {} THEN 0 ELSE F[Pick(s)] + g[s \ {Pick(s)}]
  <2> SUFFICES ASSUME NEW s \in SUBSET S, s # {} PROVE g[s] = F[Pick(s)] + g[s \ {Pick(s)}]
    BY <1>2 DEF Solves
  <2>1. <<s, g[s \ {Pick(s)}]>> \in (SUBSET S) \X Int
    OBVIOUS
  <2>2. H[<<s, g[s \ {Pick(s)}]>>] = F[Pick(s)] + g[s \ {Pick(s)}]
    BY <2>1
  <2> HIDE DEF H
  <2> QED
    BY <1>2, <2>2 DEF Solves
<1>4. Eq(g)
  BY <1>3
<1>5. Eq(it)
  <2> HIDE DEF Eq
  <2> QED
    BY <1>4
<1>6. SumFunctionOnSet(F, S) = it[S]
  BY Zenon DEF SumFunctionOnSet, FoldFunctionOnSet, MapThenFoldSet, Pick
<1>7. \A s \in SUBSET S : it[s] = IF s = {} THEN 0 ELSE F[Pick(s)] + it[s \ {Pick(s)}]
  <2> HIDE DEF it
  <2> QED
    BY <1>5
<1> HIDE DEF it
<1> DEFINE B == {s \in SUBSET S : it[s] # g[s]}
<1>8. B = {}
  <2> SUFFICES ASSUME B # {} PROVE FALSE
    OBVIOUS
  <2>1. B \in SUBSET SUBSET S
    OBVIOUS
  <2>2. PICK s \in B : \A u \in B : u \subseteq s => u = s
    <3> HIDE DEF B
    <3> QED
      BY <2>1, SmallestSubset
  <2>3. s # {}
    BY <1>3, <1>7
  <2>4. s \ {Pick(s)} \notin B
    BY <2>2, <2>3, PickIn
  <2> QED
    BY <1>3, <1>7, <2>3, <2>4
<1>9. it[S] = g[S]
  BY <1>8
<1>10. AddsUp(g, F, S)
  BY <1>3 DEF AddsUp
<1> QED
  BY <1>6, <1>9, <1>10

(* The sums over the subsets of S unfold. *)
LEMMA SumOfSubsets ==
  ASSUME NEW S, IsFiniteSet(S), NEW F, \A x \in S : F[x] \in Int
  PROVE  /\ \A T \in SUBSET S : SumFunctionOnSet(F, T) \in Int
         /\ SumFunctionOnSet(F, {}) = 0
         /\ \A T \in SUBSET S : T # {} =>
              SumFunctionOnSet(F, T) = F[Pick(T)] + SumFunctionOnSet(F, T \ {Pick(T)})
<1>1. PICK g : AddsUp(g, F, S)
  BY SumUnfolds
<1>2. ASSUME NEW T \in SUBSET S PROVE SumFunctionOnSet(F, T) = g[T]
  <2>1. IsFiniteSet(T) /\ \A x \in T : F[x] \in Int
    BY FS_Subset
  <2>2. PICK h : AddsUp(h, F, T) /\ SumFunctionOnSet(F, T) = h[T]
    BY <2>1, SumUnfolds
  <2> DEFINE B == {s \in SUBSET T : g[s] # h[s]}
  <2> SUFFICES ASSUME B # {} PROVE FALSE
    BY <2>2
  <2>3. B \in SUBSET SUBSET T
    OBVIOUS
  <2>4. PICK s \in B : \A u \in B : u \subseteq s => u = s
    <3> HIDE DEF B
    <3> QED
      BY <2>1, <2>3, SmallestSubset
  <2>5. s # {}
    BY <1>1, <2>2 DEF AddsUp
  <2>6. s \ {Pick(s)} \notin B
    BY <2>4, <2>5, PickIn
  <2> QED
    BY <1>1, <2>2, <2>5, <2>6 DEF AddsUp
<1>3. \A T \in SUBSET S : T # {} => T \ {Pick(T)} \in SUBSET S
  OBVIOUS
<1> QED
  BY <1>1, <1>2, <1>3 DEF AddsUp

(* It does not matter which element is taken out first. *)
LEMMA SumTakesOut ==
  ASSUME NEW S, IsFiniteSet(S), NEW F, \A x \in S : F[x] \in Int, NEW x \in S
  PROVE  SumFunctionOnSet(F, S) = F[x] + SumFunctionOnSet(F, S \ {x})
<1> DEFINE Sum(T) == SumFunctionOnSet(F, T)
           B == {T \in SUBSET S : \E y \in T : Sum(T) # F[y] + Sum(T \ {y})}
<1> SUFFICES ASSUME B # {} PROVE FALSE
  OBVIOUS
<1>1. /\ \A T \in SUBSET S : Sum(T) \in Int
      /\ \A T \in SUBSET S : T # {} => Sum(T) = F[Pick(T)] + Sum(T \ {Pick(T)})
  BY SumOfSubsets
<1> HIDE DEF Sum
<1>2. PICK T \in B : \A U \in B : U \subseteq T => U = T
  <2>1. B \in SUBSET SUBSET S
    OBVIOUS
  <2> HIDE DEF B
  <2> QED
    BY <2>1, SmallestSubset
<1>3. PICK y \in T : Sum(T) # F[y] + Sum(T \ {y})
  OBVIOUS
<1> DEFINE p == Pick(T)
<1>4. p \in T /\ Sum(T) = F[p] + Sum(T \ {p}) /\ p # y
  BY <1>1, <1>3, PickIn
<1> HIDE DEF p
<1>5. T \ {p} \notin B /\ T \ {y} \notin B
  BY <1>2, <1>3, <1>4
<1> DEFINE R == T \ {p, y}
<1>6. Sum(T \ {p}) = F[y] + Sum(R)
  <2>1. (T \ {p}) \ {y} = R
    OBVIOUS
  <2> QED
    BY <1>3, <1>4, <1>5, <2>1
<1>7. Sum(T \ {y}) = F[p] + Sum(R)
  <2>1. (T \ {y}) \ {p} = R
    OBVIOUS
  <2> QED
    BY <1>3, <1>4, <1>5, <2>1
<1>8. F[y] \in Int /\ F[p] \in Int /\ Sum(R) \in Int
  BY <1>1, <1>3, <1>4
<1> HIDE DEF B, R
<1> QED
  BY <1>3, <1>4, <1>6, <1>7, <1>8

(* A sum is an integer, and 0 if it is empty. *)
LEMMA SumType ==
  ASSUME NEW S, IsFiniteSet(S), NEW F, \A x \in S : F[x] \in Int
  PROVE  SumFunctionOnSet(F, S) \in Int /\ SumFunctionOnSet(F, {}) = 0
  BY SumOfSubsets

(* A sum grows with its terms. *)
LEMMA SumGrows ==
  ASSUME NEW S, IsFiniteSet(S), NEW F, NEW G,
         \A x \in S : F[x] \in Int /\ G[x] \in Int /\ F[x] <= G[x]
  PROVE  SumFunctionOnSet(F, S) <= SumFunctionOnSet(G, S)
<1> DEFINE SF(T) == SumFunctionOnSet(F, T)
           SG(T) == SumFunctionOnSet(G, T)
           B == {T \in SUBSET S : ~ (SF(T) <= SG(T))}
<1> SUFFICES ASSUME B # {} PROVE FALSE
  OBVIOUS
<1>1. /\ \A T \in SUBSET S : SF(T) \in Int /\ SG(T) \in Int
      /\ SF({}) = 0 /\ SG({}) = 0
      /\ \A T \in SUBSET S : T # {} => /\ SF(T) = F[Pick(T)] + SF(T \ {Pick(T)})
                                       /\ SG(T) = G[Pick(T)] + SG(T \ {Pick(T)})
  BY SumOfSubsets
<1> HIDE DEF SF, SG
<1>2. PICK T \in B : \A U \in B : U \subseteq T => U = T
  <2>1. B \in SUBSET SUBSET S
    OBVIOUS
  <2> HIDE DEF B
  <2> QED
    BY <2>1, SmallestSubset
<1>3. T # {}
  BY <1>1
<1> DEFINE p == Pick(T)
           R == T \ {p}
<1>4. p \in T /\ p \in S /\ R \in SUBSET S
  BY <1>3, PickIn
<1>5. SF(R) <= SG(R)
  BY <1>2, <1>4
<1>6. SF(T) = F[p] + SF(R) /\ SG(T) = G[p] + SG(R)
  BY <1>1, <1>3
<1>7. /\ SF(R) \in Int /\ SG(R) \in Int
      /\ F[p] \in Int /\ G[p] \in Int /\ F[p] <= G[p]
  BY <1>1, <1>4
<1>8. ~ (SF(T) <= SG(T))
  OBVIOUS
<1> HIDE DEF p, R, B
<1> QED
  BY <1>5, <1>6, <1>7, <1>8

(* It depends on nothing but its terms. *)
LEMMA SumSame ==
  ASSUME NEW S, IsFiniteSet(S), NEW F, NEW G,
         \A x \in S : F[x] \in Int /\ F[x] = G[x]
  PROVE  SumFunctionOnSet(F, S) = SumFunctionOnSet(G, S)
<1>1. SumFunctionOnSet(F, S) <= SumFunctionOnSet(G, S)
  BY SumGrows
<1>2. SumFunctionOnSet(G, S) <= SumFunctionOnSet(F, S)
  BY SumGrows
<1>3. SumFunctionOnSet(F, S) \in Int /\ SumFunctionOnSet(G, S) \in Int
  BY SumType
<1> QED
  BY <1>1, <1>2, <1>3

(* It grows strictly if one term does. *)
LEMMA SumGrowsStrictly ==
  ASSUME NEW S, IsFiniteSet(S), NEW F, NEW G,
         \A x \in S : F[x] \in Int /\ G[x] \in Int /\ F[x] <= G[x],
         NEW y \in S, F[y] < G[y]
  PROVE  SumFunctionOnSet(F, S) < SumFunctionOnSet(G, S)
<1> DEFINE R == S \ {y}
<1>1. IsFiniteSet(R) /\ \A x \in R : F[x] \in Int /\ G[x] \in Int /\ F[x] <= G[x]
  BY FS_RemoveElement
<1>2. /\ SumFunctionOnSet(F, R) <= SumFunctionOnSet(G, R)
      /\ SumFunctionOnSet(F, R) \in Int /\ SumFunctionOnSet(G, R) \in Int
  BY <1>1, SumGrows, SumType
<1>3. /\ SumFunctionOnSet(F, S) = F[y] + SumFunctionOnSet(F, R)
      /\ SumFunctionOnSet(G, S) = G[y] + SumFunctionOnSet(G, R)
  BY SumTakesOut
<1> HIDE DEF R
<1> QED
  BY <1>2, <1>3

(* A factor of all terms is a factor of the sum. *)
LEMMA SumScales ==
  ASSUME NEW S, IsFiniteSet(S), NEW F, NEW G, NEW c \in Int,
         \A x \in S : F[x] \in Int /\ G[x] = c * F[x]
  PROVE  SumFunctionOnSet(G, S) = c * SumFunctionOnSet(F, S)
<1> DEFINE SF(T) == SumFunctionOnSet(F, T)
           SG(T) == SumFunctionOnSet(G, T)
           B == {T \in SUBSET S : SG(T) # c * SF(T)}
<1> SUFFICES ASSUME B # {} PROVE FALSE
  OBVIOUS
<1>1. /\ \A T \in SUBSET S : SF(T) \in Int /\ SG(T) \in Int
      /\ SF({}) = 0 /\ SG({}) = 0
      /\ \A T \in SUBSET S : T # {} => /\ SF(T) = F[Pick(T)] + SF(T \ {Pick(T)})
                                       /\ SG(T) = G[Pick(T)] + SG(T \ {Pick(T)})
  <2>1. \A x \in S : G[x] \in Int
    OBVIOUS
  <2>2. /\ \A T \in SUBSET S : SG(T) \in Int
        /\ SG({}) = 0
        /\ \A T \in SUBSET S : T # {} => SG(T) = G[Pick(T)] + SG(T \ {Pick(T)})
    BY <2>1, SumOfSubsets
  <2>3. /\ \A T \in SUBSET S : SF(T) \in Int
        /\ SF({}) = 0
        /\ \A T \in SUBSET S : T # {} => SF(T) = F[Pick(T)] + SF(T \ {Pick(T)})
    BY SumOfSubsets
  <2> QED
    BY <2>2, <2>3
<1> HIDE DEF SF, SG
<1>2. PICK T \in B : \A U \in B : U \subseteq T => U = T
  <2>1. B \in SUBSET SUBSET S
    OBVIOUS
  <2> HIDE DEF B
  <2> QED
    BY <2>1, SmallestSubset
<1>3. T # {}
  <2>1. c * 0 = 0
    OBVIOUS
  <2> QED
    BY <1>1, <2>1
<1> DEFINE p == Pick(T)
           R == T \ {p}
<1>4. p \in T /\ p \in S /\ R \in SUBSET S
  BY <1>3, PickIn
<1>5. SG(R) = c * SF(R)
  BY <1>2, <1>4
<1>6. SF(T) = F[p] + SF(R) /\ SG(T) = G[p] + SG(R)
  BY <1>1, <1>3
<1>7. SF(R) \in Int /\ F[p] \in Int /\ G[p] = c * F[p]
  BY <1>1, <1>4
<1>8. SG(T) # c * SF(T)
  OBVIOUS
<1> HIDE DEF p, R, B
<1>9. c * (F[p] + SF(R)) = c * F[p] + c * SF(R)
  BY <1>7
<1> QED
  BY <1>5, <1>6, <1>7, <1>8, <1>9

(* Cardinality is the sum of ones. *)
LEMMA SumCounts ==
  ASSUME NEW S, IsFiniteSet(S), NEW F, \A x \in S : F[x] = 1
  PROVE  SumFunctionOnSet(F, S) = Cardinality(S)
<1> DEFINE SF(T) == SumFunctionOnSet(F, T)
           B == {T \in SUBSET S : SF(T) # Cardinality(T)}
<1> SUFFICES ASSUME B # {} PROVE FALSE
  OBVIOUS
<1>1. /\ \A T \in SUBSET S : SF(T) \in Int
      /\ SF({}) = 0
      /\ \A T \in SUBSET S : T # {} => SF(T) = F[Pick(T)] + SF(T \ {Pick(T)})
  <2>1. \A x \in S : F[x] \in Int
    OBVIOUS
  <2> QED
    BY <2>1, SumOfSubsets
<1> HIDE DEF SF
<1>2. PICK T \in B : \A U \in B : U \subseteq T => U = T
  <2>1. B \in SUBSET SUBSET S
    OBVIOUS
  <2> HIDE DEF B
  <2> QED
    BY <2>1, SmallestSubset
<1>3. T # {}
  BY <1>1, FS_EmptySet
<1> DEFINE p == Pick(T)
           R == T \ {p}
<1>4. p \in T /\ p \in S /\ R \in SUBSET S
  BY <1>3, PickIn
<1>5. SF(R) = Cardinality(R)
  BY <1>2, <1>4
<1>6. SF(T) = 1 + SF(R)
  BY <1>1, <1>3, <1>4
<1>7. IsFiniteSet(T) /\ Cardinality(T) \in Nat /\ Cardinality(R) = Cardinality(T) - 1
  <2>1. IsFiniteSet(T)
    BY FS_Subset
  <2> QED
    BY <1>4, <2>1, FS_RemoveElement, FS_CardinalityType
<1>8. SF(T) # Cardinality(T)
  OBVIOUS
<1> HIDE DEF p, R, B
<1> QED
  BY <1>5, <1>6, <1>7, <1>8

(* A sum over S is the sum over its parts: each x of S is in one of them. *)
LEMMA SumOfParts ==
  ASSUME NEW S, IsFiniteSet(S), NEW F, \A x \in S : F[x] \in Int,
         NEW K, IsFiniteSet(K), NEW Part \in [K -> SUBSET S],
         \A x \in S : \E k \in K : x \in Part[k] /\ \A j \in K : x \in Part[j] => j = k,
         NEW G, \A k \in K : G[k] = SumFunctionOnSet(F, Part[k])
  PROVE  SumFunctionOnSet(G, K) = SumFunctionOnSet(F, S)
<1> DEFINE SF(T) == SumFunctionOnSet(F, T)
           Of(T, k) == T \cap Part[k]
           P(T) == [k \in K |-> SF(Of(T, k))]
           SP(T) == SumFunctionOnSet(P(T), K)
           B == {T \in SUBSET S : SP(T) # SF(T)}
<1>1. /\ \A T \in SUBSET S : SF(T) \in Int
      /\ SF({}) = 0
      /\ \A T \in SUBSET S : \A x \in T : SF(T) = F[x] + SF(T \ {x})
  <2>1. ASSUME NEW T \in SUBSET S, NEW x \in T PROVE SF(T) = F[x] + SF(T \ {x})
    <3>1. IsFiniteSet(T) /\ \A y \in T : F[y] \in Int
      BY FS_Subset
    <3> QED
      BY <3>1, SumTakesOut
  <2> QED
    BY <2>1, SumOfSubsets
<1>2. \A T \in SUBSET S : \A k \in K : P(T)[k] \in Int
  BY <1>1
<1> HIDE DEF SF
<1>3. B = {}
  <2> SUFFICES ASSUME B # {} PROVE FALSE
    OBVIOUS
  <2>1. PICK T \in B : \A U \in B : U \subseteq T => U = T
    <3>1. B \in SUBSET SUBSET S
      OBVIOUS
    <3> HIDE DEF B
    <3> QED
      BY <3>1, SmallestSubset
  <2>2. T # {}
    <3> SUFFICES ASSUME T = {} PROVE SP(T) = SF(T)
      OBVIOUS
    <3>1. \A k \in K : P(T)[k] = 0
      BY <1>1
    <3>2. \A k \in K : P(T)[k] \in Int /\ P(T)[k] = 0 * P(T)[k]
      BY <3>1
    <3>3. SP(T) = 0 * SP(T) /\ SP(T) \in Int
      <4> HIDE DEF P
      <4> QED
        BY <3>2, SumScales, SumType
    <3> QED
      BY <1>1, <3>3
  <2> DEFINE p == Pick(T)
             R == T \ {p}
  <2>p. p \in T /\ p \in S /\ R \in SUBSET S
    BY <2>2, PickIn
  <2>k. PICK k \in K : p \in Part[k] /\ \A j \in K : p \in Part[j] => j = k
    BY <2>p
  <2>3. p \in T /\ p \in S /\ R \in SUBSET S /\ k \in K
    BY <2>p
  <2>4. SP(R) = SF(R)
    <3>1. R # T /\ R \subseteq T
      BY <2>3
    <3>2. R \notin B
      <4> HIDE DEF B, R
      <4> QED
        BY <2>1, <3>1
    <3> HIDE DEF SP, R
    <3> QED
      BY <2>3, <3>2
  <2>5. SF(T) = F[p] + SF(R)
    BY <1>1, <2>3
  <2>6. P(T)[k] = F[p] + P(R)[k]
    <3>1. Of(T, k) \ {p} = Of(R, k) /\ p \in Of(T, k) /\ Of(T, k) \in SUBSET S
      BY <2>3, <2>k
    <3>2. SF(Of(T, k)) = F[p] + SF(Of(T, k) \ {p})
      BY <1>1, <3>1
    <3>3. P(T)[k] = SF(Of(T, k)) /\ P(R)[k] = SF(Of(R, k))
      BY <2>3
    <3> QED
      BY <3>1, <3>2, <3>3
  <2>7. \A j \in K \ {k} : P(T)[j] = P(R)[j]
    <3> SUFFICES ASSUME NEW j \in K \ {k} PROVE Of(T, j) = Of(R, j)
      OBVIOUS
    <3> QED
      BY <2>k
  <2> HIDE DEF P, p, R
  <2>8. /\ SP(T) = P(T)[k] + SumFunctionOnSet(P(T), K \ {k})
        /\ SP(R) = P(R)[k] + SumFunctionOnSet(P(R), K \ {k})
    BY <1>2, <2>3, SumTakesOut
  <2>9. IsFiniteSet(K \ {k})
    BY FS_RemoveElement
  <2>10. SumFunctionOnSet(P(T), K \ {k}) = SumFunctionOnSet(P(R), K \ {k})
    BY <1>2, <2>3, <2>7, <2>9, SumSame
  <2>11. /\ P(T)[k] \in Int /\ P(R)[k] \in Int /\ F[p] \in Int
         /\ SumFunctionOnSet(P(R), K \ {k}) \in Int
    BY <1>2, <2>3, <2>9, SumType
  <2>12. SP(T) # SF(T)
    OBVIOUS
  <2> HIDE DEF SP, B
  <2> QED
    BY <2>4, <2>5, <2>6, <2>8, <2>10, <2>11, <2>12
<1>4. SP(S) = SF(S)
  BY <1>3
<1>5. \A k \in K : G[k] \in Int /\ G[k] = P(S)[k]
  <2> USE DEF SF
  <2> QED
    BY <1>1
<1> HIDE DEF P
<1>6. SumFunctionOnSet(G, K) = SP(S)
  BY <1>5, SumSame
<1> QED
  BY <1>4, <1>6 DEF SF

(* The terms of a sum may be called by other names. *)
LEMMA SumReindexed ==
  ASSUME NEW T, IsFiniteSet(T), NEW S, NEW p \in [T -> S],
         \A x, y \in T : p[x] = p[y] => x = y,
         \A s \in S : \E x \in T : p[x] = s,
         NEW F, \A s \in S : F[s] \in Int, NEW G, \A x \in T : G[x] = F[p[x]]
  PROVE  /\ IsFiniteSet(S) /\ Cardinality(S) = Cardinality(T)
         /\ SumFunctionOnSet(G, T) = SumFunctionOnSet(F, S)
<1>1. IsFiniteSet(S) /\ Cardinality(S) = Cardinality(T)
  <2>1. p \in Surjection(T, S) /\ p \in Injection(T, S)
    BY DEF Surjection, Injection, IsInjective
  <2> QED
    BY <2>1, FS_Surjection
<1> DEFINE Part == [s \in S |-> {x \in T : p[x] = s}]
<1>2. Part \in [S -> SUBSET T]
  OBVIOUS
<1>3. \A x \in T : G[x] \in Int
  OBVIOUS
<1>4. \A x \in T : \E s \in S : x \in Part[s] /\ \A r \in S : x \in Part[r] => r = s
  OBVIOUS
<1>5. ASSUME NEW s \in S PROVE F[s] = SumFunctionOnSet(G, Part[s])
  <2>1. PICK x \in T : p[x] = s
    OBVIOUS
  <2>2. Part[s] = {x}
    BY <2>1
  <2>3. IsFiniteSet({x}) /\ \A y \in {x} : G[y] \in Int
    BY <1>3, FS_Singleton
  <2>4. SumFunctionOnSet(G, {x}) = G[x] + SumFunctionOnSet(G, {x} \ {x})
    BY <2>3, SumTakesOut
  <2>5. SumFunctionOnSet(G, {x} \ {x}) = 0
    BY <2>3, SumType
  <2>6. G[x] = F[s] /\ G[x] \in Int
    BY <1>3, <2>1
  <2> HIDE DEF Part
  <2> QED
    BY <2>2, <2>4, <2>5, <2>6
<1> HIDE DEF Part
<1>6. SumFunctionOnSet(F, S) = SumFunctionOnSet(G, T)
  BY <1>1, <1>2, <1>3, <1>4, <1>5, SumOfParts
<1> QED
  BY <1>1, <1>6

(* The terms of two sums may be added one by one. *)
LEMMA SumAdds ==
  ASSUME NEW S, IsFiniteSet(S), NEW F, NEW G, NEW H,
         \A x \in S : F[x] \in Int /\ G[x] \in Int /\ H[x] = F[x] + G[x]
  PROVE  SumFunctionOnSet(H, S) = SumFunctionOnSet(F, S) + SumFunctionOnSet(G, S)
<1> DEFINE SF(T) == SumFunctionOnSet(F, T)
           SG(T) == SumFunctionOnSet(G, T)
           SH(T) == SumFunctionOnSet(H, T)
           B == {T \in SUBSET S : SH(T) # SF(T) + SG(T)}
<1> SUFFICES ASSUME B # {} PROVE FALSE
  OBVIOUS
<1>f. /\ \A T \in SUBSET S : SF(T) \in Int
      /\ SF({}) = 0
      /\ \A T \in SUBSET S : T # {} => SF(T) = F[Pick(T)] + SF(T \ {Pick(T)})
  BY SumOfSubsets
<1>g. /\ \A T \in SUBSET S : SG(T) \in Int
      /\ SG({}) = 0
      /\ \A T \in SUBSET S : T # {} => SG(T) = G[Pick(T)] + SG(T \ {Pick(T)})
  BY SumOfSubsets
<1>h. /\ \A T \in SUBSET S : SH(T) \in Int
      /\ SH({}) = 0
      /\ \A T \in SUBSET S : T # {} => SH(T) = H[Pick(T)] + SH(T \ {Pick(T)})
  <2>1. \A x \in S : H[x] \in Int
    OBVIOUS
  <2> QED
    BY <2>1, SumOfSubsets
<1> HIDE DEF SF, SG, SH
<1>2. PICK T \in B : \A U \in B : U \subseteq T => U = T
  <2>1. B \in SUBSET SUBSET S
    OBVIOUS
  <2> HIDE DEF B
  <2> QED
    BY <2>1, SmallestSubset
<1>3. T # {}
  <2>1. SH({}) = SF({}) + SG({})
    BY <1>f, <1>g, <1>h
  <2> QED
    BY <2>1
<1> DEFINE p == Pick(T)
           R == T \ {p}
<1>4. p \in T /\ p \in S /\ R \in SUBSET S
  BY <1>3, PickIn
<1>5. SH(R) = SF(R) + SG(R)
  BY <1>2, <1>4
<1>6. SF(T) = F[p] + SF(R) /\ SG(T) = G[p] + SG(R) /\ SH(T) = H[p] + SH(R)
  BY <1>f, <1>g, <1>h, <1>3
<1>7. SF(R) \in Int /\ SG(R) \in Int /\ F[p] \in Int /\ G[p] \in Int /\ H[p] = F[p] + G[p]
  BY <1>f, <1>g, <1>4
<1>8. SH(T) # SF(T) + SG(T)
  OBVIOUS
<1> HIDE DEF p, R, B
<1> QED
  BY <1>5, <1>6, <1>7, <1>8

(* A sum of zeros is zero. *)
LEMMA SumOfZeros ==
  ASSUME NEW S, IsFiniteSet(S), NEW F, \A x \in S : F[x] = 0
  PROVE  SumFunctionOnSet(F, S) = 0
<1>1. \A x \in S : F[x] \in Int /\ F[x] = 0 * F[x]
  OBVIOUS
<1>2. SumFunctionOnSet(F, S) = 0 * SumFunctionOnSet(F, S)
  BY <1>1, SumScales
<1>3. SumFunctionOnSet(F, S) \in Int
  BY <1>1, SumType
<1> QED
  BY <1>2, <1>3

(* Terms of one sign make a sum of that sign. *)
LEMMA SumSign ==
  ASSUME NEW S, IsFiniteSet(S), NEW F, \A x \in S : F[x] \in Int
  PROVE  /\ (\A x \in S : F[x] >= 0) => SumFunctionOnSet(F, S) >= 0
         /\ (\A x \in S : F[x] <= 0) => SumFunctionOnSet(F, S) <= 0
<1> DEFINE zero == [x \in S |-> 0]
<1>1. SumFunctionOnSet(zero, S) = 0
  BY SumOfZeros
<1>2. ASSUME \A x \in S : F[x] >= 0 PROVE SumFunctionOnSet(F, S) >= 0
  <2>1. \A x \in S : zero[x] \in Int /\ F[x] \in Int /\ zero[x] <= F[x]
    BY <1>2
  <2>2. SumFunctionOnSet(zero, S) <= SumFunctionOnSet(F, S)
    BY <2>1, SumGrows
  <2>3. SumFunctionOnSet(F, S) \in Int
    BY SumType
  <2> QED
    BY <1>1, <2>2, <2>3
<1>3. ASSUME \A x \in S : F[x] <= 0 PROVE SumFunctionOnSet(F, S) <= 0
  <2>1. \A x \in S : zero[x] \in Int /\ F[x] \in Int /\ F[x] <= zero[x]
    BY <1>3
  <2>2. SumFunctionOnSet(F, S) <= SumFunctionOnSet(zero, S)
    BY <2>1, SumGrows
  <2> QED
    BY <1>1, <2>2
<1> QED
  BY <1>2, <1>3

(* No term of a sum of natural numbers exceeds it; two that count do not fit. *)
LEMMA SumBoundsTerms ==
  ASSUME NEW S, IsFiniteSet(S), NEW F, \A x \in S : F[x] \in Nat, NEW y \in S
  PROVE  /\ F[y] <= SumFunctionOnSet(F, S)
         /\ (\E x \in S \ {y} : F[x] > 0) => F[y] < SumFunctionOnSet(F, S)
<1> DEFINE R == S \ {y}
           zero == [x \in R |-> 0]
<1>1. IsFiniteSet(R) /\ \A x \in R : F[x] \in Int /\ F[x] >= 0
  BY FS_RemoveElement
<1>2. SumFunctionOnSet(F, R) >= 0 /\ SumFunctionOnSet(F, R) \in Int
  BY <1>1, SumSign, SumType
<1>3. SumFunctionOnSet(F, S) = F[y] + SumFunctionOnSet(F, R)
  BY SumTakesOut
<1>4. ASSUME NEW x \in R, F[x] > 0 PROVE SumFunctionOnSet(F, R) > 0
  <2>1. \A z \in R : zero[z] \in Int /\ F[z] \in Int /\ zero[z] <= F[z]
    BY <1>1
  <2>2. zero[x] < F[x]
    BY <1>4
  <2>3. SumFunctionOnSet(zero, R) < SumFunctionOnSet(F, R)
    <3> HIDE DEF zero, R
    <3> QED
      BY <1>1, <2>1, <2>2, SumGrowsStrictly
  <2>4. SumFunctionOnSet(zero, R) = 0
    BY <1>1, SumOfZeros
  <2> QED
    BY <1>2, <2>3, <2>4
<1>5. F[y] \in Int
  OBVIOUS
<1>6. F[y] <= SumFunctionOnSet(F, S)
  BY <1>2, <1>3, <1>5
<1>7. ASSUME NEW x \in R, F[x] > 0 PROVE F[y] < SumFunctionOnSet(F, S)
  <2>1. SumFunctionOnSet(F, R) > 0
    BY <1>4, <1>7
  <2> QED
    BY <1>2, <1>3, <1>5, <2>1
<1> QED
  BY <1>6, <1>7

(* What is zero may be left out of a sum. *)
LEMMA SumOfSome ==
  ASSUME NEW S, IsFiniteSet(S), NEW F, \A x \in S : F[x] \in Int,
         NEW T \in SUBSET S, \A x \in S \ T : F[x] = 0
  PROVE  SumFunctionOnSet(F, T) = SumFunctionOnSet(F, S)
<1> DEFINE SF(U) == SumFunctionOnSet(F, U)
           B == {U \in SUBSET (S \ T) : SF(T \cup U) # SF(T)}
<1> SUFFICES ASSUME B # {} PROVE FALSE
  <2>1. T \cup (S \ T) = S /\ S \ T \in SUBSET (S \ T)
    OBVIOUS
  <2>2. ASSUME B = {} PROVE SF(T \cup (S \ T)) = SF(T)
    BY <2>1, <2>2
  <2> QED
    BY <2>1, <2>2
<1>1. IsFiniteSet(S \ T)
  BY FS_Difference
<1>2. PICK U \in B : \A W \in B : W \subseteq U => W = U
  <2>1. B \in SUBSET SUBSET (S \ T)
    OBVIOUS
  <2> HIDE DEF B
  <2> QED
    BY <1>1, <2>1, SmallestSubset
<1>3. U # {}
  <2>1. T \cup {} = T
    OBVIOUS
  <2> QED
    BY <2>1
<1>4. PICK u \in U : TRUE
  BY <1>3
<1>5. U \ {u} \notin B
  BY <1>2, <1>4
<1> DEFINE V == T \cup U
<1>6. V \ {u} = T \cup (U \ {u}) /\ u \in V /\ V \in SUBSET S /\ F[u] = 0
  OBVIOUS
<1>7. IsFiniteSet(V) /\ \A x \in V : F[x] \in Int
  BY <1>6, FS_Subset
<1> HIDE DEF V
<1>8. SF(V) = F[u] + SF(V \ {u})
  BY <1>6, <1>7, SumTakesOut
<1>9. SF(V \ {u}) \in Int
  <2>1. V \ {u} \in SUBSET S
    BY <1>6
  <2> QED
    BY <2>1, SumOfSubsets
<1>10. SF(V \ {u}) = SF(T)
  BY <1>5, <1>6
<1>11. SF(V) # SF(T)
  BY DEF V
<1> HIDE DEF SF, B
<1> QED
  BY <1>6, <1>8, <1>9, <1>10, <1>11

-----------------------------------------------------------------------------
(* Products, lists and squares. *)

(* The fold of compute_pd_drift's denominators. *)
Times(F, S) == FoldFunctionOnSet(LAMBDA p, q : p * q, 1, F, S)

(* A product of positive numbers is positive. *)
LEMMA ProductIsPositive ==
  ASSUME NEW S, IsFiniteSet(S), NEW F, \A x \in S : F[x] \in Nat \ {0}
  PROVE  Times(F, S) \in Nat \ {0}
<1> DEFINE V == Nat \ {0}
           H == [p \in (SUBSET S) \X V |-> IF p[1] = {} THEN 1 ELSE F[Pick(p[1])] * p[2]]
           Eq(g) == g = [s \in SUBSET S |-> IF s = {} THEN 1 ELSE F[Pick(s)] * g[s \ {Pick(s)}]]
           it == CHOOSE g : Eq(g)
<1>0. \A m, n \in V : m * n \in V
  OBVIOUS
<1>1. H \in [(SUBSET S) \X V -> V]
  <2> SUFFICES ASSUME NEW p \in (SUBSET S) \X V
               PROVE  (IF p[1] = {} THEN 1 ELSE F[Pick(p[1])] * p[2]) \in V
    OBVIOUS
  <2>1. p[1] # {} => F[Pick(p[1])] \in V
    BY PickIn
  <2>2. p[2] \in V /\ 1 \in V
    OBVIOUS
  <2> HIDE DEF V
  <2> QED
    BY <1>0, <2>1, <2>2
<1>2. PICK g \in [SUBSET S -> V] : Solves(g, S, 1, H)
  <2>1. 1 \in V
    OBVIOUS
  <2> HIDE DEF H, V
  <2> QED
    BY <1>1, <2>1, RecursionExists, Zenon
<1>3. \A s \in SUBSET S : g[s] = IF s = {} THEN 1 ELSE F[Pick(s)] * g[s \ {Pick(s)}]
  <2> SUFFICES ASSUME NEW s \in SUBSET S, s # {} PROVE g[s] = F[Pick(s)] * g[s \ {Pick(s)}]
    BY <1>2 DEF Solves
  <2>1. <<s, g[s \ {Pick(s)}]>> \in (SUBSET S) \X V
    OBVIOUS
  <2>2. H[<<s, g[s \ {Pick(s)}]>>] = F[Pick(s)] * g[s \ {Pick(s)}]
    BY <2>1
  <2> HIDE DEF H
  <2> QED
    BY <1>2, <2>2 DEF Solves
<1>4. Eq(g)
  BY <1>3
<1>5. Eq(it)
  <2> HIDE DEF Eq
  <2> QED
    BY <1>4
<1>6. Times(F, S) = it[S]
  BY Zenon DEF Times, FoldFunctionOnSet, MapThenFoldSet, Pick
<1>7. \A s \in SUBSET S : it[s] = IF s = {} THEN 1 ELSE F[Pick(s)] * it[s \ {Pick(s)}]
  <2> HIDE DEF it
  <2> QED
    BY <1>5
<1> HIDE DEF it
<1> DEFINE B == {s \in SUBSET S : it[s] # g[s]}
<1>8. B = {}
  <2> SUFFICES ASSUME B # {} PROVE FALSE
    OBVIOUS
  <2>1. B \in SUBSET SUBSET S
    OBVIOUS
  <2>2. PICK s \in B : \A u \in B : u \subseteq s => u = s
    <3> HIDE DEF B
    <3> QED
      BY <2>1, SmallestSubset
  <2>3. s # {}
    BY <1>3, <1>7
  <2>4. s \ {Pick(s)} \notin B
    BY <2>2, <2>3, PickIn
  <2> QED
    BY <1>3, <1>7, <2>3, <2>4
<1>9. it[S] = g[S]
  BY <1>8
<1> QED
  BY <1>6, <1>9

(* A finite set that is not empty has a member of the least weight. *)
LEMMA Lightest ==
  ASSUME NEW S, IsFiniteSet(S), S # {}, NEW w, \A x \in S : w[x] \in Int
  PROVE  \E x \in S : \A y \in S : w[x] <= w[y]
<1> DEFINE B == {T \in SUBSET S : T # {} /\ ~ \E x \in T : \A y \in T : w[x] <= w[y]}
<1> SUFFICES ASSUME B # {} PROVE FALSE
  OBVIOUS
<1>1. PICK T \in B : \A U \in B : U \subseteq T => U = T
  <2>1. B \in SUBSET SUBSET S
    OBVIOUS
  <2> HIDE DEF B
  <2> QED
    BY <2>1, SmallestSubset
<1>2. PICK t \in T : TRUE
  OBVIOUS
<1>3. T \ {t} \notin B
  BY <1>1, <1>2
<1>4. CASE T \ {t} = {}
  <2>1. \A y \in T : y = t
    BY <1>4
  <2> QED
    BY <2>1
<1>5. CASE T \ {t} # {}
  <2>1. PICK x \in T \ {t} : \A y \in T \ {t} : w[x] <= w[y]
    BY <1>3, <1>5
  <2>2. w[x] \in Int /\ w[t] \in Int /\ \A y \in T : w[y] \in Int
    OBVIOUS
  <2>3. CASE w[x] <= w[t]
    BY <2>1, <2>3
  <2>4. CASE ~ (w[x] <= w[t])
    <3>1. \A y \in T : w[t] <= w[y]
      BY <2>1, <2>2, <2>4
    <3> QED
      BY <3>1
  <2> QED
    BY <2>3, <2>4
<1> QED
  BY <1>4, <1>5

(* E lists S, the lightest first. *)
Lists(E, S, w) ==
    /\ E \in [1 .. Cardinality(S) -> S]
    /\ \A i, j \in 1 .. Cardinality(S) : i # j => E[i] # E[j]
    /\ \A i, j \in 1 .. Cardinality(S) : i < j => w[E[i]] <= w[E[j]]

(* A finite set can be listed. *)
LEMMA ListExists ==
  ASSUME NEW S, IsFiniteSet(S), NEW w, \A x \in S : w[x] \in Int
  PROVE  \E E : Lists(E, S, w)
<1> DEFINE B == {T \in SUBSET S : ~ \E E : Lists(E, T, w)}
<1> SUFFICES ASSUME B # {} PROVE FALSE
  OBVIOUS
<1>1. PICK T \in B : \A U \in B : U \subseteq T => U = T
  <2>1. B \in SUBSET SUBSET S
    OBVIOUS
  <2> HIDE DEF B
  <2> QED
    BY <2>1, SmallestSubset
<1>2. T # {}
  <2> SUFFICES ASSUME T = {} PROVE \E E : Lists(E, {}, w)
    BY <1>1
  <2>1. Cardinality({}) = 0 /\ 1 .. 0 = {}
    BY FS_EmptySet
  <2>2. Lists([i \in {} |-> 0], {}, w)
    BY <2>1 DEF Lists
  <2> QED
    BY <2>2
<1> DEFINE v == [x \in T |-> 0 - w[x]]
<1>3. PICK t \in T : \A y \in T : w[y] <= w[t]
  <2>1. IsFiniteSet(T) /\ \A x \in T : v[x] \in Int
    BY FS_Subset
  <2>2. PICK t \in T : \A y \in T : v[t] <= v[y]
    <3> HIDE DEF v
    <3> QED
      BY <1>2, <2>1, Lightest
  <2>3. \A y \in T : w[y] \in Int /\ v[y] = 0 - w[y]
    OBVIOUS
  <2>4. \A y \in T : w[y] <= w[t]
    BY <2>2, <2>3
  <2> QED
    BY <2>4
<1>4. T \ {t} \notin B
  BY <1>1, <1>3
<1>5. PICK E : Lists(E, T \ {t}, w)
  BY <1>4
<1> DEFINE n == Cardinality(T)
<1>6. n \in Nat \ {0} /\ Cardinality(T \ {t}) = n - 1
  <2>1. IsFiniteSet(T)
    BY FS_Subset
  <2> QED
    BY <1>2, <2>1, FS_RemoveElement, FS_CardinalityType, FS_EmptySet
<1> HIDE DEF n
<1> DEFINE L == [i \in 1 .. n |-> IF i = n THEN t ELSE E[i]]
<1>7. \A i \in 1 .. n : i # n => i \in 1 .. (n - 1)
  BY <1>6
<1>8. \A i \in 1 .. (n - 1) : E[i] \in T \ {t}
  BY <1>5, <1>6 DEF Lists
<1>9. L \in [1 .. n -> T]
  BY <1>3, <1>7, <1>8
<1>10. \A i, j \in 1 .. n : i # j => L[i] # L[j]
  BY <1>5, <1>6, <1>7, <1>8 DEF Lists
<1>11. \A i, j \in 1 .. n : i < j => w[L[i]] <= w[L[j]]
  <2> SUFFICES ASSUME NEW i \in 1 .. n, NEW j \in 1 .. n, i < j PROVE w[L[i]] <= w[L[j]]
    OBVIOUS
  <2>1. i # n /\ i \in 1 .. (n - 1) /\ L[i] = E[i] /\ E[i] \in T
    BY <1>6, <1>7, <1>8
  <2>2. CASE j = n
    BY <1>3, <2>1, <2>2
  <2>3. CASE j # n
    BY <1>5, <1>6, <1>7, <2>1, <2>3 DEF Lists
  <2> QED
    BY <2>2, <2>3
<1>12. Lists(L, T, w)
  <2> HIDE DEF L
  <2> QED
    BY <1>9, <1>10, <1>11 DEF Lists, n
<1> QED
  BY <1>12

(* A list of S misses none of it. *)
LEMMA ListsAll ==
  ASSUME NEW S, IsFiniteSet(S), NEW E \in [1 .. Cardinality(S) -> S],
         \A i, j \in 1 .. Cardinality(S) : i # j => E[i] # E[j], NEW x \in S
  PROVE  \E i \in 1 .. Cardinality(S) : E[i] = x
<1>1. Cardinality(S) \in Nat
  BY FS_CardinalityType
<1>2. IsFiniteSet(1 .. Cardinality(S)) /\ Cardinality(1 .. Cardinality(S)) = Cardinality(S)
  BY <1>1, FS_Interval
<1>3. E \in Injection(1 .. Cardinality(S), S)
  BY DEF Injection, IsInjective
<1>4. E \in Surjection(1 .. Cardinality(S), S)
  BY <1>2, <1>3, FS_Injection
<1> QED
  BY <1>4 DEF Surjection

(* The way from the first to the last is the sum of the steps. *)
LEMMA SumTelescopes ==
  ASSUME NEW n \in Nat \ {0}, NEW t, \A i \in 1 .. n : t[i] \in Int,
         NEW g, \A i \in 1 .. n - 1 : g[i] = t[i + 1] - t[i]
  PROVE  SumFunctionOnSet(g, 1 .. n - 1) = t[n] - t[1]
<1> DEFINE B == {m \in 1 .. n : SumFunctionOnSet(g, 1 .. m - 1) # t[m] - t[1]}
           w == [m \in Nat |-> m]
<1> SUFFICES ASSUME B # {} PROVE FALSE
  <2>1. n \in 1 .. n
    OBVIOUS
  <2> QED
    BY <2>1
<1>1. PICK m \in B : \A k \in B : m <= k
  <2>1. IsFiniteSet(1 .. n)
    BY FS_Interval
  <2>2. IsFiniteSet(B)
    BY <2>1, FS_Subset
  <2>3. \A x \in B : w[x] = x /\ w[x] \in Int
    OBVIOUS
  <2> HIDE DEF B, w
  <2>4. \E x \in B : \A y \in B : w[x] <= w[y]
    BY <2>2, <2>3, Lightest
  <2> QED
    BY <2>3, <2>4
<1>2. m \in 1 .. n /\ SumFunctionOnSet(g, 1 .. m - 1) # t[m] - t[1]
  BY <1>1
<1>3. CASE m = 1
  <2>1. 1 .. m - 1 = {}
    BY <1>3
  <2>2. SumFunctionOnSet(g, {}) = 0
    <3>1. IsFiniteSet({}) /\ \A x \in {} : g[x] \in Int
      BY FS_EmptySet
    <3> QED
      BY <3>1, SumType
  <2>3. t[1] \in Int
    BY <1>2
  <2>4. t[m] - t[1] = 0
    BY <1>3, <2>3
  <2> HIDE DEF B
  <2> QED
    BY <1>2, <2>1, <2>2, <2>4
<1>4. CASE m > 1
  <2> DEFINE l == m - 1
             S == 1 .. l
  <2>1. l \in 1 .. n /\ l \in S /\ l < m /\ l + 1 = m /\ S \ {l} = 1 .. l - 1
    BY <1>2, <1>4
  <2>2. SumFunctionOnSet(g, 1 .. l - 1) = t[l] - t[1]
    BY <1>1, <2>1
  <2>3. IsFiniteSet(S) /\ \A x \in S : g[x] \in Int
    <3>1. IsFiniteSet(S)
      BY <2>1, FS_Interval
    <3>2. ASSUME NEW x \in S PROVE g[x] \in Int
      <4>1. x \in 1 .. n - 1 /\ x \in 1 .. n /\ x + 1 \in 1 .. n
        BY <1>2, <2>1
      <4>2. t[x] \in Int /\ t[x + 1] \in Int
        BY <4>1
      <4> QED
        BY <4>1, <4>2
    <3> QED
      BY <3>1, <3>2
  <2>4. g[l] = t[m] - t[l] /\ t[1] \in Int /\ t[l] \in Int /\ t[m] \in Int
    BY <1>2, <2>1
  <2> HIDE DEF l, S, B
  <2>5. SumFunctionOnSet(g, S) = g[l] + SumFunctionOnSet(g, S \ {l})
    BY <2>1, <2>3, SumTakesOut
  <2>6. SumFunctionOnSet(g, S \ {l}) = t[l] - t[1]
    BY <2>1, <2>2
  <2>7. SumFunctionOnSet(g, S) = t[m] - t[1]
    <3> DEFINE a == t[1]
               b == t[l]
               c == t[m]
    <3>1. SumFunctionOnSet(g, S) = (c - b) + (b - a) /\ a \in Int /\ b \in Int /\ c \in Int
      BY <2>4, <2>5, <2>6
    <3> HIDE DEF a, b, c
    <3>2. SumFunctionOnSet(g, S) = c - a
      BY <3>1
    <3> QED
      BY <3>2 DEF a, c
  <2> QED
    BY <1>2, <2>7 DEF S, l
<1> QED
  BY <1>2, <1>3, <1>4

(* Where no two weigh the same, the k-th is the one that k - 1 lighter     *)
(* ones come before.                                                       *)
LEMMA RankLists ==
  ASSUME NEW S, IsFiniteSet(S), NEW w, \A x \in S : w[x] \in Int,
         \A x, y \in S : w[x] = w[y] => x = y,
         NEW L, L = [k \in 1 .. Cardinality(S) |->
                       CHOOSE x \in S : Cardinality({y \in S : w[y] < w[x]}) = k - 1]
  PROVE  Lists(L, S, w)
<1> DEFINE n == Cardinality(S)
           Lighter(x) == {y \in S : w[y] < w[x]}
<1>1. n \in Nat
  BY FS_CardinalityType
<1>2. PICK G : Lists(G, S, w)
  BY ListExists
<1>3. /\ G \in [1 .. n -> S]
      /\ \A i, j \in 1 .. n : i # j => G[i] # G[j]
      /\ \A i, j \in 1 .. n : i < j => w[G[i]] <= w[G[j]]
  BY <1>2 DEF Lists
<1>4. \A x \in S : \E i \in 1 .. n : G[i] = x
  BY <1>3, ListsAll
<1> HIDE DEF n
<1>5. ASSUME NEW k \in 1 .. n PROVE Cardinality(Lighter(G[k])) = k - 1
  <2> DEFINE h == [m \in 1 .. k - 1 |-> G[m]]
  <2>1. ASSUME NEW m \in 1 .. k - 1 PROVE m \in 1 .. n /\ h[m] = G[m] /\ h[m] \in Lighter(G[k])
    <3>1. m \in 1 .. n /\ m < k /\ m # k /\ k \in 1 .. n
      BY <1>1
    <3>2. w[G[m]] <= w[G[k]] /\ G[m] # G[k] /\ G[m] \in S /\ G[k] \in S
      BY <1>3, <3>1
    <3>3. w[G[m]] \in Int /\ w[G[k]] \in Int /\ w[G[m]] # w[G[k]]
      BY <3>2
    <3> QED
      BY <3>1, <3>2, <3>3
  <2>2. \A i, j \in 1 .. k - 1 : h[i] = h[j] => i = j
    BY <1>3, <2>1
  <2>3. ASSUME NEW x \in Lighter(G[k]) PROVE \E m \in 1 .. k - 1 : h[m] = x
    <3>1. PICK m \in 1 .. n : G[m] = x
      BY <1>4
    <3>2. m < k
      <4> SUFFICES ASSUME k <= m PROVE FALSE
        BY <1>1
      <4>1. G[m] \in S /\ G[k] \in S /\ w[G[m]] < w[G[k]]
        BY <1>3, <3>1
      <4>2. w[G[k]] <= w[G[m]]
        <5>1. CASE k = m
          BY <4>1, <5>1
        <5>2. CASE k # m
          <6>1. k < m
            BY <1>1, <5>2
          <6> QED
            BY <1>3, <6>1
        <5> QED
          BY <5>1, <5>2
      <4> QED
        BY <4>1, <4>2
    <3>3. m \in 1 .. k - 1
      BY <1>1, <3>2
    <3> QED
      BY <3>1, <3>3
  <2>4. h \in Bijection(1 .. k - 1, Lighter(G[k]))
    <3> HIDE DEF Lighter
    <3> QED
      BY <2>1, <2>2, <2>3 DEF Bijection, Injection, Surjection, IsInjective
  <2>5. k - 1 \in Nat
    BY <1>1
  <2> HIDE DEF h, Lighter
  <2> QED
    BY <2>4, <2>5, FS_CountingElements DEF ExistsBijection
<1>6. ASSUME NEW k \in 1 .. n PROVE L[k] = G[k]
  <2>1. L[k] = CHOOSE x \in S : Cardinality(Lighter(x)) = k - 1
    BY DEF n
  <2>2. G[k] \in S /\ Cardinality(Lighter(G[k])) = k - 1
    BY <1>3, <1>5
  <2>3. ASSUME NEW x \in S, Cardinality(Lighter(x)) = k - 1 PROVE x = G[k]
    <3>1. PICK m \in 1 .. n : G[m] = x
      BY <1>4
    <3>2. Cardinality(Lighter(x)) = m - 1
      BY <1>5, <3>1
    <3>3. m = k
      BY <1>1, <2>3, <3>2
    <3> QED
      BY <3>1, <3>3
  <2> HIDE DEF Lighter
  <2> QED
    BY <2>1, <2>2, <2>3
<1>7. L = G
  <2> DEFINE at(k) == CHOOSE x \in S : Cardinality(Lighter(x)) = k - 1
  <2>0. L = [k \in 1 .. n |-> at(k)]
    BY DEF n
  <2> HIDE DEF at
  <2>1. L = [k \in 1 .. n |-> L[k]] /\ G = [k \in 1 .. n |-> G[k]]
    BY <1>3, <2>0
  <2> QED
    BY <1>6, <2>1
<1> QED
  BY <1>2, <1>7

(* The squares of natural numbers add up to no more than the square of the *)
(* sum, and to less where two of them count.                               *)
LEMMA SquaresFit ==
  ASSUME NEW S, IsFiniteSet(S), NEW F, \A x \in S : F[x] \in Nat,
         NEW Q, \A x \in S : Q[x] = F[x] * F[x]
  PROVE  LET total == SumFunctionOnSet(F, S)
         IN  /\ SumFunctionOnSet(Q, S) <= total * total
             /\ \A x, y \in S : x # y /\ F[x] > 0 /\ F[y] > 0
                                  => SumFunctionOnSet(Q, S) < total * total
<1> DEFINE total == SumFunctionOnSet(F, S)
           H == [x \in S |-> total * F[x]]
<1>1. total \in Int
  <2>1. \A x \in S : F[x] \in Int
    OBVIOUS
  <2> QED
    BY <2>1, SumType
<1>2. SumFunctionOnSet(H, S) = total * total
  <2>1. \A x \in S : F[x] \in Int /\ H[x] = total * F[x]
    OBVIOUS
  <2> HIDE DEF H
  <2> QED
    BY <1>1, <2>1, SumScales
<1>3. \A x \in S : /\ F[x] <= total
                   /\ (\E y \in S \ {x} : F[y] > 0) => F[x] < total
  BY SumBoundsTerms
<1> HIDE DEF total
<1>4. ASSUME NEW x \in S
      PROVE  Q[x] \in Int /\ H[x] \in Int /\ Q[x] <= H[x]
  <2> DEFINE f == F[x]
  <2>1. f \in Nat /\ f <= total
    BY <1>3
  <2> HIDE DEF f
  <2>2. f * f <= total * f /\ f * f \in Int /\ total * f \in Int
    BY <1>1, <2>1
  <2> QED
    BY <2>2 DEF f
<1>5. ASSUME NEW x \in S, NEW y \in S, x # y, F[x] > 0, F[y] > 0
      PROVE  Q[x] < H[x]
  <2> DEFINE f == F[x]
  <2>1. f \in Nat /\ f < total /\ f > 0
    BY <1>3, <1>5
  <2> HIDE DEF f
  <2>2. f * f < total * f
    BY <1>1, <2>1
  <2> QED
    BY <2>2 DEF f
<1> HIDE DEF H
<1>6. SumFunctionOnSet(Q, S) <= SumFunctionOnSet(H, S)
  BY <1>4, SumGrows
<1>7. ASSUME NEW x \in S, NEW y \in S, x # y, F[x] > 0, F[y] > 0
      PROVE  SumFunctionOnSet(Q, S) < SumFunctionOnSet(H, S)
  <2>1. Q[x] < H[x]
    BY <1>5, <1>7
  <2> QED
    BY <1>4, <2>1, SumGrowsStrictly
<1> QED
  BY <1>2, <1>6, <1>7 DEF total

(* The inequality of Cauchy and Schwarz, with all weights 1. *)
LEMMA CauchySchwarz ==
  ASSUME NEW S, IsFiniteSet(S), NEW F, \A x \in S : F[x] \in Int,
         NEW Q, \A x \in S : Q[x] = F[x] * F[x]
  PROVE  SumFunctionOnSet(F, S) * SumFunctionOnSet(F, S)
           <= Cardinality(S) * SumFunctionOnSet(Q, S)
<1> DEFINE n == Cardinality(S)
           f == SumFunctionOnSet(F, S)
           q == SumFunctionOnSet(Q, S)
           one == [x \in S |-> 1]
           A == [x \in S |-> (n * n) * Q[x]]
           B == [x \in S |-> (0 - 2 * n * f) * F[x]]
           C == [x \in S |-> (f * f) * one[x]]
           AB == [x \in S |-> A[x] + B[x]]
           D == [x \in S |-> AB[x] + C[x]]
<1>1. \A x \in S : F[x] \in Int /\ Q[x] \in Int /\ one[x] \in Int /\ one[x] = 1
  OBVIOUS
<1>2. f \in Int /\ q \in Int /\ n \in Nat
  BY <1>1, SumType, FS_CardinalityType
<1>3. SumFunctionOnSet(one, S) = n
  <2> HIDE DEF one
  <2> QED
    BY <1>1, SumCounts
<1> HIDE DEF one, n, f, q
<1>4. n * n \in Int /\ 0 - 2 * n * f \in Int /\ f * f \in Int
  BY <1>2
<1>5. \A x \in S : /\ A[x] = (n * n) * Q[x]
                   /\ B[x] = (0 - 2 * n * f) * F[x]
                   /\ C[x] = (f * f) * one[x]
                   /\ A[x] \in Int /\ B[x] \in Int /\ C[x] \in Int
  BY <1>1, <1>4
<1> HIDE DEF A, B, C
<1>a. SumFunctionOnSet(A, S) = (n * n) * q
  BY <1>1, <1>4, <1>5, SumScales DEF q
<1>b. SumFunctionOnSet(B, S) = (0 - 2 * n * f) * f
  <2>1. SumFunctionOnSet(B, S) = (0 - 2 * n * f) * SumFunctionOnSet(F, S)
    BY <1>1, <1>4, <1>5, SumScales
  <2> QED
    BY <2>1 DEF f
<1>c. SumFunctionOnSet(C, S) = (f * f) * n
  BY <1>1, <1>3, <1>4, <1>5, SumScales
<1>6. \A x \in S : AB[x] = A[x] + B[x] /\ AB[x] \in Int /\ D[x] = AB[x] + C[x] /\ D[x] \in Int
  BY <1>5
<1> HIDE DEF AB, D
<1>7. SumFunctionOnSet(D, S) = (SumFunctionOnSet(A, S) + SumFunctionOnSet(B, S))
                                 + SumFunctionOnSet(C, S)
  <2>1. SumFunctionOnSet(AB, S) = SumFunctionOnSet(A, S) + SumFunctionOnSet(B, S)
    BY <1>5, <1>6, SumAdds
  <2>2. SumFunctionOnSet(D, S) = SumFunctionOnSet(AB, S) + SumFunctionOnSet(C, S)
    BY <1>5, <1>6, SumAdds
  <2> QED
    BY <2>1, <2>2
<1>8. \A x \in S : D[x] >= 0
  <2> SUFFICES ASSUME NEW x \in S PROVE D[x] >= 0
    OBVIOUS
  <2> DEFINE y == F[x]
             d == n * y - f
  <2>1. y \in Int /\ D[x] = ((n * n) * (y * y) + (0 - 2 * n * f) * y) + (f * f) * 1
    BY <1>1, <1>5, <1>6
  <2> HIDE DEF y
  <2>2. d \in Int /\ D[x] = d * d
    BY <1>2, <2>1
  <2>3. \A e \in Int : e * e >= 0
    OBVIOUS
  <2> HIDE DEF d
  <2> QED
    BY <2>2, <2>3
<1>9. SumFunctionOnSet(D, S) >= 0
  BY <1>6, <1>8, SumSign
<1>10. ((n * n) * q + (0 - 2 * n * f) * f) + (f * f) * n >= 0
  BY <1>7, <1>9, <1>a, <1>b, <1>c
<1>11. n * (n * q - f * f) >= 0
  BY <1>2, <1>10
<1>12. CASE n = 0
  <2>1. S = {}
    BY <1>12, FS_EmptySet DEF n
  <2>2. f = 0
    BY <2>1, SumType DEF f
  <2> QED
    BY <1>2, <1>12, <2>2 DEF n, f, q
<1>13. CASE n > 0
  <2> DEFINE e == n * q - f * f
  <2>1. e \in Int /\ n * e >= 0
    BY <1>2, <1>11
  <2> HIDE DEF e
  <2>2. e >= 0
    BY <1>2, <1>13, <2>1
  <2>3. n * q - f * f >= 0
    BY <2>2 DEF e
  <2>4. n * q \in Int /\ f * f \in Int
    BY <1>2
  <2>5. f * f <= n * q
    BY <2>3, <2>4
  <2> QED
    BY <2>5 DEF n, f, q
<1> QED
  BY <1>2, <1>12, <1>13

=============================================================================
