-------------------------- MODULE AnalyticsProofs ---------------------------
(***************************************************************************)
(* Proofs about the analytics of the portfolio, for every book, every row  *)
(* and any number of months: the calendar, the curves and the drift of     *)
(* Vintage, the index and the grid of Concentration.                       *)
(***************************************************************************)
EXTENDS Analytics, SumTheorems

(* The calendar and the book. *)

(* The next month is a date, and its number is the next one. *)
LEMMA NextMonthNumber ==
  ASSUME NEW d \in Date
  PROVE  /\ NextMonth(d) \in Date
         /\ MonthNumber(NextMonth(d)) = MonthNumber(d) + 1
  BY DEF NextMonth, MonthNumber, Date

(* Months between two dates are the difference of their numbers, or 0. *)
LEMMA MonthsBetweenIsDifference ==
  ASSUME NEW a \in Date, NEW b \in Date
  PROVE  MonthsBetween(a, b) =
           IF MonthNumber(b) < MonthNumber(a) THEN 0
           ELSE MonthNumber(b) - MonthNumber(a)
  BY DEF MonthsBetween, MonthNumber, Floor, Date

(* Numbers of months are integers. *)
LEMMA NumberIsInt == \A d \in Date : MonthNumber(d) \in Int
  BY DEF MonthNumber, Date

(* The empty book in the first month. *)
LEMMA InitCalendar == Init => CalendarInv
<1>1. MonthNumber(Epoch) \in Int /\ MonthNumber(Epoch) + 0 = MonthNumber(Epoch)
  BY VintageAssumption, NumberIsInt
<1>2. MonthsBetween(Epoch, Epoch) = 0
  BY <1>1, VintageAssumption, MonthsBetweenIsDifference
<1> QED
  BY <1>1, <1>2, VintageAssumption DEF Init, CalendarInv, TypeOK, Book

(* No step loses count of the months. *)
LEMMA NextCalendar == CalendarInv /\ [Next]_vars => CalendarInv'
<1> SUFFICES ASSUME CalendarInv, [Next]_vars PROVE CalendarInv'
  OBVIOUS
<1> USE DEF CalendarInv, TypeOK, Book
<1>1. CASE MonthPasses
  <2>1. asOf' \in Date /\ MonthNumber(asOf') = MonthNumber(asOf) + 1
    BY <1>1, NextMonthNumber DEF MonthPasses
  <2>2. elapsed' = elapsed + 1 /\ elapsed' \in 0 .. Months /\ UNCHANGED loanVars
    BY <1>1, VintageAssumption DEF MonthPasses
  <2>3. MonthNumber(Epoch) \in Int
    BY VintageAssumption, NumberIsInt
  <2>4. MonthNumber(asOf') = MonthNumber(Epoch) + elapsed'
    BY <2>1, <2>2, <2>3
  <2>5. \A l \in Book : born[l] <= elapsed'
    BY <2>2
  <2>6. MonthsBetween(Epoch, asOf') = elapsed'
    BY <2>1, <2>2, <2>3, <2>4, VintageAssumption, MonthsBetweenIsDifference
  <2> QED
    BY <2>1, <2>2, <2>4, <2>5, <2>6 DEF loanVars
<1>2. ASSUME NEW l \in Loan, Originate(l) PROVE CalendarInv'
  BY <1>2 DEF Originate
<1>3. ASSUME NEW l \in Loan, Service(l) PROVE CalendarInv'
  BY <1>3 DEF Service
<1>4. CASE UNCHANGED vars
  BY <1>4 DEF vars, loanVars
<1> QED
  BY <1>1, <1>2, <1>3, <1>4 DEF Next

(* The age of a loan follows from the numbers of the months. *)
LEMMA AgeOfLoan == CalendarInv => MobCountsMonths
<1> SUFFICES ASSUME CalendarInv, NEW l \in Book PROVE Mob(l) = elapsed - born[l]
  BY DEF MobCountsMonths
<1>1. l \in Loan /\ origination[l] \in Date /\ asOf \in Date
  BY DEF CalendarInv, TypeOK, Book
<1>2. MonthNumber(Epoch) \in Int
  BY VintageAssumption, NumberIsInt
<1>3. /\ MonthNumber(asOf) = MonthNumber(Epoch) + elapsed
      /\ MonthNumber(origination[l]) = MonthNumber(Epoch) + born[l]
      /\ born[l] <= elapsed
      /\ born[l] \in Int /\ elapsed \in Int
  BY <1>1 DEF CalendarInv, TypeOK
<1> QED
  BY <1>1, <1>2, <1>3, MonthsBetweenIsDifference DEF Mob

(* The book stays finite: one loan at a time is originated. *)
LEMMA BookStaysFinite == IsFiniteSet(Book) /\ [Next]_vars => IsFiniteSet(Book)'
<1> SUFFICES ASSUME IsFiniteSet(Book), [Next]_vars PROVE IsFiniteSet(Book')
  OBVIOUS
<1>1. ASSUME NEW l \in Loan, Book' \subseteq Book \cup {l} PROVE IsFiniteSet(Book')
  BY <1>1, FS_AddElement, FS_Subset
<1>3. CASE MonthPasses
  BY <1>3 DEF MonthPasses, loanVars, Book
<1>4. ASSUME NEW l \in Loan, Originate(l) PROVE IsFiniteSet(Book')
  <2>1. Book' \subseteq Book \cup {l}
    BY <1>4 DEF Originate, Book
  <2> QED
    BY <1>1, <2>1
<1>5. ASSUME NEW l \in Loan, Service(l) PROVE IsFiniteSet(Book')
  <2>1. Book' \subseteq Book \cup {l}
    BY <1>5 DEF Service, Book
  <2> QED
    BY <1>1, <2>1
<1>6. CASE UNCHANGED vars
  BY <1>6 DEF vars, loanVars, Book
<1> QED
  BY <1>3, <1>4, <1>5, <1>6 DEF Next

(* The calendar never loses a month and the book stays finite. *)
THEOREM Invariance == Spec => []IInv
<1>1. Init => IInv
  <2>1. Init => Book = {}
    BY DEF Init, Book
  <2> QED
    BY <2>1, InitCalendar, FS_EmptySet DEF IInv
<1>2. IInv /\ [Next]_vars => IInv'
  BY NextCalendar, BookStaysFinite DEF IInv
<1> QED
  BY <1>1, <1>2, PTL DEF Spec

(* Months on book count the months since origination. *)
THEOREM MonthsOnBook == Spec => []MobCountsMonths
  BY Invariance, AgeOfLoan, PTL DEF IInv

-----------------------------------------------------------------------------
(* The curves and the drift. *)

(* The sum of the ratios has the sign of one of them. *)
LEMMA DriftCause == CalendarInv /\ IsFiniteSet(Book) => DriftHasCause
<1> SUFFICES ASSUME CalendarInv, IsFiniteSet(Book) PROVE DriftHasCause
  OBVIOUS
<1> DEFINE predicted == [l \in DriftSample |-> rows[l].predicted]
           others(l) == Times(predicted, DriftSample \ {l})
           strayed(l) == rows[l].current - rows[l].predicted
           term == [l \in DriftSample |-> strayed(l) * others(l)]
<1>1. IsFiniteSet(DriftSample)
  BY FS_Subset DEF DriftSample
<1>2. ASSUME NEW l \in DriftSample
      PROVE  /\ rows[l].predicted \in Nat \ {0} /\ rows[l].current \in Nat
             /\ l \in Book /\ rows[l].status \in {"ACTIVE", "IN_GRACE"}
  BY VintageAssumption DEF DriftSample, CalendarInv, TypeOK, Book
<1>3. ASSUME NEW l \in DriftSample PROVE others(l) \in Nat \ {0}
  <2>1. IsFiniteSet(DriftSample \ {l})
    BY <1>1, FS_RemoveElement
  <2>2. \A x \in DriftSample \ {l} : predicted[x] \in Nat \ {0}
    BY <1>2
  <2> HIDE DEF predicted
  <2> QED
    BY <2>1, <2>2, ProductIsPositive
<1>4. Drift = SumFunctionOnSet(term, DriftSample)
  BY Zenon DEF Drift, SumFunction, Times
<1> HIDE DEF others
<1>5. ASSUME NEW l \in DriftSample
      PROVE  /\ term[l] \in Int
             /\ strayed(l) <= 0 => term[l] <= 0
             /\ strayed(l) >= 0 => term[l] >= 0
  <2> DEFINE o == others(l)
             d == strayed(l)
  <2>1. o \in Nat \ {0} /\ d \in Int /\ term[l] = d * o
    BY <1>2, <1>3
  <2> HIDE DEF o, d
  <2>2. d * o \in Int /\ (d <= 0 => d * o <= 0) /\ (d >= 0 => d * o >= 0)
    BY <2>1
  <2> QED
    BY <2>1, <2>2 DEF d
<1> HIDE DEF term
<1>6. SumFunctionOnSet(term, DriftSample) \in Int
  BY <1>1, <1>5, SumType
<1>7. ASSUME Drift > 0 PROVE \E l \in DriftSample : strayed(l) > 0
  <2> SUFFICES ASSUME \A l \in DriftSample : ~ (strayed(l) > 0) PROVE FALSE
    OBVIOUS
  <2>1. \A l \in DriftSample : term[l] \in Int /\ term[l] <= 0
    BY <1>2, <1>5
  <2>2. SumFunctionOnSet(term, DriftSample) <= 0
    BY <1>1, <2>1, SumSign
  <2> QED
    BY <1>4, <1>6, <1>7, <2>2
<1>8. ASSUME Drift < 0 PROVE \E l \in DriftSample : strayed(l) < 0
  <2> SUFFICES ASSUME \A l \in DriftSample : ~ (strayed(l) < 0) PROVE FALSE
    OBVIOUS
  <2>1. \A l \in DriftSample : term[l] \in Int /\ term[l] >= 0
    BY <1>2, <1>5
  <2>2. SumFunctionOnSet(term, DriftSample) >= 0
    BY <1>1, <2>1, SumSign
  <2> QED
    BY <1>4, <1>6, <1>8, <2>2
<1>9. \A l \in DriftSample :
        /\ strayed(l) > 0 => 1 * strayed(l) > 0
        /\ strayed(l) < 0 => (-1) * strayed(l) > 0
  <2>1. \A d \in Int : (d > 0 => 1 * d > 0) /\ (d < 0 => (-1) * d > 0)
    OBVIOUS
  <2>2. \A l \in DriftSample : strayed(l) \in Int
    BY <1>2
  <2> HIDE DEF strayed
  <2> QED
    BY <2>1, <2>2
<1>10. \A l \in DriftSample :
         /\ l \in Book /\ rows[l].status \in {"ACTIVE", "IN_GRACE"}
         /\ rows[l].predicted > 0
  BY DEF DriftSample
<1> QED
  BY <1>7, <1>8, <1>9, <1>10 DEF DriftHasCause

(* The loans of a cohort, and their ages. *)
LEMMA CohortType ==
  ASSUME CalendarInv, IsFiniteSet(Book), NEW c \in Cohort
  PROVE  /\ IsFiniteSet(Members(c))
         /\ \A l \in Members(c) : l \in Book /\ rows[l] \in Row /\ Mob(l) \in 0 .. Months
         /\ IsFiniteSet(Ages(c)) /\ Ages(c) \subseteq 0 .. Months
<1>1. IsFiniteSet(Members(c))
  BY FS_Subset DEF Members
<1>2. ASSUME NEW l \in Members(c)
      PROVE  l \in Book /\ rows[l] \in Row /\ Mob(l) \in 0 .. Months
  <2>1. l \in Book /\ l \in Loan /\ rows[l] \in Row
    BY DEF Members, Book, CalendarInv, TypeOK
  <2>2. Mob(l) = elapsed - born[l]
    BY <2>1, AgeOfLoan DEF MobCountsMonths
  <2>3. born[l] \in 0 .. Months /\ elapsed \in 0 .. Months /\ born[l] <= elapsed
    BY <2>1 DEF CalendarInv, TypeOK
  <2>4. Months \in Nat
    BY VintageAssumption
  <2> QED
    BY <2>1, <2>2, <2>3, <2>4
<1>3. IsFiniteSet(Ages(c))
  <2> DEFINE age == [l \in Members(c) |-> Mob(l)]
  <2>1. age \in Surjection(Members(c), Ages(c))
    BY DEF Surjection, Ages
  <2> QED
    BY <1>1, <2>1, FS_Surjection
<1> QED
  BY <1>1, <1>2, <1>3 DEF Ages

(* MobsOf lists the ages, the youngest first. *)
LEMMA MobsAreSorted ==
  ASSUME CalendarInv, IsFiniteSet(Book), NEW c \in Cohort
  PROVE  LET mobs == MobsOf(c)
             n == Cardinality(Ages(c))
         IN  /\ n \in Nat /\ (n = 0 <=> Members(c) = {})
             /\ mobs \in [1 .. n -> Ages(c)]
             /\ \A i, j \in 1 .. n : i < j => mobs[i] < mobs[j]
             /\ \A l \in Members(c) : \E i \in 1 .. n : mobs[i] = Mob(l)
<1> DEFINE A == Ages(c)
           n == Cardinality(A)
           mobs == MobsOf(c)
           w == [a \in A |-> a]
           Sorted(m) == \A i, j \in DOMAIN m : i < j => m[i] < m[j]
<1>1. IsFiniteSet(A) /\ \A a \in A : a \in Int
  <2>1. IsFiniteSet(A) /\ A \subseteq 0 .. Months
    BY CohortType
  <2>2. Months \in Nat
    BY VintageAssumption
  <2> QED
    BY <2>1, <2>2
<1>2. n \in Nat
  BY <1>1, FS_CardinalityType
<1>3. n = 0 <=> Members(c) = {}
  <2>1. n = 0 <=> A = {}
    BY <1>1, FS_EmptySet
  <2> QED
    BY <2>1 DEF Ages
<1> HIDE DEF A, n
<1>4. PICK E : Lists(E, A, w)
  <2>1. \A a \in A : w[a] \in Int
    BY <1>1
  <2> HIDE DEF w
  <2> QED
    BY <1>1, <2>1, ListExists
<1>5. E \in [1 .. n -> A] /\ Sorted(E)
  <2>1. E \in [1 .. n -> A]
    BY <1>4 DEF Lists, n
  <2>2. \A i, j \in 1 .. n : i < j => E[i] # E[j] /\ w[E[i]] <= w[E[j]]
    BY <1>2, <1>4 DEF Lists, n
  <2>3. \A i \in 1 .. n : E[i] \in A /\ E[i] \in Int /\ w[E[i]] = E[i]
    BY <1>1, <2>1
  <2>4. ASSUME NEW i \in 1 .. n, NEW j \in 1 .. n, i < j PROVE E[i] < E[j]
    <3>1. E[i] # E[j] /\ E[i] <= E[j]
      BY <2>2, <2>3, <2>4
    <3>2. E[i] \in Int /\ E[j] \in Int
      BY <2>3
    <3> QED
      BY <3>1, <3>2
  <2> QED
    BY <2>1, <2>4
<1>6. mobs \in [1 .. n -> A] /\ Sorted(mobs)
  <2>1. mobs = CHOOSE m \in [1 .. n -> A] : Sorted(m)
    BY Zenon DEF MobsOf, A, n
  <2> HIDE DEF mobs, Sorted
  <2> QED
    BY <1>5, <2>1
<1> HIDE DEF mobs
<1>7. \A i, j \in 1 .. n : i < j => mobs[i] < mobs[j]
  BY <1>6
<1>8. \A l \in Members(c) : \E i \in 1 .. n : mobs[i] = Mob(l)
  <2> SUFFICES ASSUME NEW l \in Members(c) PROVE \E i \in 1 .. n : mobs[i] = Mob(l)
    OBVIOUS
  <2>1. Mob(l) \in A
    BY DEF A, Ages
  <2>2. \A i \in 1 .. n : mobs[i] \in Int
    BY <1>1, <1>6
  <2>3. \A i, j \in 1 .. n : i # j => mobs[i] # mobs[j]
    <3> SUFFICES ASSUME NEW i \in 1 .. n, NEW j \in 1 .. n, i # j PROVE mobs[i] # mobs[j]
      OBVIOUS
    <3>1. i < j \/ j < i
      BY <1>2
    <3>2. mobs[i] < mobs[j] \/ mobs[j] < mobs[i]
      BY <1>7, <3>1
    <3> QED
      BY <2>2, <3>2
  <2> QED
    BY <1>1, <1>6, <2>1, <2>3, ListsAll DEF n
<1> QED
  BY <1>2, <1>3, <1>6, <1>7, <1>8 DEF A, n, mobs

(* The loans of a cohort that have defaulted, up to an age. *)
DefaultedUpTo(c, mob) ==
    {l \in Members(c) : Mob(l) <= mob /\ rows[l].status = "DEFAULTED"}

(* The sum of the defaults over the ages counts the loans: each of them is *)
(* of one age.                                                             *)
LEMMA DefaultsAddUp ==
  ASSUME CalendarInv, IsFiniteSet(Book), NEW c \in Cohort, NEW i \in 1 .. Cardinality(Ages(c))
  PROVE  CumulativeDefaults(c, MobsOf(c))[i] = Cardinality(DefaultedUpTo(c, MobsOf(c)[i]))
<1> DEFINE n == Cardinality(Ages(c))
           mobs == MobsOf(c)
           S == DefaultedUpTo(c, mobs[i])
           one == [l \in S |-> 1]
           At(j) == {l \in Members(c) : Mob(l) = mobs[j] /\ rows[l].status = "DEFAULTED"}
           Part == [j \in 1 .. i |-> At(j)]
           defaults == [j \in DOMAIN mobs |-> DefaultsAt(c, mobs[j])]
<1>1. /\ n \in Nat
      /\ mobs \in [1 .. n -> Ages(c)]
      /\ \A j, k \in 1 .. n : j < k => mobs[j] < mobs[k]
      /\ \A l \in Members(c) : \E j \in 1 .. n : mobs[j] = Mob(l)
  BY MobsAreSorted
<1>2. /\ IsFiniteSet(Members(c))
      /\ \A l \in Members(c) : Mob(l) \in Int
      /\ \A j \in 1 .. n : mobs[j] \in Int
  <2>1. Months \in Nat
    BY VintageAssumption
  <2> QED
    BY <1>1, <2>1, CohortType
<1>3. IsFiniteSet(S) /\ IsFiniteSet(1 .. i) /\ 1 .. i \subseteq 1 .. n
  <2>1. IsFiniteSet(S)
    BY <1>2, FS_Subset DEF DefaultedUpTo
  <2>2. i \in Int
    BY <1>1
  <2>3. IsFiniteSet(1 .. i)
    BY <2>2, FS_Interval
  <2> QED
    BY <1>1, <2>1, <2>2, <2>3
<1> HIDE DEF n, mobs
<1>4. \A j \in 1 .. i : mobs[j] <= mobs[i]
  <2> SUFFICES ASSUME NEW j \in 1 .. i PROVE mobs[j] <= mobs[i]
    OBVIOUS
  <2>1. i \in 1 .. n
    BY DEF n
  <2>2. j = i \/ (j < i /\ j \in 1 .. n)
    BY <1>1, <2>1
  <2> QED
    BY <1>1, <1>2, <2>1, <2>2
<1>5. Part \in [1 .. i -> SUBSET S]
  <2> SUFFICES ASSUME NEW j \in 1 .. i PROVE At(j) \subseteq S
    OBVIOUS
  <2> QED
    BY <1>4 DEF DefaultedUpTo
<1>6. ASSUME NEW l \in S
      PROVE  \E j \in 1 .. i : l \in Part[j] /\ \A k \in 1 .. i : l \in Part[k] => k = j
  <2>1. l \in Members(c) /\ Mob(l) <= mobs[i] /\ rows[l].status = "DEFAULTED"
    BY DEF DefaultedUpTo
  <2>2. PICK j \in 1 .. n : mobs[j] = Mob(l)
    BY <1>1, <2>1
  <2>i. i \in 1 .. n
    BY DEF n
  <2>3. j \in 1 .. i
    <3>1. ~ (i < j)
      <4> SUFFICES ASSUME i < j PROVE FALSE
        OBVIOUS
      <4>1. mobs[i] < mobs[j] /\ mobs[j] <= mobs[i]
        BY <1>1, <2>1, <2>2, <2>i
      <4>2. mobs[i] \in Int /\ mobs[j] \in Int
        BY <1>2, <2>i
      <4> QED
        BY <4>1, <4>2
    <3> QED
      BY <1>1, <2>i, <3>1
  <2>4. l \in Part[j]
    BY <2>1, <2>2, <2>3
  <2>5. ASSUME NEW k \in 1 .. i, l \in Part[k] PROVE k = j
    <3>1. mobs[k] = mobs[j] /\ k \in 1 .. n
      BY <1>3, <2>2, <2>5
    <3>2. ~ (k < j) /\ ~ (j < k)
      <4>1. mobs[k] \in Int /\ mobs[j] \in Int
        BY <1>2, <3>1
      <4>2. ~ (mobs[k] < mobs[j]) /\ ~ (mobs[j] < mobs[k])
        BY <3>1, <4>1
      <4> QED
        BY <1>1, <3>1, <4>2
    <3> QED
      BY <1>1, <3>1, <3>2
  <2> QED
    BY <2>3, <2>4, <2>5
<1>7. ASSUME NEW j \in 1 .. i PROVE defaults[j] = SumFunctionOnSet(one, Part[j])
  <2>1. j \in DOMAIN mobs
    BY <1>1, <1>3
  <2>2. defaults[j] = Cardinality(At(j))
    BY <2>1 DEF DefaultsAt
  <2>3. Part[j] = At(j) /\ Part[j] \subseteq S
    BY <1>5
  <2>4. IsFiniteSet(Part[j]) /\ \A l \in Part[j] : one[l] = 1
    BY <1>3, <2>3, FS_Subset
  <2> HIDE DEF one, At, Part, S, defaults
  <2>5. SumFunctionOnSet(one, Part[j]) = Cardinality(Part[j])
    BY <2>4, SumCounts
  <2> QED
    BY <2>2, <2>3, <2>5
<1>8. \A l \in S : one[l] \in Int /\ one[l] = 1
  OBVIOUS
<1>9. CumulativeDefaults(c, mobs)[i] = SumFunctionOnSet(defaults, 1 .. i)
  <2>1. i \in DOMAIN mobs
    BY <1>1 DEF n
  <2> QED
    BY <2>1 DEF CumulativeDefaults
<1>10. SumFunctionOnSet(one, S) = Cardinality(S)
  <2> HIDE DEF one, S
  <2> QED
    BY <1>3, <1>8, SumCounts
<1> HIDE DEF one, Part, S, defaults
<1>11. SumFunctionOnSet(defaults, 1 .. i) = SumFunctionOnSet(one, S)
  BY <1>3, <1>5, <1>6, <1>7, <1>8, SumOfParts
<1> QED
  BY <1>9, <1>10, <1>11 DEF S, mobs

(* The points of a curve: MobsAreSorted gives their order, DefaultsAddUp   *)
(* their height.                                                           *)
LEMMA CurveIsProper == CalendarInv /\ IsFiniteSet(Book) => CurveAccumulates
<1> SUFFICES ASSUME CalendarInv, IsFiniteSet(Book), NEW c \in Cohort
    PROVE LET curve == Curve(c)
              upTo(mob) == {l \in Members(c) : Mob(l) <= mob /\ rows[l].status = "DEFAULTED"}
          IN  /\ curve = <<>> <=> Members(c) = {}
              /\ \A i, j \in DOMAIN curve :
                   i < j => curve[i].months_on_book < curve[j].months_on_book
              /\ \A i \in DOMAIN curve :
                   curve[i].actual = Cardinality(upTo(curve[i].months_on_book))
              /\ curve # <<>> =>
                   curve[Len(curve)].actual =
                     Cardinality({l \in Members(c) : rows[l].status = "DEFAULTED"})
              /\ \A i \in DOMAIN curve :
                   /\ curve[i].actual <= curve[i].size
                   /\ curve[i].expected <= curve[i].size * Unit * Unit
  BY DEF CurveAccumulates
<1> DEFINE n == Cardinality(Ages(c))
           mobs == MobsOf(c)
           curve == Curve(c)
           point(i) == [months_on_book |-> mobs[i],
                        actual |-> CumulativeDefaults(c, mobs)[i],
                        expected |-> Expected(c, mobs[i]),
                        size |-> Cardinality(Members(c))]
<1>1. /\ n \in Nat /\ (n = 0 <=> Members(c) = {})
      /\ mobs \in [1 .. n -> Ages(c)]
      /\ \A i, j \in 1 .. n : i < j => mobs[i] < mobs[j]
      /\ \A l \in Members(c) : \E i \in 1 .. n : mobs[i] = Mob(l)
  BY MobsAreSorted
<1>2. curve = [i \in 1 .. n |-> point(i)]
  BY <1>1 DEF Curve
<1>3. \A i \in 1 .. n : CumulativeDefaults(c, mobs)[i] = Cardinality(DefaultedUpTo(c, mobs[i]))
  BY DefaultsAddUp
<1> HIDE DEF n, mobs, curve
<1>4. /\ DOMAIN curve = 1 .. n
      /\ \A i \in 1 .. n : /\ curve[i].months_on_book = mobs[i]
                           /\ curve[i].actual = Cardinality(DefaultedUpTo(c, mobs[i]))
                           /\ curve[i].expected = Expected(c, mobs[i])
                           /\ curve[i].size = Cardinality(Members(c))
  BY <1>2, <1>3
<1>5. curve \in Seq({point(i) : i \in 1 .. n}) /\ Len(curve) = n
  BY <1>1, <1>2
<1>6. curve = <<>> <=> n = 0
  <2>1. curve = <<>> <=> Len(curve) = 0
    BY <1>5, EmptySeq
  <2> QED
    BY <1>5, <2>1
<1>7. IsFiniteSet(Members(c)) /\ \A l \in Members(c) : Mob(l) \in 0 .. Months /\ rows[l] \in Row
  BY CohortType
<1>8. \A i \in 1 .. n : mobs[i] \in 0 .. Months
  BY <1>1, CohortType
<1>9. ASSUME n # 0
      PROVE  curve[Len(curve)].actual =
               Cardinality({l \in Members(c) : rows[l].status = "DEFAULTED"})
  <2>1. n \in 1 .. n
    BY <1>1, <1>9
  <2>2. ASSUME NEW l \in Members(c) PROVE Mob(l) <= mobs[n]
    <3>1. PICK i \in 1 .. n : mobs[i] = Mob(l)
      BY <1>1
    <3>2. Months \in Nat
      BY VintageAssumption
    <3>3. mobs[i] \in Int /\ mobs[n] \in Int
      BY <1>8, <2>1, <3>2
    <3>4. i = n \/ i < n
      BY <1>1
    <3> QED
      BY <1>1, <2>1, <3>1, <3>3, <3>4
  <2>3. DefaultedUpTo(c, mobs[n]) = {l \in Members(c) : rows[l].status = "DEFAULTED"}
    BY <2>2 DEF DefaultedUpTo
  <2> QED
    BY <1>4, <1>5, <2>1, <2>3
<1>10. ASSUME NEW i \in 1 .. n PROVE curve[i].actual <= curve[i].size
  <2>1. DefaultedUpTo(c, mobs[i]) \in SUBSET Members(c)
    BY DEF DefaultedUpTo
  <2>2. Cardinality(DefaultedUpTo(c, mobs[i])) <= Cardinality(Members(c))
    BY <1>7, <2>1, FS_Subset
  <2> QED
    BY <1>4, <2>2
<1>11. ASSUME NEW i \in 1 .. n PROVE curve[i].expected <= curve[i].size * Unit * Unit
  <2> DEFINE mob == mobs[i]
             predicted == [l \in Members(c) |-> rows[l].predicted]
             p == SumFunction(predicted) * Blend(mob)
             one == Cardinality(Members(c)) * Unit * Unit
  <2>1. \A l \in Members(c) : predicted[l] \in Int
    BY <1>7, VintageAssumption
  <2>2. SumFunction(predicted) = SumFunctionOnSet(predicted, Members(c))
    BY Zenon DEF SumFunction
  <2>3. SumFunctionOnSet(predicted, Members(c)) \in Int
    <3> HIDE DEF predicted
    <3> QED
      BY <1>7, <2>1, SumType
  <2>4. Blend(mob) \in Int
    <3>1. mob \in 0 .. Months
      BY <1>8
    <3>2. Blend(mob) \in 0 .. Unit /\ Unit \in Nat
      BY <3>1, VintageAssumption
    <3> QED
      BY <3>2
  <2>5. p \in Int
    <3> HIDE DEF predicted, mob
    <3> QED
      BY <2>2, <2>3, <2>4
  <2>6. one \in Int
    <3>1. Cardinality(Members(c)) \in Nat /\ Unit \in Nat
      BY <1>7, FS_CardinalityType, VintageAssumption
    <3> QED
      BY <3>1
  <2>7. Expected(c, mob) = IF p < one THEN p ELSE one
    BY Zenon DEF Expected
  <2> HIDE DEF p, one
  <2>8. Expected(c, mob) <= one
    BY <2>5, <2>6, <2>7
  <2> QED
    BY <1>4, <2>8 DEF one
<1>12. \A i, j \in DOMAIN curve : i < j => curve[i].months_on_book < curve[j].months_on_book
  BY <1>1, <1>4
<1>13. \A i \in DOMAIN curve :
          curve[i].actual = Cardinality({l \in Members(c) : Mob(l) <= curve[i].months_on_book
                                                      /\ rows[l].status = "DEFAULTED"})
  <2> SUFFICES ASSUME NEW i \in DOMAIN curve
      PROVE curve[i].actual = Cardinality({l \in Members(c) : Mob(l) <= curve[i].months_on_book
                                                      /\ rows[l].status = "DEFAULTED"})
    OBVIOUS
  <2> QED
    BY <1>4 DEF DefaultedUpTo
<1>14. curve = <<>> <=> Members(c) = {}
  BY <1>1, <1>6
<1>15. \A i \in DOMAIN curve : /\ curve[i].actual <= curve[i].size
                               /\ curve[i].expected <= curve[i].size * Unit * Unit
  BY <1>4, <1>10, <1>11
<1>16. curve # <<>> => curve[Len(curve)].actual =
               Cardinality({l \in Members(c) : rows[l].status = "DEFAULTED"})
  BY <1>6, <1>9
<1> QED
  BY <1>12, <1>13, <1>14, <1>15, <1>16 DEF curve

(* The curve of a cohort is a proper cumulative distribution and its PDs   *)
(* are probabilities (build_vintage_curve), for every cohort of every book.*)
THEOREM CurveIsCumulative == Spec => []CurveAccumulates
<1>1. IInv => CurveAccumulates
  BY CurveIsProper DEF IInv
<1> QED
  BY <1>1, Invariance, PTL

(* The drift (compute_pd_drift) has a sign only if a loan has strayed that *)
(* way.                                                                    *)
THEOREM DriftMeansStraying == Spec => []DriftHasCause
<1>1. IInv => DriftHasCause
  BY DriftCause DEF IInv
<1> QED
  BY <1>1, Invariance, PTL

-----------------------------------------------------------------------------
(* The index and the grid. *)

(* The sums of Concentration are the sums above. *)
LEMMA ConSum == \A F, S : Con!SumFunctionOnSet(F, S) = SumFunctionOnSet(F, S)
  BY Zenon DEF Con!SumFunctionOnSet, Con!FoldFunctionOnSet, Con!MapThenFoldSet,
               SumFunctionOnSet, FoldFunctionOnSet, MapThenFoldSet

(* So are those over all there is. *)
LEMMA ConSumAll == \A F : Con!SumFunction(F) = SumFunctionOnSet(F, DOMAIN F)
  BY ConSum DEF Con!SumFunction

(* And it counts as one does. *)
LEMMA ConCard == \A S : Con!Cardinality(S) = Cardinality(S)
  BY DEF Con!Cardinality, Cardinality

(* What is owed on each loan. *)
Owing == [l \in Book |-> rows[l].outstanding]

(* What Concentration makes of the rows. *)
LEMMA ConcentrationOfRows ==
  /\ Con!Loans = Book
  /\ \A L : Con!Outstanding(L) = SumFunctionOnSet(Owing, L)
  /\ Con!Active = {l \in Book : rows[l].status \in {"ACTIVE", "IN_GRACE"}}
  /\ Con!Sectors = {rows[l].sector : l \in Con!Active}
  /\ \A s : Con!OfSector(s) = {l \in Con!Active : rows[l].sector = s}
  /\ Con!Cells = {<<rows[l].sector, rows[l].emirate>> : l \in Con!Active}
  /\ \A c : Con!OfCell(c) = {l \in Con!Active : <<rows[l].sector, rows[l].emirate>> = c}
<1> DEFINE b == [l \in Book |-> rows[l]]
<1>1. Con!Loans = Book
  BY DEF Con!Loans
<1>2. [l \in Con!Loans |-> b[l].outstanding] = Owing
  BY <1>1 DEF Owing
<1>3. \A L : Con!Outstanding(L) = SumFunctionOnSet(Owing, L)
  BY <1>2, ConSum DEF Con!Outstanding
<1>4. Con!Active = {l \in Book : rows[l].status \in {"ACTIVE", "IN_GRACE"}}
  BY <1>1 DEF Con!Active
<1>5. \A l \in Con!Active : l \in Book /\ b[l] = rows[l]
  BY <1>4
<1>6. Con!Sectors = {rows[l].sector : l \in Con!Active}
  BY <1>5 DEF Con!Sectors
<1>7. \A s : Con!OfSector(s) = {l \in Con!Active : rows[l].sector = s}
  BY <1>5 DEF Con!OfSector
<1>8. Con!Cells = {<<rows[l].sector, rows[l].emirate>> : l \in Con!Active}
  BY <1>5 DEF Con!Cells
<1>9. \A c : Con!OfCell(c) = {l \in Con!Active : <<rows[l].sector, rows[l].emirate>> = c}
  BY <1>5 DEF Con!OfCell
<1> QED
  BY <1>1, <1>3, <1>4, <1>6, <1>7, <1>8, <1>9

(* The active book, and the amounts in it. *)
LEMMA ActiveType ==
  ASSUME CalendarInv, IsFiniteSet(Book)
  PROVE  /\ IsFiniteSet(Con!Active) /\ Con!Active \subseteq Book
         /\ \A l \in Book : /\ Owing[l] = rows[l].outstanding /\ Owing[l] \in Int
                            /\ rows[l].current \in Nat
<1>1. Con!Active \subseteq Book
  BY ConcentrationOfRows
<1>2. IsFiniteSet(Con!Active)
  BY <1>1, FS_Subset
<1>3. ASSUME NEW l \in Book
      PROVE  Owing[l] = rows[l].outstanding /\ Owing[l] \in Int /\ rows[l].current \in Nat
  <2>1. rows[l] \in Row
    BY DEF Book, CalendarInv, TypeOK
  <2> QED
    BY <2>1, VintageAssumption, ExposureAssumption DEF Owing
<1> QED
  BY <1>1, <1>2, <1>3

(* The amounts of the sectors are a breakdown of the exposure; the squares *)
(* of natural numbers fit into the square of their sum, and those of the n *)
(* sectors with exposure make up an n-th of it or more.                    *)
LEMMA IndexMeasures == CalendarInv /\ IsFiniteSet(Book) => IndexMeasuresConcentration
<1> DEFINE holders == {s \in Con!Sectors : Con!Amount(s) > 0}
           holding == Cardinality(holders)
           Hhi == Con!Hhi
<1> SUFFICES ASSUME CalendarInv, IsFiniteSet(Book), ~Con!Empty,
                    \A s \in Con!Sectors : Con!Amount(s) >= 0
             PROVE  /\ Hhi[1] <= Hhi[2]
                    /\ Hhi[2] <= holding * Hhi[1]
                    /\ Hhi[1] = Hhi[2] <=> holding = 1
  BY ConCard, Zenon DEF IndexMeasuresConcentration, Con!IndexMeasuresConcentration
<1> DEFINE Sec == Con!Sectors
           Act == Con!Active
           amount == [s \in Sec |-> Con!Amount(s)]
           square == [s \in Sec |-> Con!Amount(s) * Con!Amount(s)]
           total == SumFunctionOnSet(Owing, Act)
           Part == [s \in Sec |-> Con!OfSector(s)]
<1>1. /\ IsFiniteSet(Act)
      /\ \A l \in Act : Owing[l] \in Int
  BY ActiveType
<1>2. IsFiniteSet(Sec)
  <2> DEFINE sector == [l \in Act |-> rows[l].sector]
  <2>1. sector \in Surjection(Act, Sec)
    BY ConcentrationOfRows DEF Surjection
  <2> QED
    BY <1>1, <2>1, FS_Surjection
<1>3. /\ Part \in [Sec -> SUBSET Act]
      /\ \A l \in Act : \E s \in Sec : l \in Part[s] /\ \A r \in Sec : l \in Part[r] => r = s
  <2>1. \A s \in Sec : Part[s] = {l \in Act : rows[l].sector = s}
    BY ConcentrationOfRows
  <2>2. \A l \in Act : rows[l].sector \in Sec
    BY ConcentrationOfRows
  <2>3. Part \in [Sec -> SUBSET Act]
    BY ConcentrationOfRows
  <2> HIDE DEF Part, Sec, Act
  <2> QED
    BY <2>1, <2>2, <2>3
<1>4. \A s \in Sec : amount[s] = SumFunctionOnSet(Owing, Part[s])
  BY ConcentrationOfRows DEF Con!Amount
<1>5. \A s \in Sec : amount[s] \in Nat
  <2> SUFFICES ASSUME NEW s \in Sec PROVE amount[s] \in Nat
    OBVIOUS
  <2>1. IsFiniteSet(Part[s]) /\ \A l \in Part[s] : Owing[l] \in Int
    <3>1. Part[s] \in SUBSET Act
      BY <1>3
    <3> HIDE DEF Part, Act
    <3> QED
      BY <1>1, <3>1, FS_Subset
  <2>2. SumFunctionOnSet(Owing, Part[s]) \in Int
    <3> HIDE DEF Part
    <3> QED
      BY <2>1, SumType
  <2>3. amount[s] >= 0
    OBVIOUS
  <2> HIDE DEF amount, Part
  <2> QED
    BY <1>4, <2>2, <2>3
<1>6. \A s \in Sec : square[s] = amount[s] * amount[s] /\ square[s] \in Int
  <2>1. \A s \in Sec : square[s] = amount[s] * amount[s]
    OBVIOUS
  <2> HIDE DEF square, amount
  <2> QED
    BY <1>5, <2>1
<1>7. Hhi[1] = SumFunctionOnSet(square, Sec) /\ Hhi[2] = total * total /\ ~ (total <= 0)
  <2>1. Con!Outstanding(Act) = total
    BY ConcentrationOfRows
  <2>2. Hhi = <<Con!SumFunction(square), Con!Outstanding(Act) * Con!Outstanding(Act)>>
    BY DEF Con!Hhi
  <2>3. Con!SumFunction(square) = SumFunctionOnSet(square, Sec)
    BY ConSumAll
  <2>4. ~ (Con!Outstanding(Act) <= 0)
    BY DEF Con!Empty
  <2> HIDE DEF square, total, Act
  <2> QED
    BY <2>1, <2>2, <2>3, <2>4
<1>8. holders = {s \in Sec : amount[s] > 0}
  OBVIOUS
<1> HIDE DEF Hhi, amount, square, Part, Sec, Act, holders
<1>9. SumFunctionOnSet(amount, Sec) = total
  BY <1>1, <1>2, <1>3, <1>4, SumOfParts
<1>10. total \in Int
  BY <1>1, SumType
<1> HIDE DEF total
<1>11. /\ SumFunctionOnSet(square, Sec) <= total * total
       /\ \A x, y \in Sec : x # y /\ amount[x] > 0 /\ amount[y] > 0
                              => SumFunctionOnSet(square, Sec) < total * total
  BY <1>2, <1>5, <1>6, <1>9, SquaresFit
<1>12. SumFunctionOnSet(square, Sec) \in Int
  BY <1>2, <1>6, SumType
<1>13. holders \in SUBSET Sec /\ \A s \in Sec \ holders : amount[s] = 0 /\ square[s] = 0
  <2>1. holders \in SUBSET Sec
    BY <1>8
  <2>2. ASSUME NEW s \in Sec \ holders PROVE amount[s] = 0 /\ square[s] = 0
    <3>1. amount[s] = 0
      BY <1>5, <1>8
    <3> QED
      BY <1>6, <3>1
  <2> QED
    BY <2>1, <2>2
<1>14. IsFiniteSet(holders)
  BY <1>2, <1>13, FS_Subset
<1>15. total * total <= holding * SumFunctionOnSet(square, Sec)
  <2>1. SumFunctionOnSet(amount, holders) = total
    <3>1. \A s \in Sec : amount[s] \in Int
      BY <1>5
    <3> QED
      BY <1>2, <1>9, <1>13, <3>1, SumOfSome
  <2>2. SumFunctionOnSet(square, holders) = SumFunctionOnSet(square, Sec)
    BY <1>2, <1>6, <1>13, SumOfSome
  <2>3. \A s \in holders : amount[s] \in Int
    BY <1>5, <1>13
  <2>4. \A s \in holders : square[s] = amount[s] * amount[s]
    BY <1>6, <1>13
  <2>5. SumFunctionOnSet(amount, holders) * SumFunctionOnSet(amount, holders)
          <= Cardinality(holders) * SumFunctionOnSet(square, holders)
    BY <1>14, <2>3, <2>4, CauchySchwarz
  <2> QED
    BY <2>1, <2>2, <2>5
<1>16. holding \in Nat
  BY <1>14, FS_CardinalityType
<1>17. ASSUME holding = 1 PROVE SumFunctionOnSet(square, Sec) = total * total
  <2>1. total * total <= SumFunctionOnSet(square, Sec)
    BY <1>12, <1>15, <1>17
  <2> QED
    BY <1>10, <1>11, <1>12, <2>1
<1>18. ASSUME SumFunctionOnSet(square, Sec) = total * total PROVE holding = 1
  <2>1. holders # {}
    <3> SUFFICES ASSUME holders = {} PROVE FALSE
      OBVIOUS
    <3>1. \A s \in Sec : amount[s] = 0
      BY <1>13
    <3>2. total = 0
      BY <1>2, <1>9, <3>1, SumOfZeros
    <3> QED
      BY <1>7, <3>2
  <2>2. PICK x \in holders : TRUE
    BY <2>1
  <2>3. \A y \in holders : y = x
    <3> SUFFICES ASSUME NEW y \in holders, y # x PROVE FALSE
      OBVIOUS
    <3>1. SumFunctionOnSet(square, Sec) < total * total
      BY <1>8, <1>11
    <3>2. total * total \in Int
      BY <1>10
    <3> QED
      BY <1>12, <1>18, <3>1, <3>2
  <2>4. holders = {x}
    BY <2>3
  <2> QED
    BY <2>4, FS_Singleton
<1> HIDE DEF holding
<1> QED
  BY <1>7, <1>11, <1>15, <1>17, <1>18

(* The PD of a cell lies between those of its drawn loans: were they all   *)
(* above it, or all below, so would the weighted sum be.                   *)
LEMMA PdOfCell ==
  ASSUME CalendarInv, IsFiniteSet(Book), NEW c
  PROVE  LET cell == Con!OfCell(c)
             pd == Con!WeightedPd(c)
             drawn == {l \in cell : Owing[l] > 0}
         IN  /\ drawn = {} => pd[1] = 0
             /\ drawn # {} /\ (\A l \in cell : Owing[l] >= 0) =>
                  /\ \E l \in drawn : rows[l].current * pd[2] <= pd[1]
                  /\ \E l \in drawn : rows[l].current * pd[2] >= pd[1]
<1> DEFINE cell == Con!OfCell(c)
           pd == Con!WeightedPd(c)
           drawn == {l \in cell : Owing[l] > 0}
           due == [l \in cell |-> rows[l].current * rows[l].outstanding]
           weight == SumFunctionOnSet(Owing, cell)
           sum == SumFunctionOnSet(due, cell)
           pull == [l \in cell |-> sum * Owing[l]]
           push == [l \in cell |-> weight * due[l]]
<1>1. cell \subseteq Con!Active /\ cell \subseteq Book
  BY ConcentrationOfRows
<1>2. /\ IsFiniteSet(cell)
      /\ \A l \in cell : /\ Owing[l] = rows[l].outstanding /\ Owing[l] \in Int
                         /\ rows[l].current \in Nat
  BY <1>1, ActiveType, FS_Subset
<1>3. pd = IF weight > 0 THEN <<sum, weight>> ELSE <<0, 1>>
  <2> DEFINE b == [l \in Book |-> rows[l]]
  <2>1. \A l \in cell : b[l] = rows[l]
    BY <1>1
  <2>2. [l \in cell |-> b[l].current * b[l].outstanding] = due
    BY <2>1
  <2>3. Con!SumFunction(due) = sum
    BY ConSumAll
  <2>4. Con!Outstanding(cell) = weight
    BY ConcentrationOfRows
  <2>5. pd = IF Con!Outstanding(cell) > 0
             THEN <<Con!SumFunction([l \in cell |-> b[l].current * b[l].outstanding]),
                    Con!Outstanding(cell)>>
             ELSE <<0, 1>>
    BY DEF Con!WeightedPd
  <2> HIDE DEF cell, pd, due, sum, weight
  <2> QED
    BY <2>2, <2>3, <2>4, <2>5
<1>4. \A l \in cell : due[l] = rows[l].current * Owing[l] /\ due[l] \in Int
  BY <1>2
<1> HIDE DEF cell, pd, due
<1>5. weight \in Int /\ sum \in Int
  BY <1>2, <1>4, SumType
<1> HIDE DEF weight, sum
<1>6. ASSUME drawn = {} PROVE pd[1] = 0
  <2>1. \A l \in cell : Owing[l] <= 0
    BY <1>2, <1>6
  <2>2. weight <= 0
    BY <1>2, <2>1, SumSign DEF weight
  <2> QED
    BY <1>3, <1>5, <2>2
<1>7. ASSUME drawn # {}, \A l \in cell : Owing[l] >= 0
      PROVE  /\ \E l \in drawn : rows[l].current * pd[2] <= pd[1]
             /\ \E l \in drawn : rows[l].current * pd[2] >= pd[1]
  <2>1. PICK d \in drawn : TRUE
    BY <1>7
  <2>2. d \in cell /\ Owing[d] > 0 /\ Owing[d] \in Int
    BY <1>2
  <2>3. weight > 0
    <3>1. \A l \in cell : Owing[l] \in Nat
      BY <1>2, <1>7
    <3>2. Owing[d] <= weight
      BY <1>2, <2>2, <3>1, SumBoundsTerms DEF weight
    <3> QED
      BY <1>5, <2>2, <3>2
  <2>4. pd[1] = sum /\ pd[2] = weight
    BY <1>3, <2>3
  <2>5. ASSUME NEW l \in cell
        PROVE  /\ pull[l] \in Int /\ push[l] \in Int
               /\ pull[l] = sum * Owing[l] /\ push[l] = weight * due[l]
               /\ push[l] = (rows[l].current * weight) * Owing[l]
               /\ rows[l].current * weight \in Int
    <3> DEFINE x == rows[l].current
               o == Owing[l]
               u == due[l]
    <3>1. x \in Nat /\ o \in Int /\ u = x * o /\ u \in Int
      BY <1>2, <1>4
    <3>2. pull[l] = sum * o /\ push[l] = weight * u
      OBVIOUS
    <3> HIDE DEF x, o, u
    <3>3. sum * o \in Int /\ weight * u \in Int /\ x * weight \in Int
      BY <1>5, <3>1
    <3>4. weight * u = (x * weight) * o
      BY <1>5, <3>1
    <3> HIDE DEF pull, push
    <3>5. pull[l] \in Int /\ push[l] \in Int /\ push[l] = (x * weight) * o /\ x * weight \in Int
      BY <3>2, <3>3, <3>4
    <3> QED
      BY <3>2, <3>5 DEF x, o, u
  <2>6. SumFunctionOnSet(pull, cell) = sum * weight
    <3>1. \A l \in cell : Owing[l] \in Int /\ pull[l] = sum * Owing[l]
      BY <1>2, <2>5
    <3> HIDE DEF pull
    <3> QED
      BY <1>2, <1>5, <3>1, SumScales DEF weight
  <2>7. SumFunctionOnSet(push, cell) = weight * sum
    <3>1. \A l \in cell : due[l] \in Int /\ push[l] = weight * due[l]
      BY <1>4, <2>5
    <3> HIDE DEF push
    <3> QED
      BY <1>2, <1>5, <3>1, SumScales DEF sum
  <2>8. SumFunctionOnSet(pull, cell) = SumFunctionOnSet(push, cell) /\ sum * weight \in Int
    BY <1>5, <2>6, <2>7
  <2>9. \A l \in cell : l \notin drawn => Owing[l] = 0
    BY <1>2, <1>7
  <2> HIDE DEF pull, push
  <2>10. \A p, q \in Int : \A o \in Nat : /\ p < q => p * o <= q * o
                                          /\ p < q /\ o > 0 => p * o < q * o
                                          /\ p * 0 = 0
    OBVIOUS
  <2>o. \A l \in cell : Owing[l] \in Nat
    BY <1>2, <1>7
  <2>11. \E l \in drawn : rows[l].current * weight <= sum
    <3> SUFFICES ASSUME \A l \in drawn : ~ (rows[l].current * weight <= sum) PROVE FALSE
      OBVIOUS
    <3>1. ASSUME NEW l \in cell PROVE pull[l] <= push[l] /\ (l \in drawn => pull[l] < push[l])
      <4> DEFINE x == rows[l].current * weight
                 o == Owing[l]
      <4>1. /\ x \in Int /\ o \in Nat /\ pull[l] = sum * o /\ push[l] = x * o
        BY <2>5, <2>o
      <4>2. l \in drawn => sum < x /\ o > 0
        BY <1>5, <4>1
      <4>3. l \notin drawn => o = 0
        BY <2>9
      <4> HIDE DEF x, o, drawn
      <4>4. CASE l \in drawn
        BY <1>5, <2>10, <4>1, <4>2, <4>4
      <4>5. CASE l \notin drawn
        BY <1>5, <2>10, <4>1, <4>3, <4>5
      <4> QED
        BY <4>4, <4>5
    <3>2. \A l \in cell : pull[l] \in Int /\ push[l] \in Int /\ pull[l] <= push[l]
      BY <2>5, <3>1
    <3>3. pull[d] < push[d]
      BY <2>2, <3>1
    <3>4. SumFunctionOnSet(pull, cell) < SumFunctionOnSet(push, cell)
      BY <1>2, <2>2, <3>2, <3>3, SumGrowsStrictly
    <3> QED
      BY <2>6, <2>8, <3>4
  <2>12. \E l \in drawn : rows[l].current * weight >= sum
    <3> SUFFICES ASSUME \A l \in drawn : ~ (rows[l].current * weight >= sum) PROVE FALSE
      OBVIOUS
    <3>1. ASSUME NEW l \in cell PROVE push[l] <= pull[l] /\ (l \in drawn => push[l] < pull[l])
      <4> DEFINE x == rows[l].current * weight
                 o == Owing[l]
      <4>1. /\ x \in Int /\ o \in Nat /\ pull[l] = sum * o /\ push[l] = x * o
        BY <2>5, <2>o
      <4>2. l \in drawn => x < sum /\ o > 0
        BY <1>5, <4>1
      <4>3. l \notin drawn => o = 0
        BY <2>9
      <4> HIDE DEF x, o, drawn
      <4>4. CASE l \in drawn
        BY <1>5, <2>10, <4>1, <4>2, <4>4
      <4>5. CASE l \notin drawn
        BY <1>5, <2>10, <4>1, <4>3, <4>5
      <4> QED
        BY <4>4, <4>5
    <3>2. \A l \in cell : pull[l] \in Int /\ push[l] \in Int /\ push[l] <= pull[l]
      BY <2>5, <3>1
    <3>3. push[d] < pull[d]
      BY <2>2, <3>1
    <3>4. SumFunctionOnSet(push, cell) < SumFunctionOnSet(pull, cell)
      BY <1>2, <2>2, <3>2, <3>3, SumGrowsStrictly
    <3> QED
      BY <2>6, <2>8, <3>4
  <2> QED
    BY <2>4, <2>11, <2>12
<1> QED
  BY <1>6, <1>7 DEF cell, pd

(* Exposures lists the table, the largest first. *)
LEMMA TableIsListed ==
  ASSUME CalendarInv, IsFiniteSet(Book), ~Con!Empty
  PROVE  LET E == Con!Exposures
             n == Cardinality(Con!Table)
         IN  /\ n \in Nat
             /\ E \in [1 .. n -> Con!Table]
             /\ \A i, j \in 1 .. n : i # j => E[i] # E[j]
             /\ \A i, j \in 1 .. n : i < j => E[i].outstanding_aed >= E[j].outstanding_aed
             /\ \A t \in Con!Table : \E i \in 1 .. n : E[i] = t
<1> DEFINE T == Con!Table
           n == Cardinality(T)
           w == [t \in T |-> 0 - t.outstanding_aed]
           Good(e) == /\ Con!IsInjective(e)
                      /\ \A i, j \in DOMAIN e :
                           i < j => e[i].outstanding_aed >= e[j].outstanding_aed
<1>1. IsFiniteSet(T)
  <2> DEFINE cell == [l \in Con!Active |-> <<rows[l].sector, rows[l].emirate>>]
             line == [c \in Con!Cells |-> Con!Exposure(c)]
  <2>1. cell \in Surjection(Con!Active, Con!Cells)
    BY ConcentrationOfRows DEF Surjection
  <2>2. IsFiniteSet(Con!Cells)
    BY <2>1, ActiveType, FS_Surjection
  <2>3. line \in Surjection(Con!Cells, Con!Table)
    BY DEF Surjection, Con!Table
  <2> QED
    BY <2>2, <2>3, FS_Surjection
<1>2. \A t \in T : t.outstanding_aed \in Int
  <2> SUFFICES ASSUME NEW c \in Con!Cells PROVE Con!Exposure(c).outstanding_aed \in Int
    BY DEF Con!Table
  <2>1. Con!OfCell(c) \subseteq Con!Active
    BY ConcentrationOfRows
  <2>2. IsFiniteSet(Con!OfCell(c)) /\ \A l \in Con!OfCell(c) : Owing[l] \in Int
    BY <2>1, ActiveType, FS_Subset
  <2>3. SumFunctionOnSet(Owing, Con!OfCell(c)) \in Int
    BY <2>2, SumType
  <2> QED
    BY <2>3, ConcentrationOfRows DEF Con!Exposure
<1>3. n \in Nat
  BY <1>1, FS_CardinalityType
<1> HIDE DEF T
<1>4. PICK L : Lists(L, T, w)
  <2>1. \A t \in T : w[t] \in Int
    BY <1>2
  <2> HIDE DEF w
  <2> QED
    BY <1>1, <2>1, ListExists
<1>5. L \in [1 .. n -> T] /\ Good(L)
  <2>1. /\ L \in [1 .. n -> T]
        /\ \A i, j \in 1 .. n : i # j => L[i] # L[j]
        /\ \A i, j \in 1 .. n : i < j => w[L[i]] <= w[L[j]]
    BY <1>4 DEF Lists
  <2> HIDE DEF n
  <2>2. Con!IsInjective(L)
    BY <2>1 DEF Con!IsInjective
  <2>3. ASSUME NEW i \in 1 .. n, NEW j \in 1 .. n, i < j
        PROVE  L[i].outstanding_aed >= L[j].outstanding_aed
    <3>1. L[i] \in T /\ L[j] \in T /\ w[L[i]] <= w[L[j]]
      BY <2>1, <2>3
    <3>2. 0 - L[i].outstanding_aed <= 0 - L[j].outstanding_aed
      BY <3>1
    <3>3. L[i].outstanding_aed \in Int /\ L[j].outstanding_aed \in Int
      BY <1>2, <3>1
    <3> QED
      BY <3>2, <3>3
  <2> QED
    BY <2>1, <2>2, <2>3
<1> DEFINE E == Con!Exposures
<1>6. E \in [1 .. n -> T] /\ Good(E)
  <2>1. E = CHOOSE e \in [1 .. n -> T] : Good(e)
    BY ConCard, Zenon DEF Con!Exposures, T, n
  <2> HIDE DEF E, Good, n
  <2> QED
    BY <1>5, <2>1
<1> HIDE DEF E
<1>7. \A i, j \in 1 .. n : i # j => E[i] # E[j]
  BY <1>6 DEF Con!IsInjective
<1>8. \A i, j \in 1 .. n : i < j => E[i].outstanding_aed >= E[j].outstanding_aed
  BY <1>6
<1>9. \A t \in T : \E i \in 1 .. n : E[i] = t
  BY <1>1, <1>6, <1>7, ListsAll DEF n
<1> QED
  BY <1>3, <1>6, <1>7, <1>8, <1>9 DEF T, n, E

(* The cells are parts of the active book. *)
LEMMA GridAddsUp == CalendarInv /\ IsFiniteSet(Book) => GridBreaksBookDown
<1> DEFINE E == Con!Exposures
           b == [l \in Book |-> rows[l]]
           n == Cardinality(Con!Table)
           Act == Con!Active
           cell(i) == Con!OfCell(<<E[i].sector, E[i].emirate>>)
           drawn(i) == {l \in cell(i) : b[l].outstanding > 0}
<1> SUFFICES ASSUME CalendarInv, IsFiniteSet(Book), E # <<>>
    PROVE /\ Con!SumFunction([i \in DOMAIN E |-> E[i].outstanding_aed]) = Con!Outstanding(Act)
          /\ Con!SumFunction([i \in DOMAIN E |-> E[i].loan_count]) = Con!Cardinality(Act)
          /\ \A i, j \in DOMAIN E : i < j =>
               /\ E[i].outstanding_aed >= E[j].outstanding_aed
               /\ <<E[i].sector, E[i].emirate>> # <<E[j].sector, E[j].emirate>>
          /\ \A i \in DOMAIN E :
               LET pd == E[i].weighted_pd
               IN  IF drawn(i) = {} THEN pd[1] = 0
                   ELSE (\A l \in cell(i) : b[l].outstanding >= 0) =>
                          /\ \E l \in drawn(i) : b[l].current * pd[2] <= pd[1]
                          /\ \E l \in drawn(i) : b[l].current * pd[2] >= pd[1]
  BY Zenon DEF GridBreaksBookDown, Con!GridBreaksBookDown
<1>1. ~Con!Empty
  BY DEF Con!Exposures
<1>2. /\ n \in Nat
      /\ E \in [1 .. n -> Con!Table]
      /\ \A i, j \in 1 .. n : i # j => E[i] # E[j]
      /\ \A i, j \in 1 .. n : i < j => E[i].outstanding_aed >= E[j].outstanding_aed
      /\ \A t \in Con!Table : \E i \in 1 .. n : E[i] = t
  BY <1>1, TableIsListed
<1>3. /\ IsFiniteSet(Act)
      /\ \A l \in Act : Owing[l] \in Int
  BY ActiveType
<1> HIDE DEF E, n, b
<1>4. ASSUME NEW i \in 1 .. n
      PROVE  /\ E[i] = Con!Exposure(<<E[i].sector, E[i].emirate>>)
             /\ E[i].outstanding_aed = SumFunctionOnSet(Owing, cell(i))
             /\ E[i].loan_count = Cardinality(cell(i))
             /\ E[i].weighted_pd = Con!WeightedPd(<<E[i].sector, E[i].emirate>>)
  <2>1. PICK c \in Con!Cells : E[i] = Con!Exposure(c)
    BY <1>2 DEF Con!Table
  <2>2. c = <<c[1], c[2]>>
    BY ConcentrationOfRows
  <2>3. E[i].sector = c[1] /\ E[i].emirate = c[2]
    BY <2>1 DEF Con!Exposure
  <2>4. c = <<E[i].sector, E[i].emirate>>
    BY <2>2, <2>3
  <2>5. /\ E[i].outstanding_aed = Con!Outstanding(Con!OfCell(c))
        /\ E[i].loan_count = Con!Cardinality(Con!OfCell(c))
        /\ E[i].weighted_pd = Con!WeightedPd(c)
    BY <2>1 DEF Con!Exposure
  <2>6. Con!Outstanding(Con!OfCell(c)) = SumFunctionOnSet(Owing, Con!OfCell(c))
    BY ConcentrationOfRows
  <2>7. Con!Cardinality(Con!OfCell(c)) = Cardinality(Con!OfCell(c))
    BY ConCard
  <2> QED
    BY <2>1, <2>4, <2>5, <2>6, <2>7
<1> DEFINE Part == [i \in 1 .. n |-> cell(i)]
           size == [i \in DOMAIN E |-> E[i].loan_count]
           exposure == [i \in DOMAIN E |-> E[i].outstanding_aed]
           one == [l \in Act |-> 1]
<1>5. Part \in [1 .. n -> SUBSET Act] /\ IsFiniteSet(1 .. n)
  <2>1. \A i \in 1 .. n : cell(i) \subseteq Act
    BY ConcentrationOfRows
  <2>2. n \in Int
    BY <1>2
  <2>3. IsFiniteSet(1 .. n)
    BY <2>2, FS_Interval
  <2> HIDE DEF cell, Act
  <2> QED
    BY <2>1, <2>3
<1>6. ASSUME NEW l \in Act
      PROVE  \E i \in 1 .. n : l \in Part[i] /\ \A j \in 1 .. n : l \in Part[j] => j = i
  <2> DEFINE c == <<rows[l].sector, rows[l].emirate>>
  <2>1. c \in Con!Cells
    BY ConcentrationOfRows
  <2>2. Con!Exposure(c) \in Con!Table
    BY <2>1 DEF Con!Table
  <2>3. PICK i \in 1 .. n : E[i] = Con!Exposure(c)
    BY <1>2, <2>2
  <2>4. E[i].sector = c[1] /\ E[i].emirate = c[2]
    BY <2>3 DEF Con!Exposure
  <2>5. \A j \in 1 .. n : l \in Part[j] <=> <<E[j].sector, E[j].emirate>> = c
    BY ConcentrationOfRows
  <2>6. l \in Part[i]
    BY <2>4, <2>5
  <2>7. ASSUME NEW j \in 1 .. n, l \in Part[j] PROVE j = i
    <3>1. E[j] = Con!Exposure(c)
      BY <1>4, <2>5, <2>7
    <3> QED
      BY <1>2, <2>3, <3>1
  <2> QED
    BY <2>6, <2>7
<1>7. Con!SumFunction(exposure) = Con!Outstanding(Act)
  <2>1. \A i \in 1 .. n : exposure[i] = SumFunctionOnSet(Owing, Part[i])
    BY <1>2, <1>4
  <2>2. DOMAIN exposure = 1 .. n
    BY <1>2
  <2> HIDE DEF exposure, Part, Act, cell
  <2>3. SumFunctionOnSet(exposure, 1 .. n) = SumFunctionOnSet(Owing, Act)
    <3> DEFINE K == 1 .. n
    <3>1. IsFiniteSet(K) /\ Part \in [K -> SUBSET Act]
      BY <1>5
    <3>2. \A l \in Act : \E i \in K : l \in Part[i] /\ \A j \in K : l \in Part[j] => j = i
      BY <1>6
    <3>3. \A i \in K : exposure[i] = SumFunctionOnSet(Owing, Part[i])
      BY <2>1
    <3> HIDE DEF K
    <3>4. SumFunctionOnSet(exposure, K) = SumFunctionOnSet(Owing, Act)
      BY <1>3, <3>1, <3>2, <3>3, SumOfParts
    <3> QED
      BY <3>4 DEF K
  <2> QED
    BY <2>2, <2>3, ConSumAll, ConcentrationOfRows
<1>8. Con!SumFunction(size) = Con!Cardinality(Act)
  <2>1. \A l \in Act : one[l] = 1 /\ one[l] \in Int
    OBVIOUS
  <2>2. ASSUME NEW i \in 1 .. n PROVE size[i] = SumFunctionOnSet(one, Part[i])
    <3>1. Part[i] \in SUBSET Act /\ Part[i] = cell(i)
      BY <1>5
    <3>2. IsFiniteSet(Part[i]) /\ \A l \in Part[i] : one[l] = 1
      BY <1>3, <3>1, FS_Subset
    <3>3. size[i] = Cardinality(cell(i))
      BY <1>2, <1>4
    <3> HIDE DEF one, Part, size
    <3>4. SumFunctionOnSet(one, Part[i]) = Cardinality(Part[i])
      BY <3>2, SumCounts
    <3> QED
      BY <3>1, <3>3, <3>4
  <2>3. DOMAIN size = 1 .. n
    BY <1>2
  <2> HIDE DEF size, Part, Act, one, cell
  <2>4. SumFunctionOnSet(size, 1 .. n) = SumFunctionOnSet(one, Act)
    <3> DEFINE K == 1 .. n
    <3>1. IsFiniteSet(K) /\ Part \in [K -> SUBSET Act]
      BY <1>5
    <3>2. \A l \in Act : \E i \in K : l \in Part[i] /\ \A j \in K : l \in Part[j] => j = i
      BY <1>6
    <3>3. \A i \in K : size[i] = SumFunctionOnSet(one, Part[i])
      BY <2>2
    <3> HIDE DEF K
    <3>4. SumFunctionOnSet(size, K) = SumFunctionOnSet(one, Act)
      BY <1>3, <2>1, <3>1, <3>2, <3>3, SumOfParts
    <3> QED
      BY <3>4 DEF K
  <2>5. SumFunctionOnSet(one, Act) = Cardinality(Act)
    BY <1>3, <2>1, SumCounts
  <2> QED
    BY <2>3, <2>4, <2>5, ConSumAll, ConCard
<1>9. ASSUME NEW i \in DOMAIN E, NEW j \in DOMAIN E, i < j
      PROVE  /\ E[i].outstanding_aed >= E[j].outstanding_aed
             /\ <<E[i].sector, E[i].emirate>> # <<E[j].sector, E[j].emirate>>
  <2>1. i \in 1 .. n /\ j \in 1 .. n
    BY <1>2
  <2>2. i # j
    BY <1>2, <1>9, <2>1
  <2>3. E[i] = Con!Exposure(<<E[i].sector, E[i].emirate>>)
    BY <1>4, <2>1
  <2>4. E[j] = Con!Exposure(<<E[j].sector, E[j].emirate>>)
    BY <1>4, <2>1
  <2>5. E[i] # E[j]
    BY <1>2, <2>1, <2>2
  <2>6. <<E[i].sector, E[i].emirate>> # <<E[j].sector, E[j].emirate>>
    BY <2>3, <2>4, <2>5
  <2> QED
    BY <1>2, <1>9, <2>1, <2>6
<1>10. ASSUME NEW i \in DOMAIN E
       PROVE  LET pd == E[i].weighted_pd
              IN  IF drawn(i) = {} THEN pd[1] = 0
                  ELSE (\A l \in cell(i) : b[l].outstanding >= 0) =>
                          /\ \E l \in drawn(i) : b[l].current * pd[2] <= pd[1]
                          /\ \E l \in drawn(i) : b[l].current * pd[2] >= pd[1]
  <2> DEFINE c == <<E[i].sector, E[i].emirate>>
             pd == Con!WeightedPd(c)
             D == {l \in Con!OfCell(c) : Owing[l] > 0}
  <2>1. E[i].weighted_pd = pd
    BY <1>2, <1>4
  <2>2. /\ D = {} => pd[1] = 0
        /\ D # {} /\ (\A l \in Con!OfCell(c) : Owing[l] >= 0) =>
             /\ \E l \in D : rows[l].current * pd[2] <= pd[1]
             /\ \E l \in D : rows[l].current * pd[2] >= pd[1]
    <3> HIDE DEF c
    <3> QED
      BY PdOfCell
  <2>3. \A l \in Con!OfCell(c) : l \in Book
    BY ConcentrationOfRows
  <2>4. \A l \in Con!OfCell(c) : b[l].outstanding = Owing[l] /\ b[l].current = rows[l].current
    BY <2>3, ActiveType DEF b
  <2>5. drawn(i) = D
    BY <2>4
  <2> HIDE DEF pd
  <2>6. \A l \in D : l \in Con!OfCell(c)
    OBVIOUS
  <2> HIDE DEF c
  <2> QED
    BY <2>1, <2>2, <2>4, <2>5, <2>6 DEF c
<1> QED
  BY <1>7, <1>8, <1>9, <1>10

(* The index (compute_concentration) lies between 1 / n and 1, by Cauchy   *)
(* and Schwarz, and is 1 exactly when one sector holds it all.             *)
THEOREM IndexIsMeasure == Spec => []IndexMeasuresConcentration
<1>1. IInv => IndexMeasuresConcentration
  BY IndexMeasures DEF IInv
<1> QED
  BY <1>1, Invariance, PTL

(* The grid (compute_concentration) breaks the active book down, whatever  *)
(* order cells of one size come in.                                        *)
THEOREM GridIsBreakdown == Spec => []GridBreaksBookDown
<1>1. IInv => GridBreaksBookDown
  BY GridAddsUp DEF IInv
<1> QED
  BY <1>1, Invariance, PTL

=============================================================================
