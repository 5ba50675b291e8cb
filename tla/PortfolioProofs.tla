--------------------------- MODULE PortfolioProofs --------------------------
(***************************************************************************)
(* Proofs about Portfolio, for every book, every number of callers and     *)
(* workers and every window: IInv is an inductive invariant, the default   *)
(* rate stays in its range, and between the rates of the meantime while    *)
(* loans default between the SELECTs, recent defaults are all counted, and *)
(* a stale gauge has a cause.                                              *)
(***************************************************************************)
EXTENDS Portfolio, FiniteSetTheorems, TLAPS

(* Counts of loans are natural numbers, of a subset never more. *)
LEMMA CountOfLoans ==
  ASSUME NEW S \in SUBSET Loan, NEW T \in SUBSET S
  PROVE  /\ Cardinality(S) \in Nat
         /\ Cardinality(T) \in Nat
         /\ Cardinality(T) <= Cardinality(S)
<1>1. IsFiniteSet(S)
  BY PortfolioAssumption, FS_Subset
<1> QED
  BY <1>1, FS_Subset, FS_CardinalityType

(* The rate lies between 0 and 1 whatever two counts it is made of. *)
LEMMA RateInRange ==
  ASSUME NEW a \in Nat, NEW d \in Nat
  PROVE  /\ DefaultRate(a, d) \in Nat \X (Nat \ {0})
         /\ DefaultRate(a, d)[1] <= DefaultRate(a, d)[2]
  BY DEF DefaultRate

(* More defaults among the same loans raise the rate, fewer active loans   *)
(* besides the same defaults do too.                                       *)
LEMMA RateGrows ==
  ASSUME NEW a \in Nat, NEW b \in 0 .. a, NEW e \in Nat, NEW d \in 0 .. e
  PROVE  /\ AtMost(DefaultRate(a, d), DefaultRate(a, e))
         /\ AtMost(DefaultRate(a, e), DefaultRate(b, e))
<1>1. d * a <= e * a /\ e * b <= e * a /\ d * e = e * d
  BY Z3
<1>2. d * (a + e) <= e * (a + d)
  BY <1>1, Z3
<1>3. e * (b + e) <= e * (a + e)
  BY <1>1, Z3
<1>4. CASE a + d # 0 /\ b + e # 0
  BY <1>2, <1>3, <1>4 DEF DefaultRate, AtMost
<1>5. CASE a + d = 0
  BY <1>5 DEF DefaultRate, AtMost
<1>6. CASE b + e = 0
  BY <1>6 DEF DefaultRate, AtMost
<1> QED
  BY <1>4, <1>5, <1>6

(* What the SELECTs return has the type of the variables that receive it. *)
LEMMA SelectsTyped ==
  ASSUME TypeOK
  PROVE  /\ TotalsNow \in [aum : [Loan -> Int], active : Nat, defaulted : Nat]
         /\ RecentNow \in Nat
         /\ BookNow \in SUBSET (Loan \X Row)
<1>1. \A l \in Loan : loans[l] \in Row /\ loans[l].outstanding \in Int
  BY PortfolioAssumption DEF TypeOK
<1>2. \A st : With(st) \in SUBSET Loan
  BY DEF With
<1>3. Cardinality(With("ACTIVE")) \in Nat
  BY <1>2, CountOfLoans
<1>4. DEFINE T == {l \in With("DEFAULTED") : updated[l] >= today - Window}
<1>5. T \in SUBSET With("DEFAULTED")
  OBVIOUS
<1>6. /\ Cardinality(With("DEFAULTED")) \in Nat
      /\ Cardinality(T) \in Nat
      /\ Cardinality(T) <= Cardinality(With("DEFAULTED"))
  BY <1>2, <1>5, CountOfLoans
<1>7. BookNow \in SUBSET (Loan \X Row)
  BY <1>1, <1>2 DEF BookNow
<1> QED
  BY <1>1, <1>3, <1>6, <1>7 DEF TotalsNow, RecentNow

(* The seeded table, with nobody calling. *)
LEMMA InitIInv == Init => IInv
  BY PortfolioAssumption
  DEF Init, IInv, TypeOK, QuietSoFar, RateWithinRange, RivalsRace, InSync, DownhillSoFar,
      UpdatedSince, UnderWay, NoTotals, NoAmount, Zeroes, Kpi

(* As long as the table and the day stay, the SELECTs return the same. *)
LEMMA SameTable ==
  ASSUME UNCHANGED tableVars
  PROVE  TotalsNow' = TotalsNow /\ RecentNow' = RecentNow /\ BookNow' = BookNow
  BY DEF tableVars, TotalsNow, RecentNow, BookNow, With

(* A worker whose gauges stay shows what it showed. *)
LEMMA SameGauge ==
  ASSUME UNCHANGED tableVars, NEW w \in Worker, gauges'[w] = gauges[w], Shows(w)
  PROVE  Shows(w)'
  BY SameTable DEF Shows, DefaultRate

(* Calls end, or go on, and the calls that are left knew of each other. *)
LEMMA FewerRivals ==
  ASSUME RivalsRace, UnderWay' \subseteq UnderWay, \A q \in UnderWay' : raced'[q] = raced[q]
  PROVE  RivalsRace'
<1> SUFFICES ASSUME NEW q \in UnderWay', Rivals(q)' # {} PROVE raced'[q]
  BY DEF RivalsRace
<1>1. Rivals(q) # {}
  BY DEF Rivals
<1> QED
  BY <1>1 DEF RivalsRace

(* A write that goes downhill takes no loan out of the recent defaults and *)
(* brings none to the active loans.                                        *)
LEMMA WriteDownhill ==
  ASSUME TypeOK, NEW l \in Loan, NEW row \in Row, Downhill(l, row),
         loans' = [loans EXCEPT ![l] = row], updated' = [updated EXCEPT ![l] = today],
         today' = today
  PROVE  RecentNow <= RecentNow' /\ TotalsNow'.active <= TotalsNow.active
<1> DEFINE T == {k \in With("DEFAULTED") : updated[k] >= today - Window}
<1>1. /\ \A k \in Loan : loans'[k] = IF k = l THEN row ELSE loans[k]
      /\ \A k \in Loan : updated'[k] = IF k = l THEN today ELSE updated[k]
      /\ today >= today - Window
  BY PortfolioAssumption DEF TypeOK
<1>2. With("ACTIVE")' \in SUBSET With("ACTIVE") /\ With("ACTIVE") \in SUBSET Loan
  BY <1>1 DEF With, Downhill
<1>3. T \in SUBSET T' /\ T' \in SUBSET Loan
  BY <1>1 DEF With, Downhill
<1>4. Cardinality(With("ACTIVE")') <= Cardinality(With("ACTIVE"))
  BY <1>2, CountOfLoans
<1>5. Cardinality(T) <= Cardinality(T')
  BY <1>3, CountOfLoans
<1> QED
  BY <1>4, <1>5 DEF RecentNow, TotalsNow

(* Every step keeps the count of what came between two SELECTs. *)
LEMMA DownhillStep == TypeOK /\ DownhillSoFar /\ [Next]_vars => DownhillSoFar'
<1> SUFFICES ASSUME TypeOK, DownhillSoFar, [Next]_vars PROVE DownhillSoFar'
  OBVIOUS
<1> USE DEF DownhillSoFar, Between
<1>0. RecentNow \in Nat /\ TotalsNow.active \in Nat
  BY SelectsTyped
<1>1. ASSUME NEW q \in Query, SelectTotals(q) PROVE DownhillSoFar'
  BY <1>0, <1>1, SameTable DEF SelectTotals, Reach, TypeOK
<1>2. ASSUME NEW q \in Query, SelectRecent(q) PROVE DownhillSoFar'
  BY <1>0, <1>2, SameTable DEF SelectRecent, Reach, TypeOK
<1>3. ASSUME NEW q \in Query, Answer(q) PROVE DownhillSoFar'
  BY <1>3, SameTable DEF Answer, ForgetBetween, Reach, TypeOK
<1>4. ASSUME NEW C \in SUBSET Query, Forget(C), UNCHANGED tableVars PROVE DownhillSoFar'
  BY <1>4, SameTable DEF Forget, ForgetBetween, TypeOK
<1>5. ASSUME NEW l \in Loan, Service(l) PROVE DownhillSoFar'
  <2>1. PICK row \in Row :
          /\ loans' = [loans EXCEPT ![l] = row]
          /\ downhill' = [q \in Query |-> downhill[q] /\ (Between(q) => Downhill(l, row))]
    BY <1>5 DEF Service
  <2>2. /\ updated' = [updated EXCEPT ![l] = today]
        /\ UNCHANGED <<today, stage, totals, recent, before, after>>
    BY <1>5 DEF Service
  <2>3. SUFFICES ASSUME NEW q \in Query, downhill'[q], stage[q] = "totalled"
                 PROVE  before[q] <= RecentNow' /\ TotalsNow'.active <= totals[q].active
    BY <2>1, <2>2
  <2>4. downhill[q] /\ Downhill(l, row)
    BY <2>1, <2>3
  <2>5. RecentNow <= RecentNow' /\ TotalsNow'.active <= TotalsNow.active
    BY <2>1, <2>2, <2>4, WriteDownhill
  <2>6. before[q] <= RecentNow /\ TotalsNow.active <= totals[q].active
    BY <2>3, <2>4
  <2>7. /\ RecentNow' \in Nat /\ TotalsNow'.active \in Nat
        /\ before[q] \in Nat /\ totals[q].active \in Nat
    <3>1. /\ With("DEFAULTED")' \in SUBSET Loan /\ With("ACTIVE")' \in SUBSET Loan
          /\ {k \in With("DEFAULTED") : updated[k] >= today - Window}' \in SUBSET Loan
      BY DEF With
    <3>2. RecentNow' \in Nat /\ TotalsNow'.active \in Nat
      BY <3>1, CountOfLoans DEF RecentNow, TotalsNow
    <3> QED
      BY <3>2 DEF TypeOK
  <2> QED
    BY <1>0, <2>5, <2>6, <2>7
<1>6. CASE DayPasses
  BY <1>6 DEF DayPasses
<1>7. CASE UNCHANGED vars
  BY <1>7, SameTable DEF vars, tableVars, queryVars, betweenVars
<1>8. ASSUME NEW q \in Query, QueryFails(q) PROVE DownhillSoFar'
  BY <1>4, <1>8 DEF QueryFails, tableVars
<1>9. ASSUME NEW w \in Worker, Crash(w) PROVE DownhillSoFar'
  <2>1. {q \in UnderWay : ServedBy[q] = w} \in SUBSET Query
    BY DEF UnderWay
  <2> QED
    BY <1>4, <1>9, <2>1 DEF Crash, tableVars
<1> QED
  BY <1>1, <1>2, <1>3, <1>5, <1>6, <1>7, <1>8, <1>9 DEF Next

(* Every step keeps the invariant. *)
LEMMA NextIInv == IInv /\ [Next]_vars => IInv'
<1> SUFFICES ASSUME IInv, [Next]_vars PROVE IInv'
  OBVIOUS
<1> USE DEF IInv
<1>a. DownhillSoFar'
  BY DownhillStep
<1>0. ASSUME UNCHANGED tableVars, UnderWay' = UnderWay, UNCHANGED <<quiet, raced, gauges>>,
             \A p \in Query : stage'[p] = "answered" => stage[p] = "answered"
      PROVE  RivalsRace' /\ InSync'
  <2>1. RivalsRace'
    BY <1>0, FewerRivals
  <2>2. \A p \in Query : Rivals(p)' = Rivals(p)
    BY <1>0 DEF Rivals
  <2>3. \A p \in Query : Shows(ServedBy[p]) => Shows(ServedBy[p])'
    BY <1>0, SameGauge, PortfolioAssumption
  <2> QED
    BY <1>0, <2>1, <2>2, <2>3 DEF InSync
<1>1. ASSUME NEW q \in Query, SelectTotals(q) PROVE IInv'
  <2>1. UNCHANGED tableVars
    BY <1>1 DEF SelectTotals
  <2>2. TypeOK'
    BY <1>1, SelectsTyped DEF SelectTotals, TypeOK, Reach, tableVars
  <2>3. QuietSoFar'
    BY <1>1, <2>1, SameTable DEF SelectTotals, QuietSoFar, TypeOK, Reach
  <2>4. RateWithinRange' /\ UpdatedSince'
    BY <1>1, <2>1 DEF SelectTotals, RateWithinRange, UpdatedSince, tableVars
  <2>5. /\ UnderWay' = UnderWay \cup {q} /\ stage'[q] = "totalled"
        /\ \A p \in Query \ {q} : stage'[p] = stage[p] /\ quiet'[p] = quiet[p]
        /\ quiet'[q] = TRUE /\ UNCHANGED gauges
        /\ \A p \in Query : raced'[p] = IF p = q THEN Rivals(q) # {} ELSE raced[p] \/ p \in Rivals(q)
    BY <1>1 DEF SelectTotals, Reach, UnderWay, TypeOK
  <2>6. RivalsRace'
    <3> SUFFICES ASSUME NEW p \in UnderWay', NEW o \in Rivals(p)' PROVE raced'[p]
      BY DEF RivalsRace
    <3>1. /\ p \in Query /\ o \in Query /\ o # p /\ ServedBy[o] = ServedBy[p]
          /\ p \in UnderWay \cup {q} /\ o \in UnderWay \cup {q}
      BY <2>5 DEF Rivals, UnderWay
    <3>2. CASE p = q
      BY <2>5, <3>1, <3>2 DEF Rivals
    <3>3. CASE p # q /\ o = q
      BY <2>5, <3>1, <3>3 DEF Rivals
    <3>4. CASE p # q /\ o # q
      BY <2>5, <3>1, <3>4 DEF Rivals, RivalsRace
    <3> QED
      BY <3>2, <3>3, <3>4
  <2>7. InSync'
    <3> SUFFICES ASSUME NEW p \in Query, stage'[p] = "answered", quiet'[p], ~raced'[p]
                 PROVE  /\ Shows(ServedBy[p])' \/ gauges'[ServedBy[p]] = Zeroes
                        /\ \A o \in Rivals(p)' : quiet'[o]
      BY DEF InSync
    <3>1. p # q /\ stage[p] = "answered" /\ quiet[p] /\ ~raced[p]
      BY <2>5
    <3>2. Shows(ServedBy[p])' \/ gauges'[ServedBy[p]] = Zeroes
      BY <2>1, <2>5, <3>1, SameGauge, PortfolioAssumption DEF InSync
    <3>3. ASSUME NEW o \in Rivals(p)' PROVE quiet'[o]
      <4>1. o \in Query /\ (o = q \/ o \in Rivals(p))
        BY <2>5 DEF Rivals, UnderWay
      <4> QED
        BY <2>5, <3>1, <4>1 DEF InSync
    <3> QED
      BY <3>2, <3>3
  <2> QED
    BY <1>a, <2>2, <2>3, <2>4, <2>6, <2>7
<1>2. ASSUME NEW q \in Query, SelectRecent(q) PROVE IInv'
  <2>1. UNCHANGED tableVars
    BY <1>2 DEF SelectRecent
  <2>2. TypeOK'
    BY <1>2, SelectsTyped DEF SelectRecent, TypeOK, Reach, tableVars
  <2>3. QuietSoFar'
    BY <1>2, <2>1, SameTable DEF SelectRecent, QuietSoFar, TypeOK, Reach
  <2>4. RateWithinRange' /\ UpdatedSince'
    BY <1>2, <2>1 DEF SelectRecent, RateWithinRange, UpdatedSince, tableVars
  <2>5. /\ UnderWay' = UnderWay /\ UNCHANGED <<quiet, raced, gauges>>
        /\ \A p \in Query : stage'[p] = "answered" => stage[p] = "answered"
    BY <1>2 DEF SelectRecent, Reach, UnderWay, TypeOK
  <2>6. RivalsRace' /\ InSync'
    BY <1>0, <2>1, <2>5
  <2> QED
    BY <1>a, <2>2, <2>3, <2>4, <2>6
<1>3. ASSUME NEW q \in Query, Answer(q) PROVE IInv'
  <2>1. UNCHANGED tableVars
    BY <1>3 DEF Answer
  <2>2. totals[q].aum \in [Loan -> Int] /\ totals[q].active \in Nat /\ recent[q] \in Nat
    BY DEF TypeOK
  <2>3. Kpis(q) \in Kpi /\ Kpis(q).rate[1] <= Kpis(q).rate[2]
    BY <2>2, RateInRange DEF Kpis, Kpi
  <2>4. ServedBy[q] \in Worker
    BY PortfolioAssumption
  <2>5. TypeOK'
    BY <1>3, <2>3, <2>4, SelectsTyped DEF Answer, ForgetBetween, TypeOK, Reach, tableVars
  <2>6. QuietSoFar'
    BY <1>3, <2>1, SameTable DEF Answer, QuietSoFar, TypeOK, Reach
  <2>7. RateWithinRange' /\ UpdatedSince'
    BY <1>3, <2>1, <2>3, <2>4 DEF Answer, RateWithinRange, UpdatedSince, TypeOK, tableVars
  <2>8. /\ q \in UnderWay /\ UnderWay' = UnderWay \ {q} /\ UNCHANGED <<quiet, raced>>
        /\ \A p \in Query \ {q} : stage'[p] = stage[p]
        /\ gauges'[ServedBy[q]] = Kpis(q)
        /\ \A w \in Worker \ {ServedBy[q]} : gauges'[w] = gauges[w]
    BY <1>3, <2>4 DEF Answer, Reach, UnderWay, TypeOK
  <2>9. RivalsRace'
    BY <2>8, FewerRivals
  <2>10. quiet[q] => Shows(ServedBy[q])'
    BY <1>3, <2>1, <2>8, SameTable DEF Answer, QuietSoFar, Shows, Kpis, DefaultRate
  <2>11. InSync'
    <3> SUFFICES ASSUME NEW p \in Query, stage'[p] = "answered", quiet'[p], ~raced'[p]
                 PROVE  /\ Shows(ServedBy[p])' \/ gauges'[ServedBy[p]] = Zeroes
                        /\ \A o \in Rivals(p)' : quiet'[o]
      BY DEF InSync
    <3>1. CASE p = q
      <4>1. Rivals(q) = {}
        BY <2>8, <3>1 DEF RivalsRace
      <4>2. Rivals(q)' = {}
        BY <2>8, <4>1 DEF Rivals
      <4> QED
        BY <2>8, <2>10, <3>1, <4>2
    <3>2. CASE p # q
      <4>1. /\ Shows(ServedBy[p]) \/ gauges[ServedBy[p]] = Zeroes
            /\ \A o \in Rivals(p) : quiet[o]
        BY <2>8, <3>2 DEF InSync
      <4>2. Rivals(p)' \subseteq Rivals(p)
        BY <2>8 DEF Rivals
      <4>3. CASE ServedBy[p] = ServedBy[q]
        BY <2>8, <2>10, <3>2, <4>1, <4>2, <4>3 DEF Rivals
      <4>4. CASE ServedBy[p] # ServedBy[q]
        <5>1. ServedBy[p] \in Worker /\ gauges'[ServedBy[p]] = gauges[ServedBy[p]]
          BY <2>8, <4>4, PortfolioAssumption
        <5> QED
          BY <2>1, <2>8, <4>1, <4>2, <5>1, SameGauge
      <4> QED
        BY <4>3, <4>4
    <3> QED
      BY <3>1, <3>2
  <2> QED
    BY <1>a, <2>5, <2>6, <2>7, <2>9, <2>11
<1>4. ASSUME NEW C \in SUBSET Query, Forget(C), UNCHANGED tableVars,
             \/ UNCHANGED gauges
             \/ \E w \in Worker : gauges' = [gauges EXCEPT ![w] = Zeroes]
      PROVE  IInv'
  <2>1. Zeroes \in Kpi /\ Zeroes.rate[1] <= Zeroes.rate[2]
    BY DEF Zeroes, Kpi, NoAmount
  <2>2. NoTotals \in [aum : [Loan -> Int], active : Nat, defaulted : Nat]
    BY DEF NoTotals, NoAmount
  <2>3. gauges' \in [Worker -> Kpi]
    BY <1>4, <2>1 DEF TypeOK
  <2>4. TypeOK'
    BY <1>4, <2>2, <2>3 DEF Forget, ForgetBetween, TypeOK, tableVars
  <2>5. QuietSoFar'
    BY <1>4, SameTable DEF Forget, QuietSoFar, TypeOK
  <2>6. RateWithinRange' /\ UpdatedSince'
    BY <1>4, <2>1 DEF RateWithinRange, UpdatedSince, TypeOK, tableVars
  <2>7. /\ UnderWay' = UnderWay \ C
        /\ \A q \in Query : q \notin C => /\ stage'[q] = stage[q] /\ quiet'[q] = quiet[q]
                                        /\ raced'[q] = raced[q]
        /\ \A q \in C : stage'[q] = "idle"
    BY <1>4 DEF Forget, UnderWay
  <2>8. RivalsRace'
    BY <2>7, FewerRivals DEF UnderWay
  <2>9. \A w \in Worker : gauges'[w] = gauges[w] \/ gauges'[w] = Zeroes
    BY <1>4 DEF TypeOK
  <2>10. InSync'
    <3> SUFFICES ASSUME NEW p \in Query, stage'[p] = "answered", quiet'[p], ~raced'[p]
                 PROVE  /\ Shows(ServedBy[p])' \/ gauges'[ServedBy[p]] = Zeroes
                        /\ \A o \in Rivals(p)' : quiet'[o]
      BY DEF InSync
    <3>1. p \notin C /\ stage[p] = "answered" /\ quiet[p] /\ ~raced[p]
      BY <2>7
    <3>2. Shows(ServedBy[p])' \/ gauges'[ServedBy[p]] = Zeroes
      BY <1>4, <2>9, <3>1, SameGauge, PortfolioAssumption DEF InSync
    <3>3. ASSUME NEW o \in Rivals(p)' PROVE quiet'[o]
      <4>1. o \in Rivals(p) /\ o \in Query /\ o \notin C
        BY <2>7 DEF Rivals, UnderWay
      <4> QED
        BY <2>7, <3>1, <4>1 DEF InSync
    <3> QED
      BY <3>2, <3>3
  <2> QED
    BY <1>a, <2>4, <2>5, <2>6, <2>8, <2>10
<1>5. ASSUME NEW l \in Loan, Service(l) PROVE IInv'
  <2>1. TypeOK'
    BY <1>5 DEF Service, TypeOK
  <2>2. QuietSoFar'
    BY <1>5 DEF Service, QuietSoFar
  <2>3. RateWithinRange' /\ InSync'
    BY <1>5 DEF Service, RateWithinRange, InSync
  <2>4. RivalsRace'
    BY <1>5, FewerRivals DEF Service, UnderWay
  <2>5. UpdatedSince'
    <3> SUFFICES ASSUME NEW k \in Loan PROVE defaulted'[k] <= updated'[k] /\ updated'[k] <= today'
      BY DEF UpdatedSince
    <3>1. /\ updated[k] \in Int /\ defaulted[k] \in Int /\ today \in Int /\ today' = today
          /\ defaulted[k] <= updated[k] /\ updated[k] <= today
      BY <1>5 DEF UpdatedSince, TypeOK, Service
    <3>2. /\ updated'[k] = IF k = l THEN today ELSE updated[k]
          /\ \/ defaulted'[k] = defaulted[k]
             \/ k = l /\ defaulted'[k] = today
      <4>1. PICK row \in Row : defaulted' = [defaulted EXCEPT ![l] =
                IF row.status = "DEFAULTED" /\ loans[l].status # "DEFAULTED" THEN today ELSE @]
        BY <1>5 DEF Service
      <4>2. updated' = [updated EXCEPT ![l] = today]
        BY <1>5 DEF Service
      <4>3. updated \in [Loan -> 0 .. Horizon] /\ defaulted \in [Loan -> 0 .. Horizon]
        BY DEF TypeOK
      <4> QED
        BY <4>1, <4>2, <4>3
    <3> QED
      BY <3>1, <3>2
  <2> QED
    BY <1>a, <2>1, <2>2, <2>3, <2>4, <2>5
<1>6. CASE DayPasses
  <2>1. TypeOK'
    BY <1>6, PortfolioAssumption DEF DayPasses, TypeOK
  <2>2. QuietSoFar'
    BY <1>6 DEF DayPasses, QuietSoFar
  <2>3. RateWithinRange' /\ InSync' /\ UpdatedSince'
    BY <1>6 DEF DayPasses, RateWithinRange, InSync, UpdatedSince, TypeOK
  <2>4. RivalsRace'
    BY <1>6, FewerRivals DEF DayPasses, UnderWay
  <2> QED
    BY <1>a, <2>1, <2>2, <2>3, <2>4
<1>7. CASE UNCHANGED vars
  <2>1. UNCHANGED tableVars
    BY <1>7 DEF vars
  <2>2. TypeOK' /\ QuietSoFar' /\ RateWithinRange' /\ UpdatedSince'
    BY <1>7, <2>1, SameTable
    DEF vars, tableVars, queryVars, betweenVars, TypeOK, QuietSoFar, RateWithinRange, UpdatedSince
  <2>3. UnderWay' = UnderWay /\ UNCHANGED <<stage, quiet, raced, gauges>>
    BY <1>7 DEF vars, queryVars, UnderWay
  <2>4. RivalsRace' /\ InSync'
    BY <1>0, <2>1, <2>3
  <2> QED
    BY <1>a, <2>2, <2>4
<1>8. ASSUME NEW q \in Query, QueryFails(q) PROVE IInv'
  BY <1>8, <1>4 DEF QueryFails, tableVars
<1>9. ASSUME NEW w \in Worker, Crash(w) PROVE IInv'
  <2>1. {q \in UnderWay : ServedBy[q] = w} \in SUBSET Query
    BY DEF UnderWay
  <2> QED
    BY <1>9, <2>1, <1>4 DEF Crash, tableVars
<1> QED
  BY <1>1, <1>2, <1>3, <1>5, <1>6, <1>7, <1>8, <1>9 DEF Next

(* A call that no write came between agrees with the table so far. *)
THEOREM Invariance == Spec => []IInv
  BY InitIInv, NextIInv, PTL DEF Spec

(* Every variable keeps its type; the denominator of the rate is never 0. *)
THEOREM TypeCorrect == Spec => []TypeOK
<1>1. IInv => TypeOK
  BY DEF IInv
<1> QED
  BY <1>1, Invariance, PTL

(* The default rate lies between 0 and 1, also when loans default between  *)
(* the SELECTs that count them.                                            *)
THEOREM RateRange == Spec => []RateWithinRange
<1>1. IInv => RateWithinRange
  BY DEF IInv
<1> QED
  BY <1>1, Invariance, PTL

(* Loans that default between the SELECTs leave the rate between what it   *)
(* was and what it has become: for any number of loans, writes and callers.*)
THEOREM MeantimeRates == Spec => []RateOfTheMeantime
<1>1. IInv => RateOfTheMeantime
  <2> SUFFICES ASSUME IInv, NEW q \in Query, stage[q] = "counted", downhill[q]
               PROVE  /\ AtMost(DefaultRate(totals[q].active, before[q]), Kpis(q).rate)
                      /\ AtMost(Kpis(q).rate, DefaultRate(after[q], recent[q]))
    BY DEF RateOfTheMeantime
  <2>1. /\ totals[q].active \in Nat /\ recent[q] \in Nat
        /\ before[q] \in Nat /\ after[q] \in Nat
    BY DEF IInv, TypeOK
  <2>2. before[q] \in 0 .. recent[q] /\ after[q] \in 0 .. totals[q].active
    BY <2>1 DEF IInv, DownhillSoFar
  <2>3. Kpis(q).rate = DefaultRate(totals[q].active, recent[q])
    BY DEF Kpis
  <2> QED
    BY <2>1, <2>2, <2>3, RateGrows
<1> QED
  BY <1>1, Invariance, PTL

(* The count of recent defaults misses none, and counts no more than the   *)
(* defaulted loans that were written in the window.                        *)
THEOREM RecentCoverage == Spec => []RecentCoversDefaults
<1>1. IInv => RecentCoversDefaults
  <2> SUFFICES ASSUME IInv, NEW q \in Query, stage[q] = "answered", quiet[q]
               PROVE  recent[q] = Cardinality(DefaultedLately \cup
                        {l \in With("DEFAULTED") :
                           defaulted[l] < updated[l] /\ updated[l] >= today - Window})
    BY DEF RecentCoversDefaults
  <2>1. \A l \in With("DEFAULTED") :
          l \in Loan /\ defaulted[l] \in Int /\ updated[l] \in Int /\ defaulted[l] <= updated[l]
    BY DEF IInv, TypeOK, UpdatedSince, With
  <2>2. today - Window \in Int
    BY PortfolioAssumption DEF IInv, TypeOK
  <2>3. DefaultedLately \cup {l \in With("DEFAULTED") :
                               defaulted[l] < updated[l] /\ updated[l] >= today - Window}
        = {l \in With("DEFAULTED") : updated[l] >= today - Window}
    BY <2>1, <2>2 DEF DefaultedLately
  <2>4. recent[q] = RecentNow
    BY DEF IInv, QuietSoFar
  <2> QED
    BY <2>3, <2>4 DEF RecentNow
<1> QED
  BY <1>1, Invariance, PTL

(* A gauge that is stale has two calls that overlapped behind it, or a     *)
(* write: for any number of callers and workers.                           *)
THEOREM StaleGauges == Spec => []StaleNeedsOverlap
<1>1. IInv => StaleNeedsOverlap
  BY DEF IInv, InSync, StaleNeedsOverlap
<1> QED
  BY <1>1, Invariance, PTL

=============================================================================
