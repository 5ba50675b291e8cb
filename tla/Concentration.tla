---------------------------- MODULE Concentration ---------------------------
(***************************************************************************)
(* compute_concentration (ml/concentration.py): the Herfindahl-Hirschman   *)
(* index of the sectors and the grid of exposures by sector and emirate.   *)
(* A function of the book, which Analytics gives its rows.                 *)
(*                                                                         *)
(* Amounts are integers: no constraint keeps outstanding_aed of an         *)
(* overpaid loan from being negative.  PDs are natural numbers, the index  *)
(* and the weighted PD pairs <<numerator, denominator>>.                   *)
(***************************************************************************)
EXTENDS Integers, Sequences, FiniteSets, Functions

VARIABLE book      \* book[l]: the row of l, for the loans with a row

Loans == DOMAIN book

Active == {l \in Loans : book[l].status \in {"ACTIVE", "IN_GRACE"}}

Outstanding(L) == SumFunctionOnSet([l \in Loans |-> book[l].outstanding], L)

(* by_sector *)
Sectors == {book[l].sector : l \in Active}

(* mutant: of loans of every status *)
OfSectorEver(s) == {l \in Loans : book[l].sector = s}

OfSector(s) == {l \in Active : book[l].sector = s}

(* No exposure, no concentration and no table. *)
Empty == Outstanding(Active) <= 0

Amount(s) == Outstanding(OfSector(s))

Hhi ==
    IF Empty THEN <<0, 1>>
    ELSE <<SumFunction([s \in Sectors |-> Amount(s) * Amount(s)]),
           Outstanding(Active) * Outstanding(Active)>>

Cells == {<<book[l].sector, book[l].emirate>> : l \in Active}

(* mutant: the emirate alone *)
OfEmirate(c) == {l \in Active : book[l].emirate = c[2]}

OfCell(c) == {l \in Active : <<book[l].sector, book[l].emirate>> = c}

(* pd_sum / pd_w *)
WeightedPd(c) ==
    LET weight == Outstanding(OfCell(c))
    IN  IF weight > 0
        THEN <<SumFunction([l \in OfCell(c) |-> book[l].current * book[l].outstanding]), weight>>
        ELSE <<0, 1>>

Exposure(c) == [sector |-> c[1], emirate |-> c[2],
                outstanding_aed |-> Outstanding(OfCell(c)),
                loan_count |-> Cardinality(OfCell(c)),
                weighted_pd |-> WeightedPd(c)]

Table == {Exposure(c) : c \in Cells}

(* The largest first; cells of one size in any order. *)
Exposures ==
    IF Empty THEN <<>>
    ELSE CHOOSE E \in [1 .. Cardinality(Table) -> Table] :
            /\ IsInjective(E)
            /\ \A i, j \in DOMAIN E :
                 i < j => E[i].outstanding_aed >= E[j].outstanding_aed

-----------------------------------------------------------------------------
(* Unless a sector as a whole is overpaid, the index lies between 1/n, for *)
(* n sectors with exposure, and 1, and is 1 exactly when one of them holds *)
(* it all: the thresholds that the committee goes by (concentration.py:6)  *)
(* mean what they say.  Repaid and written off loans do not dilute it, and *)
(* one overpaid loan in a sector does not distort it.                      *)
IndexMeasuresConcentration ==
    LET holding == Cardinality({s \in Sectors : Amount(s) > 0})
    IN  ~Empty /\ (\A s \in Sectors : Amount(s) >= 0) =>
          /\ Hhi[1] <= Hhi[2]
          /\ Hhi[2] <= holding * Hhi[1]
          /\ Hhi[1] = Hhi[2] <=> holding = 1

(* The grid breaks the active book down: every loan is in one cell, a cell *)
(* is listed once, and the cells add up to the exposure, largest first.    *)
(* The PD of a cell lies between those of its loans that are drawn, unless *)
(* one of them is overpaid: a loan without exposure has no say in it.      *)
GridBreaksBookDown ==
    LET E == Exposures
        owing(l) == book[l].outstanding
        cell(i) == OfCell(<<E[i].sector, E[i].emirate>>)
        drawn(i) == {l \in cell(i) : owing(l) > 0}
    IN  E # <<>> =>
          /\ SumFunction([i \in DOMAIN E |-> E[i].outstanding_aed]) = Outstanding(Active)
          /\ SumFunction([i \in DOMAIN E |-> E[i].loan_count]) = Cardinality(Active)
          /\ \A i, j \in DOMAIN E : i < j =>
               /\ E[i].outstanding_aed >= E[j].outstanding_aed
               /\ <<E[i].sector, E[i].emirate>> # <<E[j].sector, E[j].emirate>>
          /\ \A i \in DOMAIN E :
               LET pd == E[i].weighted_pd
               IN  IF drawn(i) = {} THEN pd[1] = 0
                   ELSE (\A l \in cell(i) : owing(l) >= 0) =>
                          /\ \E l \in drawn(i) : book[l].current * pd[2] <= pd[1]
                          /\ \E l \in drawn(i) : book[l].current * pd[2] >= pd[1]

(* concentration.py:6-9, a scale of which 1 is the top: that the index is  *)
(* never above 1 does not hold.  Where a sector is overpaid the shares of  *)
(* the others exceed the whole.                                            *)
IndexAtMostOne == Hhi[1] <= Hhi[2]

=============================================================================
