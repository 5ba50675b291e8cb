----------------------------- MODULE Analytics ------------------------------
(***************************************************************************)
(* The analytics of the portfolio, of one book (portfolio_service.py):     *)
(* Vintage moves the book on, its curves and drift and the concentration   *)
(* are computed from the same rows.                                        *)
(***************************************************************************)
EXTENDS Vintage

ASSUME ExposureAssumption == \A row \in Row : row.outstanding \in Int

(* select(Loan): the rows there are. *)
Con == INSTANCE Concentration WITH book <- [l \in Book |-> rows[l]]

(* The grid of exposures breaks the active book down                       *)
(* (concentration.py:41-65).                                               *)
GridBreaksBookDown == Con!GridBreaksBookDown

(* The index of the sectors measures what its scale says                   *)
(* (concentration.py:6).                                                   *)
IndexMeasuresConcentration == Con!IndexMeasuresConcentration

(* That the index is never above 1 (concentration.py:6): it does not hold. *)
IndexAtMostOne == Con!IndexAtMostOne

=============================================================================
