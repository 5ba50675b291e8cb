----------------------------- MODULE MCPortfolio ----------------------------
(***************************************************************************)
(* An instance of Portfolio for TLC: two loans, two callers of one worker  *)
(* and a window that ends with the day.                                    *)
(***************************************************************************)
EXTENDS Portfolio, TLC

CONSTANTS l1, l2, q1, q2, w1

MCServedBy == q1 :> w1 @@ q2 :> w1

MCRow == {[status |-> "ACTIVE", outstanding |-> 2],
          [status |-> "DEFAULTED", outstanding |-> 1]}

MCSymmetry == Permutations({l1, l2}) \cup Permutations({q1, q2})
=============================================================================
