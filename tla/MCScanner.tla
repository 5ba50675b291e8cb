----------------------------- MODULE MCScanner ------------------------------
(***************************************************************************)
(* Instances of Scanner for TLC, with one event for l1 that is an anomaly  *)
(* by itself and two loans.  MCScanner.cfg: a loop and a scan on demand    *)
(* overlap.  MCScanner_unfunded.cfg: the loop alone, and l2 cannot be      *)
(* scored.                                                                 *)
(***************************************************************************)
EXTENDS Scanner, TLC

CONSTANTS l1, l2, b1, r1, w1, loop1, post1

MCBody == r1 :> b1

MCLoanId == b1 :> l1

MCHome == loop1 :> w1 @@ post1 :> w1

MCHomeOne == loop1 :> w1

MCThreshold == -5

MCScore(E) == -10 * Cardinality(E)

Late(status, days) == [status |-> status, dpd |-> days]

MCRow == {Late("ACTIVE", 30), Late("ACTIVE", 90), Late("DEFAULTED", 90)}

MCRowGrace == {Late("ACTIVE", 0), Late("IN_GRACE", 30), Late("DEFAULTED", 90)}

(* Stop where the passes stop having a number of their own. *)
NumbersLast == \A s \in Sweeper : round[s] < MaxRound
=============================================================================
