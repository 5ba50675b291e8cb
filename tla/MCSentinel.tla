----------------------------- MODULE MCSentinel -----------------------------
(***************************************************************************)
(* An instance of Sentinel for TLC: two payloads for one loan in two       *)
(* workers, one of which runs the scanner loop.  Two events make the loan  *)
(* CRITICAL, one makes it a WARNING, so a verdict that misses an event     *)
(* differs from one that does not; the loan is past due or off the book.   *)
(***************************************************************************)
EXTENDS Sentinel, FiniteSets, TLC

CONSTANTS l1, b1, b2, r1, r2, w1, w2, loop1

MCBody == r1 :> b1 @@ r2 :> b2

MCLoanId == b1 :> l1 @@ b2 :> l1

MCServedBy == r1 :> w1 @@ r2 :> w2

MCHome == loop1 :> w1

MCRow == {[status |-> "ACTIVE", dpd |-> 90], [status |-> "REPAID", dpd |-> 0]}

MCThreshold == -8

MCScore(E) == -10 * Cardinality(E)
=============================================================================
