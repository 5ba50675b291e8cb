------------------------------ MODULE MCIngest ------------------------------
(***************************************************************************)
(* An instance of Ingest for TLC: r1 and r2 carry the same payload, r3     *)
(* another one for the same loan, r4 one for an unknown loan; two workers. *)
(* The loan is flagged once it has two events, so that two attempts decide *)
(* whether the third is scored on what is really there.                    *)
(***************************************************************************)
EXTENDS Ingest, FiniteSets, TLC

CONSTANTS l1, nobody, b1, b2, b3, r1, r2, r3, r4, w1, w2

MCBody == r1 :> b1 @@ r2 :> b1 @@ r3 :> b2 @@ r4 :> b3

MCLoanId == b1 :> l1 @@ b2 :> l1 @@ b3 :> nobody

MCServedBy == r1 :> w1 @@ r2 :> w2 @@ r3 :> w1 @@ r4 :> w2

MCThreshold == -15

MCScore(E) == -10 * Cardinality(E)
=============================================================================
