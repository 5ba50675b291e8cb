----------------------------- MODULE MCPipeline -----------------------------
(***************************************************************************)
(* An instance of Pipeline for TLC: two runs of the generator, two of the  *)
(* seeder, one of the trainer and a worker; three loans and two events in  *)
(* chunks of two, so that the last chunk of loans is short.                *)
(***************************************************************************)
EXTENDS Pipeline, TLC

CONSTANTS g1, g2, s1, s2, t1, w1

MCOwner == 1 :> 3 @@ 2 :> 1

MCSymmetry == Permutations({g1, g2}) \cup Permutations({s1, s2})
=============================================================================
