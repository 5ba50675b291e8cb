----------------------------- MODULE MCRollout -----------------------------
(* Two worker processes, as the Dockerfile starts them, and two trainings. *)
EXTENDS Rollout

CONSTANTS p1, p2, t1, t2
=============================================================================
