----------------------------- MODULE MCDashboard ----------------------------
(***************************************************************************)
(* An instance of Dashboard for TLC: three starts, and a log of two        *)
(* entries through which four may go.                                      *)
(***************************************************************************)
EXTENDS Dashboard

CONSTANTS k1, k2, k3
=============================================================================
