----------------------------- MODULE MCGenerator -----------------------------
(***************************************************************************)
(* An instance of Generator for TLC: loans of up to two months, draws at   *)
(* the ends of their ranges and on either side of the limits, and time     *)
(* zones far enough from UTC for the two dates to differ either way.       *)
(***************************************************************************)
EXTENDS Generator

MCZone == {-12, 0, 14}
=============================================================================
