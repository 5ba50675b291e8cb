----------------------------- MODULE MCAnalytics ----------------------------
(***************************************************************************)
(* An instance of Analytics for TLC: three loans in up to two cohorts,     *)
(* over the turn of a year.  One row has a predicted PD beyond 1, one a    *)
(* predicted PD of 0 and no exposure, one is overpaid; cells, sectors and  *)
(* emirates are shared.                                                    *)
(***************************************************************************)
EXTENDS Analytics, TLC

CONSTANTS l1, l2, l3

MCEpoch == [y |-> 2025, m |-> 11]

R(status, predicted, current, sector, emirate, outstanding) ==
    [status |-> status, predicted |-> predicted, current |-> current,
     sector |-> sector, emirate |-> emirate, outstanding |-> outstanding]

MCRow == {R("ACTIVE", 1, 1, "Retail", "Dubai", 3),
          R("IN_GRACE", 1, 4, "Retail", "Dubai", 2),
          R("DEFAULTED", 1, 2, "Tech", "Sharjah", 4),
          R("ACTIVE", 0, 1, "Retail", "Dubai", 0),
          R("ACTIVE", 3, 1, "Tech", "Dubai", 2),
          R("IN_GRACE", 1, 1, "Tech", "Sharjah", -1),
          R("WRITTEN_OFF", 3, 1, "Tech", "Dubai", 1)}

MCBlend(k) == IF k < 2 THEN k ELSE 2

MCSymmetry == Permutations({l1, l2, l3})
=============================================================================
