----------------------------- MODULE MCFeatures -----------------------------
(***************************************************************************)
(* An instance of Features for TLC: up to four events of one loan.  There  *)
(* is one at the end of a window and one just beyond it, one of a sign     *)
(* that its type does not suggest, two at one time, and one to come.       *)
(***************************************************************************)
EXTENDS Features

Ev(ts, amount, type) == [ts |-> ts, amount |-> amount, type |-> type]

MCEvent == {Ev(-1, 5, "NSF"), Ev(0, -1, "NSF"), Ev(120, 2, "POS_INFLOW"),
            Ev(121, 1, "POS_INFLOW"), Ev(125, -3, "BANK_DEPOSIT"),
            Ev(125, 2, "BANK_DEPOSIT"), Ev(150, -2, "POS_INFLOW"), Ev(182, 9, "POS_INFLOW")}
=============================================================================
