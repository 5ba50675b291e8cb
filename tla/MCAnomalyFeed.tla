---------------------------- MODULE MCAnomalyFeed ---------------------------
(***************************************************************************)
(* An instance of AnomalyFeed for TLC: a pass of two rows and two ingests  *)
(* of one, walked by a client that asks for one or two rows at a time, for *)
(* open alerts, for all, or for warnings only.                             *)
(***************************************************************************)
EXTENDS AnomalyFeed

CONSTANTS pass, i1, i2

MCBatch(w) == IF w = pass THEN <<"CRITICAL", "WARNING">> ELSE <<"WARNING">>

MCQuery == {[severity |-> Severity, limit |-> 1, include_resolved |-> FALSE],
            [severity |-> Severity, limit |-> 2, include_resolved |-> TRUE],
            [severity |-> {"WARNING"}, limit |-> 1, include_resolved |-> TRUE]}
=============================================================================
