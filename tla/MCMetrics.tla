------------------------------ MODULE MCMetrics ------------------------------
(***************************************************************************)
(* A small instance of Metrics: two counters of one name and one of        *)
(* another.                                                                *)
(***************************************************************************)
EXTENDS Metrics

CONSTANTS n1, n2

MCName == <<n1, n2, n1>>
=============================================================================
