----------------------------- MODULE MCMetrics -----------------------------
(* Values of the constants of Metrics for TLC. *)
EXTENDS Metrics, TLC

CONSTANTS v1, v2

\* Counts whose sums tell which evaluations were counted how often.
Counts == (v1 :> 1) @@ (v2 :> 8)
=============================================================================
