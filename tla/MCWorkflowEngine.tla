-------------------------- MODULE MCWorkflowEngine --------------------------
(* Instances of WorkflowEngine for TLC. *)
EXTENDS WorkflowEngine, TLC

CONSTANTS a, b, c

\* phase1-baseline waits for both competitor-metrics and search-demand.
Join == (a :> {}) @@ (b :> {}) @@ (c :> {a, b})

Pair == (a :> {}) @@ (b :> {a})

\* seed-keywords, serp-niche-map, competitor-buckets
Chain == (a :> {}) @@ (b :> {a}) @@ (c :> {b})

=============================================================================
