----------------------------- MODULE MCLiveView -----------------------------
(* Instances of LiveView for TLC. *)
EXTENDS LiveView, TLC

CONSTANTS a, b

Single == a :> {}

Pair == (a :> {}) @@ (b :> {a})

=============================================================================
