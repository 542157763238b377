--------------------------- MODULE MCMaterializer ---------------------------
(* An instance of Materializer for TLC: two fibers, which are alike. *)
EXTENDS Materializer, TLC

CONSTANTS f1, f2

Alike == Permutations({f1, f2})

=============================================================================
