---------------------------- MODULE MCMembership ----------------------------
(* An instance of Membership for TLC: two workspaces, a project in the first. *)
EXTENDS Membership

CONSTANTS v1, v2, p1, everything, f1, f2

Alike    == Permutations({f1, f2})
FirstOf  == [p \in {p1} |-> v1]
Asked    == {{p1, v2}}

=============================================================================
