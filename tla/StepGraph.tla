------------------------------ MODULE StepGraph ------------------------------
(***************************************************************************)
(* The dependency graph of a workflow run (STEP_DEFINITIONS) and what the  *)
(* engine computes from it.  A graph D is a function from the step keys to *)
(* the sets of step keys they depend on; st gives the status of each step. *)
(***************************************************************************)
EXTENDS FiniteSets

\* The values of step_status that the code ever writes ("skipped" never is).
StepStatus == {"pending", "running", "completed", "awaiting_approval", "approved",
               "revision_requested", "rejected", "failed"}

\* The statuses that satisfy a dependency, and those that keep a run busy.
Satisfied == {"completed", "approved"}
Active    == {"pending", "running"}

EligibleOnOne(D, st) ==
  {s \in DOMAIN D : st[s] = "pending" /\ (D[s] = {} \/ \E d \in D[s] : st[d] \in Satisfied)}

\* The pending steps whose every dependency is satisfied.
Eligible(D, st) ==
  {s \in DOMAIN D : st[s] = "pending" /\ \A d \in D[s] : st[d] \in Satisfied}

Closed(D, C) == \A s \in C : D[s] \subseteq C

\* s and everything s depends on, directly or not: the least closed set with s.
Ancestry(D, s) ==
  {t \in DOMAIN D : \A C \in SUBSET DOMAIN D : (s \in C /\ Closed(D, C)) => t \in C}

\* Everything that depends on s, directly or not (s itself only on a cycle).
Downstream(D, s) ==
  {t \in DOMAIN D : \E d \in D[t] : s \in Ancestry(D, d)}

\* A step is blocked when it, or a step it depends on, has failed.
Blocked(D, st, s) == \E t \in Ancestry(D, s) : st[t] = "failed"

\* No step transitively depends on itself.
Acyclic(D) == \A s \in DOMAIN D : s \notin Downstream(D, s)

=============================================================================
