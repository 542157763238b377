-------------------------- MODULE StepDefinitions ---------------------------
(***************************************************************************)
(* The three graph walks over STEP_DEFINITIONS: the validation at startup  *)
(* (Kahn's algorithm), getDownstreamSteps (breadth first, for a rerun) and *)
(* isBlocked (depth first, for failed steps), one loop iteration a step.   *)
(* StepGraph defines what they ought to compute, and WorkflowEngine uses   *)
(* those definitions in their place.                                       *)
(***************************************************************************)
EXTENDS Naturals, Sequences, StepGraph

CONSTANT N  \* the number of step definitions; step numbers stand for the keys

ASSUME SizeAssumption == N \in Nat \ {0}

Keys == 1 .. N

VARIABLES
  deps,      \* dependsOn of each step
  phase,     \* which walk is under way, or has answered
  inDegree,  \* validation: how many dependencies of each step are not counted yet
  queue,     \* the queue of the validation and of the downstream walk, isBlocked's call stack
  count,     \* validation: visited
  asked,     \* the step a walk starts from
  seen,      \* visited, of the two other walks
  failed,    \* isBlocked: the steps that have failed
  blocked    \* isBlocked: its answer

vars == <<deps, phase, inDegree, queue, count, asked, seen, failed, blocked>>

Phases == {"visit", "rejected", "valid", "walk", "walked", "search", "searched"}

\* The members of S in the order of STEP_DEFINITIONS.
InOrder(S) ==
  [i \in 1 .. Cardinality(S) |-> CHOOSE k \in S : Cardinality({j \in S : j <= k}) = i]

\* The adjacency lists that both queues are fed from.
Dependents(k) == {t \in Keys : k \in deps[t]}

\* The definitions have passed the checks for duplicate, missing and unknown keys.
Init ==
  /\ deps \in [Keys -> SUBSET Keys]
  /\ phase = "visit"
  /\ inDegree = [k \in Keys |-> Cardinality(deps[k])]
  /\ queue = InOrder({k \in Keys : deps[k] = {}})
  /\ count = 0
  /\ asked = 1 /\ seen = {} /\ failed = {} /\ blocked = FALSE

-----------------------------------------------------------------------------
(* validateStepDefinitions, pass 4. *)

VisitWithoutCheck ==
  LET ready == Dependents(Head(queue)) IN
  /\ phase = "visit" /\ queue # <<>>
  /\ count' = count + 1
  /\ inDegree' = [t \in Keys |-> IF t \in ready THEN inDegree[t] - 1 ELSE inDegree[t]]
  /\ queue' = Tail(queue) \o InOrder(ready)
  /\ UNCHANGED <<deps, phase, asked, seen, failed, blocked>>

Visit ==
  LET freed == Dependents(Head(queue)) IN
  /\ phase = "visit" /\ queue # <<>>
  /\ count' = count + 1
  /\ inDegree' = [t \in Keys |-> IF t \in freed THEN inDegree[t] - 1 ELSE inDegree[t]]
  /\ queue' = Tail(queue) \o InOrder({t \in freed : inDegree[t] = 1})
  /\ UNCHANGED <<deps, phase, asked, seen, failed, blocked>>

\* A service that finds a cycle throws and does not start.
Judge ==
  /\ phase = "visit" /\ queue = <<>>
  /\ phase' = IF count = N THEN "valid" ELSE "rejected"
  /\ UNCHANGED <<deps, inDegree, queue, count, asked, seen, failed, blocked>>

-----------------------------------------------------------------------------
(* getDownstreamSteps. *)

AskDownstream == \E s \in Keys :
  /\ phase = "valid"
  /\ phase' = "walk" /\ asked' = s
  /\ queue' = InOrder(Dependents(s))
  /\ UNCHANGED <<deps, inDegree, count, seen, failed, blocked>>

WalkOneLevel ==
  LET current == Head(queue) IN
  /\ phase = "walk" /\ queue # <<>>
  /\ seen' = seen \cup {current}
  /\ queue' = Tail(queue)
  /\ UNCHANGED <<deps, phase, inDegree, count, asked, failed, blocked>>

\* A step may be queued twice; the second time it is skipped.
Walk ==
  LET current == Head(queue) IN
  /\ phase = "walk" /\ queue # <<>>
  /\ seen' = seen \cup {current}
  /\ queue' = IF current \in seen THEN Tail(queue)
                                  ELSE Tail(queue) \o InOrder(Dependents(current))
  /\ UNCHANGED <<deps, phase, inDegree, count, asked, failed, blocked>>

EndWalk ==
  /\ phase = "walk" /\ queue = <<>>
  /\ phase' = "walked"
  /\ UNCHANGED <<deps, inDegree, queue, count, asked, seen, failed, blocked>>

-----------------------------------------------------------------------------
(* isBlocked. *)

AskBlocked == \E s \in Keys, F \in SUBSET Keys :
  /\ phase = "valid"
  /\ phase' = "search" /\ asked' = s /\ failed' = F
  /\ queue' = <<s>>
  /\ UNCHANGED <<deps, inDegree, count, seen, blocked>>

SearchParents ==
  LET key == Head(queue) IN
  /\ phase = "search" /\ queue # <<>> /\ key \notin failed
  /\ seen' = seen \cup {key}
  /\ queue' = IF key = asked THEN InOrder(deps[key]) \o Tail(queue) ELSE Tail(queue)
  /\ UNCHANGED <<deps, phase, inDegree, count, asked, failed, blocked>>

\* A call for a visited step is answered with false, another one by its dependencies in turn.
Search ==
  LET key == Head(queue) IN
  /\ phase = "search" /\ queue # <<>> /\ (key \in failed => key \in seen)
  /\ seen' = seen \cup {key}
  /\ queue' = IF key \in seen THEN Tail(queue) ELSE InOrder(deps[key]) \o Tail(queue)
  /\ UNCHANGED <<deps, phase, inDegree, count, asked, failed, blocked>>

\* The first failed step ends all calls (some), as does the end of the search.
EndSearch ==
  /\ phase = "search"
  /\ queue # <<>> => Head(queue) \in failed \ seen
  /\ phase' = "searched"
  /\ blocked' = (queue # <<>>)
  /\ UNCHANGED <<deps, inDegree, queue, count, asked, seen, failed>>

-----------------------------------------------------------------------------

Next ==
  \/ Visit \/ Judge
  \/ AskDownstream \/ Walk \/ EndWalk
  \/ AskBlocked \/ Search \/ EndSearch

Spec == Init /\ [][Next]_vars

-----------------------------------------------------------------------------
(* Properties. *)

\* The service starts if and only if no step depends on itself, directly or not.
ValidIffAcyclic ==
  /\ phase \notin {"visit", "rejected"} => Acyclic(deps)
  /\ phase = "rejected" => ~Acyclic(deps)

\* A rerun resets exactly the steps that depend on the one it is asked for.
FindsDownstream == phase = "walked" => seen = Downstream(deps, asked)

\* A pending step is given up exactly when it, or a step it depends on in any number of steps,
\* has failed.
FindsBlocked ==
  phase = "searched" =>
    (blocked <=> Blocked(deps, [k \in Keys |-> IF k \in failed THEN "failed" ELSE "pending"], asked))

=============================================================================
