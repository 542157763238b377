---------------------------- MODULE RunLifecycle ----------------------------
(***************************************************************************)
(* What the engine promises about a run, with no queue, lock, worker or    *)
(* transaction in sight: the statuses its API shows, and the one change    *)
(* each of them may make at a time.  WorkflowEngine implements it, as long *)
(* as none of the faults happens that the engine does not survive.         *)
(***************************************************************************)
EXTENDS StepGraph

CONSTANTS Steps, Deps, NeedsApproval

VARIABLES runStatus, status

vars == <<runStatus, status>>

Change(S, v) ==
  /\ status' = [s \in Steps |-> IF s \in S THEN v ELSE status[s]]
  /\ UNCHANGED runStatus

MoveRun(from, to) == runStatus = from /\ runStatus' = to /\ UNCHANGED status

Init == runStatus = "draft" /\ status = [s \in Steps |-> "pending"]

\* A run that could not be started is a draft again.
Start == MoveRun("draft", "running")
Undo  == MoveRun("running", "draft") /\ \A s \in Steps : status[s] = "pending"

\* A step starts to run when its dependencies are satisfied, and only in a run under way.
Launch == \E S \in SUBSET Eligible(Deps, status) :
  runStatus # "draft" /\ Change(S, "running")

\* Whatever stopped a step, it goes back to where it can be launched again, or fails for good.
Requeue == \E S \in SUBSET Steps :
  (\A s \in S : status[s] = "running") /\ Change(S, "pending")

Fail == \E s \in Steps : status[s] \in {"running", "failed"} /\ Change({s}, "failed")

Finish == \E s \in Steps :
  /\ status[s] \in {"running", "failed"}
  /\ Change({s}, IF s \in NeedsApproval THEN "awaiting_approval" ELSE "completed")

Approve == \E s \in Steps :
  status[s] \in {"awaiting_approval", "completed"} /\ Change({s}, "approved")

Decline == \E s \in Steps, d \in {"revision_requested", "rejected"} :
  status[s] = "awaiting_approval" /\ Change({s}, d)

\* A rerun takes everything downstream with it, but for what is approved.
Rerun == \E s \in Steps :
  /\ status[s] \notin Active \cup {"approved"}
  /\ Change({t \in {s} \cup Downstream(Deps, s) : status[t] # "approved"}, "pending")

\* A run is completed when no step of it is pending or running.  It is given up for good when that
\* is so as well, or because a step has failed, although another one may be replayed meanwhile.
Complete ==
  /\ \A s \in Steps : status[s] \notin Active
  /\ runStatus' = "completed" /\ UNCHANGED status

Abandon ==
  /\ (\A s \in Steps : status[s] \notin Active) \/ (\E s \in Steps : status[s] = "failed")
  /\ runStatus' = "failed" /\ UNCHANGED status

Next ==
  \/ Start \/ Undo \/ Launch \/ Requeue \/ Fail \/ Finish
  \/ Approve \/ Decline \/ Rerun \/ Complete \/ Abandon

Spec == Init /\ [][Next]_vars

\* No step runs before the steps it depends on have delivered ("Steps only execute after their
\* dependencies complete").
Ordered == \A s \in Steps : status[s] = "running" => \A d \in Deps[s] : status[d] \in Satisfied

=============================================================================
