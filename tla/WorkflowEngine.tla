--------------------------- MODULE WorkflowEngine ---------------------------
(***************************************************************************)
(* One workflow run of the engine: WorkflowService, WorkflowProcessor and  *)
(* the step handlers of WorkflowController and DlqController.              *)
(*                                                                         *)
(* The run lives in Postgres (runStatus, status, version, ...), its jobs   *)
(* and the enqueue lock in Redis (queue, lock).  Every caller of the       *)
(* service is a fiber: a BullMQ worker, a client request, the watchdog     *)
(* cron, the bootstrap reconciliation.  A fiber is interrupted at each     *)
(* await, so each database statement or transaction and each Redis command *)
(* is one action, and pc[f] names the next one of fiber f.                 *)
(***************************************************************************)
EXTENDS Integers, StepGraph

CONSTANTS
  Steps,          \* the step keys of STEP_DEFINITIONS
  Deps,           \* dependsOn of each step
  NeedsApproval,  \* the steps whose agent definition has requires_approval
  Workers,        \* BullMQ worker slots (one per server instance)
  Clients,        \* concurrent API requests
  Cron, Boot,     \* the watchdog and the bootstrap reconciliation
  NoStep, Nobody, \* "no step" and "the lock is free"
  Ghost,          \* the holder of a lock whose owner will never release it
  MaxAttempts,    \* BullMQ's "attempts" for a job
  FirstAttempt,   \* job.attemptsMade during the first attempt
  Faults,         \* what may go wrong in this configuration, see FaultKinds
  MaxVersion,     \* bound: artifact versions of a step
  MaxJobs,        \* bound: waiting jobs of one step when a limit passes early
  MaxReruns,      \* bound: rerun requests
  MaxCrashes      \* bound: crashes of the server

FaultKinds ==
  {"throw",       \* an execution may fail
   "redis",       \* a Redis command may fail
   "db",          \* storing the context may fail
   "null",        \* an output may be null, and is then not stored
   "ttl",         \* the lock may expire while its owner still works
   "slow",        \* the 5 and 35 minute limits may pass while something is alive
   "overlap",     \* two recoveries (reconciliation, resume, watchdog, replay of a live job) may overlap
   "backlog",     \* a crash may leave jobs in the queue
   "quick",       \* a restart may find the lock of the crashed server, not yet expired
   "rolling",     \* the server is not restarted: a new instance boots beside the old one
   "eager",       \* a step may be reviewed before its context is stored
   "lateReplay",  \* a dead job may be replayed although its step has meanwhile got past it
   "busyRerun",   \* a step may be rerun while another fiber is at work, or a recovery start meanwhile
   "anyStart",    \* start may be requested of a run that is not a draft
   "anyReview",   \* a decision may arrive for a step in any status
   "rejects"}     \* reviewers also reject and request revisions

Fibers == Workers \cup Clients \cup {Cron, Boot}

ASSUME EngineAssumption ==
  /\ Deps \in [Steps -> SUBSET Steps]
  /\ NeedsApproval \subseteq Steps
  /\ MaxAttempts \in Nat \ {0}
  /\ FirstAttempt \in {0, 1}
  /\ {MaxVersion, MaxJobs, MaxReruns, MaxCrashes} \subseteq Nat
  /\ Faults \subseteq FaultKinds
  /\ NoStep \notin Steps
  /\ Nobody \notin Fibers /\ Ghost \notin Fibers /\ Nobody # Ghost
  /\ Workers \cap (Clients \cup {Cron, Boot}) = {}
  /\ Clients \cap {Cron, Boot} = {} /\ Cron # Boot

VARIABLES
  runStatus,  \* workflow_runs.status
  status,     \* workflow_steps.status of each step
  overdue,    \* the running steps whose started_at is more than 35 minutes old
  version,    \* the latest step_artifacts.version of each step, 0 when none
  context,    \* the artifact version workflow_context holds for each step, 0 when none
  queue,      \* queue[s][a]: waiting jobs of step s with attemptsMade = a
  lock,       \* the holder of the Redis key wf:enq:<run>
  dlq,        \* the number of unresolved dlq_failed_steps entries of each step
  pc,         \* the next operation of each fiber
  loc,        \* the local variables of each fiber
  allowed,    \* history: how often each step was asked to execute
  blind,      \* history: steps whose artifact was made without a dependency's output
  reruns,     \* bound: rerun requests so far
  crashes     \* bound: crashes so far

database == <<runStatus, status, overdue, version, context, dlq>>
redis    == <<queue, lock>>
history  == <<allowed, blind, reruns, crashes>>
vars     == <<database, redis, pc, loc, history>>

RunStatus == {"draft", "running", "completed", "failed"}
Attempts  == 0 .. MaxAttempts - 1

\* Which operation a fiber carries out; "enqueue" is the watchdog's unlocked call.
Ops == {"none", "job", "start", "resume", "review", "rerun", "replay",
        "enqueue", "recover", "doom", "leave"}

PCs == {"idle", "execute", "context", "catch", "markFailed", "assess", "failRun", "rethrow",
        "lock", "read", "mark", "add", "rollback", "terminal", "complete", "unlock", "release",
        "undo", "resume", "reset", "snapshot", "cascade", "resolve",
        "boot", "orphans", "settle"}

\* op: as above; step, att: the job or the step asked for; fresh: it read the latest output
\* of every dependency; out: the version it persisted; todo: steps still to handle; failed:
\* steps whose job could not be added; some: a job was added.
Locals == [op : Ops, step : Steps \cup {NoStep}, att : Attempts, fresh : BOOLEAN,
           out : 0 .. MaxVersion, todo : SUBSET Steps, failed : SUBSET Steps, some : BOOLEAN]

Blank == [op |-> "none", step |-> NoStep, att |-> 0, fresh |-> FALSE, out |-> 0,
          todo |-> {}, failed |-> {}, some |-> FALSE]

Init ==
  /\ runStatus = "draft"
  /\ status = [s \in Steps |-> "pending"]
  /\ overdue = {}
  /\ version = [s \in Steps |-> 0]
  /\ context = [s \in Steps |-> 0]
  /\ queue = [s \in Steps |-> [a \in Attempts |-> 0]]
  /\ lock = Nobody
  /\ dlq = [s \in Steps |-> 0]
  /\ pc = [f \in Fibers |-> "idle"]
  /\ loc = [f \in Fibers |-> Blank]
  /\ allowed = [s \in Steps |-> 1]
  /\ blind = {}
  /\ reruns = 0
  /\ crashes = 0

-----------------------------------------------------------------------------
(* Fibers. *)

\* f stands at p and goes on at q with locals l.
Goto(f, p, q, l) ==
  /\ pc[f] = p
  /\ pc' = [pc EXCEPT ![f] = q]
  /\ loc' = [loc EXCEPT ![f] = l]

Return(f, p) == Goto(f, p, "idle", Blank)

\* A request or the cron takes up an operation.  The server takes requests once the bootstrap has
\* ended; the cron is running by then.
Begin(f, q, o, s) ==
  /\ pc[Boot] = "idle" \/ (f = Cron /\ "overlap" \in Faults)
  /\ Goto(f, "idle", q, [Blank EXCEPT !.op = o, !.step = s])

Quiet == \A f \in Fibers : pc[f] = "idle"

InJob == {"execute", "context", "catch", "markFailed", "assess", "failRun", "rethrow"}

\* A waiting job, or a fiber working for the step, stands behind its status "running".
Waiting(s) == \E a \in Attempts : queue[s][a] > 0
Live(s) ==
  \/ Waiting(s)
  \/ \E f \in Fibers : \/ loc[f].step = s /\ pc[f] \in InJob
                       \/ s \in loc[f].todo \cup loc[f].failed

WriteStatus(S, v) == status' = [s \in Steps |-> IF s \in S THEN v ELSE status[s]]

AddToQueue(s, a) == queue' = [queue EXCEPT ![s][a] = @ + 1]

-----------------------------------------------------------------------------
(* enqueuePendingSteps, called by every operation. *)

AcquireLockWithoutNX(f) ==
  /\ Goto(f, "lock", "read", loc[f])
  /\ lock' = f
  /\ UNCHANGED <<database, queue, history>>

\* Redis SET wf:enq:<run> NX.  Whoever finds the lock taken returns without enqueueing.
AcquireLock(f) ==
  /\ Goto(f, "lock", "read", loc[f])
  /\ lock = Nobody
  /\ lock' = f
  /\ UNCHANGED <<database, queue, history>>

\* startRun takes "nothing enqueued" for a queue outage; the other callers ignore it.
GiveUp(f, p) ==
  IF loc[f].op = "start" THEN Goto(f, p, "undo", loc[f]) ELSE Return(f, p)

LockBusy(f) ==
  /\ lock # Nobody
  /\ GiveUp(f, "lock")
  /\ UNCHANGED <<database, redis, history>>

\* The Redis command throws: a job goes to its catch block, a request fails.
LockFails(f) ==
  /\ "redis" \in Faults
  /\ IF loc[f].op = "job" THEN Goto(f, "lock", "catch", loc[f]) ELSE Return(f, "lock")
  /\ UNCHANGED <<database, redis, history>>

\* The transaction's read of all steps; it commits later (MarkRunning).
ReadEligible(f) ==
  LET e == Eligible(Deps, status) IN
  /\ Goto(f, "read", IF e = {} THEN "terminal" ELSE "mark", [loc[f] EXCEPT !.todo = e])
  /\ UNCHANGED <<database, redis, history>>

MarkActive(f) ==
  /\ Goto(f, "mark", "add", loc[f])
  /\ WriteStatus(loc[f].todo, "active")
  /\ overdue' = overdue \ loc[f].todo
  /\ UNCHANGED <<runStatus, version, context, dlq, redis, history>>

\* The commit: an unconditional write of "running" over whatever the steps are by now.
MarkRunning(f) ==
  /\ Goto(f, "mark", "add", loc[f])
  /\ WriteStatus(loc[f].todo, "running")
  /\ overdue' = overdue \ loc[f].todo
  /\ UNCHANGED <<runStatus, version, context, dlq, redis, history>>

\* Where the loop over the enqueued steps goes on, with locals l after one of them.
AfterAdd(l) ==
  IF l.todo # {} THEN "add" ELSE IF l.failed # {} THEN "rollback" ELSE "unlock"

AddJob(f) == \E s \in loc[f].todo :
  LET l == [loc[f] EXCEPT !.todo = @ \ {s}, !.some = TRUE] IN
  /\ Goto(f, "add", AfterAdd(l), l)
  /\ AddToQueue(s, 0)
  /\ UNCHANGED <<database, lock, history>>

AddFails(f) == \E s \in loc[f].todo :
  LET l == [loc[f] EXCEPT !.todo = @ \ {s}, !.failed = @ \cup {s}] IN
  /\ Goto(f, "add", AfterAdd(l), l)
  /\ "redis" \in Faults
  /\ UNCHANGED <<database, redis, history>>

RollbackNothing(f) ==
  /\ Goto(f, "rollback", IF loc[f].some THEN "unlock" ELSE "terminal",
          [loc[f] EXCEPT !.failed = {}])
  /\ UNCHANGED <<database, redis, history>>

RollbackFailures(f) ==
  /\ Goto(f, "rollback", IF loc[f].some THEN "unlock" ELSE "terminal",
          [loc[f] EXCEPT !.failed = {}])
  /\ WriteStatus(loc[f].failed, "pending")
  /\ overdue' = overdue \ loc[f].failed
  /\ UNCHANGED <<runStatus, version, context, dlq, redis, history>>

CheckNoneRunning(f) ==
  /\ Goto(f, "terminal", IF \E s \in Steps : status[s] = "running" THEN "unlock" ELSE "complete",
          loc[f])
  /\ UNCHANGED <<database, redis, history>>

\* Nothing was enqueued: read all steps again to see whether any is still active.
CheckTerminal(f) ==
  /\ Goto(f, "terminal",
          IF \E s \in Steps : status[s] \in Active THEN "unlock" ELSE "complete", loc[f])
  /\ UNCHANGED <<database, redis, history>>

CompleteRun(f) ==
  /\ Goto(f, "complete", "unlock", loc[f])
  /\ runStatus' = "completed"
  /\ UNCHANGED <<status, overdue, version, context, dlq, redis, history>>

Finish(f, p) == IF loc[f].some THEN Return(f, p) ELSE GiveUp(f, p)

\* The release compares the lock's value and deletes it in two commands.  The watchdog's
\* direct call has no lock to release.
CompareLock(f) ==
  /\ IF lock = f /\ loc[f].op # "enqueue"
       THEN Goto(f, "unlock", "release", loc[f])
       ELSE Finish(f, "unlock")
  /\ UNCHANGED <<database, redis, history>>

DeleteLock(f) ==
  /\ lock' = Nobody
  /\ Finish(f, "release")
  /\ UNCHANGED <<database, queue, history>>

\* A failed release is ignored: the key is left to its TTL.
ReleaseFails(f) ==
  /\ "redis" \in Faults
  /\ loc[f].op # "enqueue"
  /\ lock' = IF lock = f THEN Ghost ELSE lock
  /\ \E p \in {"unlock", "release"} : Finish(f, p)
  /\ UNCHANGED <<database, queue, history>>

EnqueuePendingSteps(f) ==
  \/ AcquireLock(f) \/ LockBusy(f) \/ LockFails(f)
  \/ ReadEligible(f) \/ MarkRunning(f) \/ AddJob(f) \/ AddFails(f) \/ RollbackFailures(f)
  \/ CheckTerminal(f) \/ CompleteRun(f)
  \/ CompareLock(f) \/ DeleteLock(f) \/ ReleaseFails(f)

\* The key's TTL of 5 seconds.
ExpireLock ==
  /\ lock = Ghost \/ ("ttl" \in Faults /\ lock # Nobody)
  /\ lock' = Nobody
  /\ UNCHANGED <<database, queue, pc, loc, history>>

-----------------------------------------------------------------------------
(* WorkflowProcessor.process: one job of the queue. *)

HasInputs(s) == \A d \in Deps[s] : version[d] > 0 /\ context[d] = version[d]

\* BullMQ hands the worker a waiting job; it reads the run's context.
TakeJob(w) == \E s \in Steps, a \in Attempts :
  /\ Goto(w, "idle", "execute",
          [Blank EXCEPT !.op = "job", !.step = s, !.att = a, !.fresh = HasInputs(s)])
  /\ queue[s][a] > 0
  /\ queue' = [queue EXCEPT ![s][a] = @ - 1]
  /\ UNCHANGED <<database, lock, history>>

PersistWithoutStatus(w) ==
  LET s == loc[w].step IN
  /\ Goto(w, "execute", "context", [loc[w] EXCEPT !.out = version[s] + 1])
  /\ version[s] < MaxVersion
  /\ version' = [version EXCEPT ![s] = @ + 1]
  /\ blind' = IF loc[w].fresh THEN blind \ {s} ELSE blind \cup {s}
  /\ UNCHANGED <<runStatus, status, overdue, context, dlq, redis, allowed, reruns, crashes>>

\* The pipeline or the agent ran: artifact, debit, status and run progress in one transaction.
PersistResult(w) ==
  LET s == loc[w].step IN
  /\ Goto(w, "execute", "context", [loc[w] EXCEPT !.out = version[s] + 1])
  /\ version[s] < MaxVersion
  /\ version' = [version EXCEPT ![s] = @ + 1]
  /\ WriteStatus({s}, IF s \in NeedsApproval THEN "awaiting_approval" ELSE "completed")
  /\ overdue' = overdue \ {s}
  /\ blind' = IF loc[w].fresh THEN blind \ {s} ELSE blind \cup {s}
  /\ UNCHANGED <<runStatus, context, dlq, redis, allowed, reruns, crashes>>

\* It throws: no credits, an integration or the model fails, the 30 minutes are over.
ExecutionFails(w) ==
  /\ Goto(w, "execute", "catch", loc[w])
  /\ "throw" \in Faults
  /\ UNCHANGED <<database, redis, history>>

StoreUnlessReviewed(w) ==
  LET s == loc[w].step IN
  /\ IF s \in NeedsApproval
       THEN Return(w, "context") /\ UNCHANGED context
       ELSE Goto(w, "context", "lock", loc[w]) /\ context' = [context EXCEPT ![s] = loc[w].out]
  /\ UNCHANGED <<runStatus, status, overdue, version, dlq, redis, history>>

\* setContext, after the transaction has committed, unless the output is null; then the
\* downstream steps if no approval is due.
StoreContext(w) ==
  LET s == loc[w].step IN
  /\ IF s \in NeedsApproval THEN Return(w, "context") ELSE Goto(w, "context", "lock", loc[w])
  /\ \/ context' = [context EXCEPT ![s] = loc[w].out]
     \/ "null" \in Faults /\ UNCHANGED context
  /\ UNCHANGED <<runStatus, status, overdue, version, dlq, redis, history>>

StoreFails(w) ==
  /\ Goto(w, "context", "catch", loc[w])
  /\ "db" \in Faults
  /\ UNCHANGED <<database, redis, history>>

\* job.attemptsMade >= maxAttempts
IsFinalAttempt(w) == FirstAttempt + loc[w].att >= MaxAttempts

\* The catch block: only what it takes for the final attempt is captured in the DLQ.
Catch(w) ==
  /\ Goto(w, "catch", IF IsFinalAttempt(w) THEN "markFailed" ELSE "rethrow", loc[w])
  /\ dlq' = IF IsFinalAttempt(w) THEN [dlq EXCEPT ![loc[w].step] = @ + 1] ELSE dlq
  /\ UNCHANGED <<runStatus, status, overdue, version, context, redis, history>>

MarkFailed(w) ==
  /\ Goto(w, "markFailed", "assess", loc[w])
  /\ WriteStatus({loc[w].step}, "failed")
  /\ overdue' = overdue \ {loc[w].step}
  /\ UNCHANGED <<runStatus, version, context, dlq, redis, history>>

\* Can a pending or running step still come to run?
AnyPendingCanRun ==
  \E s \in Steps : status[s] \in Active /\ ~Blocked(Deps, status, s)

AssessRun(w) ==
  /\ Goto(w, "assess", IF AnyPendingCanRun THEN "rethrow" ELSE "failRun", loc[w])
  /\ UNCHANGED <<database, redis, history>>

FailRun(w) ==
  /\ Goto(w, "failRun", "rethrow", loc[w])
  /\ runStatus' = "failed"
  /\ UNCHANGED <<status, overdue, version, context, dlq, redis, history>>

\* BullMQ puts the job back with a backoff, or drops it after its last attempt.
Rethrow(w) ==
  LET s == loc[w].step  next == loc[w].att + 1 IN
  /\ Return(w, "rethrow")
  /\ IF next \in Attempts THEN AddToQueue(s, next) ELSE UNCHANGED queue
  /\ UNCHANGED <<database, lock, history>>

Process(w) ==
  \/ TakeJob(w) \/ PersistResult(w) \/ ExecutionFails(w) \/ StoreContext(w) \/ StoreFails(w)
  \/ Catch(w) \/ MarkFailed(w) \/ AssessRun(w) \/ FailRun(w) \/ Rethrow(w)

-----------------------------------------------------------------------------
(* startRun, resumeRun, and the watchdog that calls it. *)

\* The pre-flight checks have passed; they do not look at the run's status.
StartRun(c) ==
  /\ Begin(c, "lock", "start", NoStep)
  /\ "anyStart" \in Faults \/ (runStatus = "draft" /\ Quiet)
  /\ runStatus' = "running"
  /\ UNCHANGED <<status, overdue, version, context, dlq, redis, history>>

\* enqueuePendingSteps returned nothing.
UndoStart(c) ==
  /\ Return(c, "undo")
  /\ runStatus' = "draft"
  /\ UNCHANGED <<status, overdue, version, context, dlq, redis, history>>

\* No resume request or watchdog round is under way, and no rerun.
Undisturbed ==
  /\ "overlap" \in Faults \/ \A f \in Fibers : loc[f].op \notin {"resume", "enqueue"}
  /\ "busyRerun" \in Faults \/ \A c \in Clients : loc[c].op # "rerun"

RequestResume(c) ==
  /\ Begin(c, "resume", "resume", NoStep)
  /\ runStatus = "running" /\ Undisturbed
  /\ UNCHANGED <<database, redis, history>>

ReadRunning(f) ==
  LET running == {s \in Steps : status[s] = "running"} IN
  /\ IF runStatus # "running"
       THEN Return(f, "resume")
       ELSE Goto(f, "resume", IF running = {} THEN "lock" ELSE "reset",
                [loc[f] EXCEPT !.todo = running])
  /\ UNCHANGED <<database, redis, history>>

\* resumeRun refuses a run that is not running and looks for steps running too long.
ReadStale(f) ==
  /\ IF runStatus # "running"
       THEN Return(f, "resume")
       ELSE Goto(f, "resume", IF overdue = {} THEN "lock" ELSE "reset",
                [loc[f] EXCEPT !.todo = overdue])
  /\ UNCHANGED <<database, redis, history>>

ResetStale(f) ==
  /\ Goto(f, "reset", "lock", [loc[f] EXCEPT !.todo = {}])
  /\ WriteStatus(loc[f].todo, "pending")
  /\ overdue' = overdue \ loc[f].todo
  /\ UNCHANGED <<runStatus, version, context, dlq, redis, history>>

\* A running step's started_at passes the 35 minutes.  Executions are aborted after 30, so
\* without "slow" nothing stands behind such a step any more.
PassThreshold == \E s \in Steps :
  /\ status[s] = "running" /\ s \notin overdue
  /\ \/ ~Live(s)
     \/ "slow" \in Faults /\ \A a \in Attempts : queue[s][a] < MaxJobs
  /\ overdue' = overdue \cup {s}
  /\ UNCHANGED <<runStatus, status, version, context, dlq, redis, pc, loc, history>>

WatchdogOfPending ==
  /\ runStatus = "running" /\ Undisturbed
  /\ (\A s \in Steps : status[s] = "pending") /\ ("slow" \in Faults \/ Quiet)
  /\ Begin(Cron, "read", "enqueue", NoStep)
  /\ UNCHANGED <<database, redis, history>>

\* workflowWatchdog: all steps still pending 5 minutes after the start (without "slow", no
\* operation is then under way) are enqueued directly, without the lock; a step running for
\* more than 35 minutes makes it resume the run.
Watchdog ==
  /\ runStatus = "running" /\ Undisturbed
  /\ IF (\A s \in Steps : status[s] = "pending") /\ ("slow" \in Faults \/ Quiet)
       THEN Begin(Cron, "read", "enqueue", NoStep)
       ELSE overdue # {} /\ Begin(Cron, "resume", "resume", NoStep)
  /\ UNCHANGED <<database, redis, history>>

-----------------------------------------------------------------------------
(* The reviewer's requests: approve, revise, reject, rerun; the DLQ's replay. *)

ReviewableUnmade(s) ==
  /\ "anyReview" \in Faults \/ status[s] \in {"awaiting_approval", "completed"}
  /\ "eager" \in Faults \/ ~\E w \in Workers : loc[w].step = s /\ pc[w] = "context"

\* handleApproval asks for an artifact, not for a status: that is left to the buttons, which
\* offer approval of a step awaiting it, or completed.
Reviewable(s) ==
  /\ version[s] > 0
  /\ "anyReview" \in Faults \/ status[s] \in {"awaiting_approval", "completed"}
  /\ "eager" \in Faults \/ ~\E w \in Workers : loc[w].step = s /\ pc[w] = "context"

Decide(c, s, decision) ==
  /\ Reviewable(s)
  /\ WriteStatus({s}, decision)
  /\ overdue' = overdue \ {s}
  /\ UNCHANGED <<runStatus, version, context, dlq, redis, history>>

\* approveStep goes on to materialize the artifact and to enqueue the downstream steps.
Approve(c) == \E s \in Steps :
  Begin(c, "lock", "review", NoStep) /\ Decide(c, s, "approved")

\* reviseStep and rejectStep only record the decision.
Decline(c) == \E s \in Steps, d \in {"revision_requested", "rejected"} :
  /\ "rejects" \in Faults /\ ("anyReview" \in Faults \/ status[s] = "awaiting_approval")
  /\ pc[c] = "idle" /\ pc[Boot] = "idle"
  /\ UNCHANGED <<pc, loc>>
  /\ Decide(c, s, d)

\* rerunStep: the check of the step's status; the transaction's read of all steps; its writes.
RequestRerun(c) == \E s \in Steps :
  /\ Begin(c, "snapshot", "rerun", s)
  /\ reruns < MaxReruns
  /\ "busyRerun" \in Faults \/ (Quiet /\ \A t \in Steps : ~Waiting(t))
  /\ status[s] \notin {"approved", "pending", "running"}
  /\ reruns' = reruns + 1
  /\ UNCHANGED <<database, redis, allowed, blind, crashes>>

ReadCascadeOfAll(c) ==
  LET s == loc[c].step IN
  /\ Goto(c, "snapshot", "cascade",
          [loc[c] EXCEPT !.todo = {t \in {s} \cup Downstream(Deps, s) : status[t] # "pending"}])
  /\ UNCHANGED <<database, redis, history>>

ReadCascade(c) ==
  LET s == loc[c].step IN
  /\ Goto(c, "snapshot", "cascade",
          [loc[c] EXCEPT !.todo = {t \in {s} \cup Downstream(Deps, s) :
                                     status[t] \notin {"approved", "pending"}}])
  /\ UNCHANGED <<database, redis, history>>

CascadeReset(c) ==
  LET S == loc[c].todo IN
  /\ Goto(c, "cascade", "lock", [loc[c] EXCEPT !.todo = {}])
  /\ WriteStatus(S, "pending")
  /\ overdue' = overdue \ S
  /\ context' = [t \in Steps |-> IF t \in S THEN 0 ELSE context[t]]
  /\ allowed' = [t \in Steps |-> IF t \in S THEN allowed[t] + 1 ELSE allowed[t]]
  /\ UNCHANGED <<runStatus, version, dlq, redis, blind, reruns, crashes>>

\* The entries of s that no administrator is replaying.
Unclaimed(s) == dlq[s] > Cardinality({c \in Clients : pc[c] = "resolve" /\ loc[c].step = s})

\* replay adds the job again, then resolves the entry; the step row is not touched.
Replay(c) == \E s \in Steps :
  /\ Begin(c, "resolve", "replay", s)
  /\ Unclaimed(s)
  /\ "overlap" \in Faults \/ ~Live(s)
  /\ "lateReplay" \in Faults \/ status[s] = "failed"
  /\ AddToQueue(s, 0)
  /\ UNCHANGED <<database, lock, history>>

ResolveEntry(c) ==
  /\ Return(c, "resolve")
  /\ dlq' = [dlq EXCEPT ![loc[c].step] = @ - 1]
  /\ UNCHANGED <<runStatus, status, overdue, version, context, redis, history>>

\* dismiss only resolves the entry.
Dismiss(c) == \E s \in Steps :
  /\ pc[c] = "idle" /\ pc[Boot] = "idle"
  /\ Unclaimed(s)
  /\ dlq' = [dlq EXCEPT ![s] = @ - 1]
  /\ UNCHANGED <<runStatus, status, overdue, version, context, redis, pc, loc, history>>

Request(c) ==
  \/ StartRun(c) \/ UndoStart(c) \/ RequestResume(c)
  \/ Approve(c) \/ Decline(c)
  \/ RequestRerun(c) \/ ReadCascade(c) \/ CascadeReset(c)
  \/ Replay(c) \/ ResolveEntry(c) \/ Dismiss(c)

-----------------------------------------------------------------------------
(* Crash and restart; reconcileOrphanedRuns. *)

\* The server stops and starts again.  Every fiber dies with its locals.  Jobs being processed
\* are lost (maxStalledCount 0); waiting jobs, and the lock until its TTL, survive in Redis.
Crash ==
  /\ "rolling" \notin Faults /\ crashes < MaxCrashes
  /\ "backlog" \in Faults \/ \A s \in Steps : ~Waiting(s)
  /\ crashes' = crashes + 1
  /\ lock' = IF "quick" \in Faults /\ lock # Nobody THEN Ghost ELSE Nobody
  /\ pc' = [f \in Fibers |-> IF f = Boot THEN "boot" ELSE "idle"]
  /\ loc' = [f \in Fibers |-> Blank]
  /\ UNCHANGED <<database, queue, allowed, blind, reruns>>

\* A deployment: the instance that boots reconciles the runs the other one works on.
Deploy ==
  /\ "rolling" \in Faults /\ crashes < MaxCrashes
  /\ Goto(Boot, "idle", "boot", Blank)
  /\ crashes' = crashes + 1
  /\ UNCHANGED <<database, redis, allowed, blind, reruns>>

\* The run and its steps are read once; what to do follows from that read, with the running
\* steps taken as pending: enqueue, mark the run failed, or leave it alone.
Verdict ==
  LET orphan == [s \in Steps |-> IF status[s] = "running" THEN "pending" ELSE status[s]] IN
  IF \E s \in Eligible(Deps, orphan) : ~Blocked(Deps, orphan, s) THEN "recover"
  ELSE IF (\A s \in Steps : status[s] \notin Active) \/ (\E s \in Steps : status[s] = "failed")
  THEN "doom" ELSE "leave"

ReadRunOnly ==
  /\ IF runStatus # "running"
       THEN Return(Boot, "boot")
       ELSE Goto(Boot, "boot", "settle", [Blank EXCEPT !.op = Verdict])
  /\ UNCHANGED <<database, redis, history>>

ReadRun ==
  LET running == {s \in Steps : status[s] = "running"} IN
  /\ IF runStatus # "running"
       THEN Return(Boot, "boot")
       ELSE Goto(Boot, "boot", IF running = {} THEN "settle" ELSE "orphans",
                [Blank EXCEPT !.op = Verdict, !.todo = running])
  /\ UNCHANGED <<database, redis, history>>

ResetOrphans ==
  /\ Goto(Boot, "orphans", "settle", [loc[Boot] EXCEPT !.todo = {}])
  /\ WriteStatus(loc[Boot].todo, "pending")
  /\ overdue' = overdue \ loc[Boot].todo
  /\ UNCHANGED <<runStatus, version, context, dlq, redis, history>>

Settle ==
  /\ IF loc[Boot].op = "recover" THEN Goto(Boot, "settle", "lock", loc[Boot])
                                 ELSE Return(Boot, "settle")
  /\ runStatus' = IF loc[Boot].op = "doom" THEN "failed" ELSE runStatus
  /\ UNCHANGED <<status, overdue, version, context, dlq, redis, history>>

Recover == Crash \/ Deploy \/ ReadRun \/ ResetOrphans \/ Settle

-----------------------------------------------------------------------------

Next ==
  \/ \E f \in Fibers : EnqueuePendingSteps(f) \/ ReadStale(f) \/ ResetStale(f)
  \/ \E w \in Workers : Process(w)
  \/ \E c \in Clients : Request(c)
  \/ ExpireLock \/ PassThreshold \/ Watchdog \/ Recover

Spec == Init /\ [][Next]_vars

\* Node resumes a fiber whose promise settled, BullMQ hands a job to an idle worker and none of them
\* never, the cron ticks, keys expire, time passes.  Nothing is asked of users or of the faults.
Fairness ==
  /\ \A f \in Fibers : WF_vars(EnqueuePendingSteps(f) \/ ReadStale(f) \/ ResetStale(f))
  /\ \A w \in Workers : WF_vars(Process(w))
  /\ \A s \in Steps : SF_vars(\E w \in Workers : TakeJob(w) /\ loc'[w].step = s)
  /\ \A c \in Clients : WF_vars(UndoStart(c) \/ ReadCascade(c) \/ CascadeReset(c) \/ ResolveEntry(c))
  /\ \A s \in Steps : WF_vars(PassThreshold /\ overdue' = overdue \cup {s})
  /\ WF_vars(ExpireLock) /\ SF_vars(Watchdog)
  /\ WF_vars(ReadRun \/ ResetOrphans \/ Settle)

FairSpec == Spec /\ Fairness

-----------------------------------------------------------------------------
(* Properties. *)

\* Every variable keeps to the values the schema, BullMQ and the code's own variables allow.
TypeOK ==
  /\ runStatus \in RunStatus
  /\ status \in [Steps -> StepStatus]
  /\ overdue \subseteq Steps
  /\ version \in [Steps -> 0 .. MaxVersion]
  /\ context \in [Steps -> 0 .. MaxVersion]
  /\ queue \in [Steps -> [Attempts -> Nat]]
  /\ lock \in Fibers \cup {Nobody, Ghost}
  /\ dlq \in [Steps -> Int]
  /\ pc \in [Fibers -> PCs]
  /\ loc \in [Fibers -> Locals]
  /\ allowed \in [Steps -> Nat]
  /\ blind \subseteq Steps
  /\ reruns \in 0 .. MaxReruns
  /\ crashes \in 0 .. MaxCrashes

\* A step that can be reviewed, or was reviewed, has a result: whatever goes wrong, a status
\* never runs ahead of the artifact (persist transaction, handleApproval's artifact check).
ReviewedHasArtifact ==
  \A s \in Steps : status[s] \notin {"pending", "running", "failed"} => version[s] > 0

\* The fibers between the acquisition and the release of the lock.
InSection(f) ==
  /\ loc[f].op # "enqueue"
  /\ pc[f] \in {"read", "mark", "add", "rollback", "terminal", "complete", "unlock", "release"}

\* No two callers of enqueuePendingSteps are inside it at once: the Redis lock excludes.
LockExcludes == \A f, g \in Fibers : InSection(f) /\ InSection(g) => f = g

Working(s) == {w \in Workers : loc[w].step = s /\ pc[w] \in InJob}

\* A step has at most one job at a time, waiting or in execution: what the lock, the switched
\* off stalled-job retry and the 35 minute threshold are there for.
OneJobPerStep == \A s \in Steps :
  /\ Cardinality(Working(s)) <= 1
  /\ \A a \in Attempts : queue[s][a] <= 1
  /\ \A a, b \in Attempts : queue[s][a] > 0 /\ queue[s][b] > 0 => a = b
  /\ Waiting(s) => Working(s) = {}

\* Every artifact is a debit.  A step is debited no more often than it was asked to execute, by
\* the start of the run and by reruns: neither retries nor recoveries cost credits.
ChargedOnce == \A s \in Steps : version[s] <= allowed[s]

\* No step is marked running before every step it depends on is completed or approved, and none
\* of those is taken back while it runs.
DependencyOrder == \A s \in Steps :
  status[s] = "running" => \A d \in Deps[s] : status[d] \in Satisfied

\* Each latest artifact was made from the latest outputs of the steps it depends on.
FreshInputs == blind = {}

\* A completed run has nothing left to do: _doEnqueuePendingSteps decides on a read of its own,
\* and nothing becomes active between that read and the write, or afterwards, until a step is rerun.
CompletedIsTerminal ==
  runStatus = "completed" /\ reruns = 0 => \A s \in Steps : status[s] \notin Active

\* A run that startRun rolled back to draft is as good as new: none of its steps is at work.
DraftIsIdle == runStatus = "draft" => \A s \in Steps : status[s] = "pending"

\* The job of step s waits, or a fiber works on it, is about to add it, or could not add it and is
\* about to say so.
HasJob(s) ==
  \/ Waiting(s)
  \/ \E f \in Fibers : \/ pc[f] \in InJob /\ loc[f].step = s
                       \/ pc[f] = "add" /\ s \in loc[f].todo
                       \/ s \in loc[f].failed

Stranded(s) == status[s] = "running" /\ ~HasJob(s)

GivesUp(w, s) == pc[w] = "rethrow" /\ loc[w].step = s /\ loc[w].att = MaxAttempts - 1

Strands == \E s \in Steps :
  /\ Stranded(s)' /\ ~Stranded(s)
  /\ \A w \in Workers : ~GivesUp(w, s)

\* No step becomes "running" for nobody but by a crash or by its last attempt: every path through
\* enqueuePendingSteps, the catch block and the resets passes the job on or takes the status back.
\* And once the reconciliation has reset what it found in a running run, nothing runs.
StrandsNothing ==
  [][/\ Strands => crashes' # crashes
     /\ pc'[Boot] = "settle" => \A s \in Steps : status'[s] # "running"]_vars

\* What the comments of the catch block and the docs say: a job that is given up after its last
\* attempt leaves its step marked failed.
LastFailureMarked == \A w \in Workers, s \in Steps : GivesUp(w, s) => status[s] = "failed"

\* The two cases workflowWatchdog is there for: as long as a run is running, no step of it stays
\* running for good, whatever became of its job, and its steps do not all stay pending.
WatchdogRescues ==
  /\ \A s \in Steps : runStatus = "running" /\ status[s] = "running"
                       ~> runStatus # "running" \/ status[s] # "running"
  /\ runStatus = "running" /\ (\A s \in Steps : status[s] = "pending")
       ~> runStatus # "running" \/ (\E s \in Steps : status[s] # "pending")

Lifecycle == INSTANCE RunLifecycle

\* Seen through its API, the engine is the state machine of RunLifecycle: each transaction, with
\* all the reads it was decided on earlier, amounts to one of that machine's steps.
RefinesLifecycle == Lifecycle!Spec

=============================================================================
