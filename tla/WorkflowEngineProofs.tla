------------------------ MODULE WorkflowEngineProofs ------------------------
(***************************************************************************)
(* Theorems about WorkflowEngine, for any dependency graph, any number of  *)
(* workers and clients, and any bounds: types, artifacts and the lock      *)
(* under any choice of faults, then charges, order and completion where    *)
(* only executions and servers fail, the jobs where Redis and the database *)
(* fail too, the start and its undoing, the refinement of RunLifecycle,    *)
(* the jobs that running steps have, and the inputs of a lone worker.      *)
(***************************************************************************)
EXTENDS WorkflowEngine, FiniteSetTheorems, TLAPS

-----------------------------------------------------------------------------
(* The dependency graph. *)

LEMMA AncestrySelf ==
  ASSUME NEW N, NEW D \in [N -> SUBSET N], NEW s \in N
  PROVE  s \in Ancestry(D, s)
BY DEF Ancestry

LEMMA AncestryGrows ==
  ASSUME NEW N, NEW D \in [N -> SUBSET N], NEW t \in N, NEW d \in D[t], NEW s \in Ancestry(D, d)
  PROVE  s \in Ancestry(D, t)
<1>1. ASSUME NEW C \in SUBSET N, t \in C, Closed(D, C) PROVE s \in C
  <2>1. d \in C
    BY <1>1 DEF Closed
  <2> QED
    BY <1>1, <2>1 DEF Ancestry
<1> QED
  BY <1>1 DEF Ancestry

\* Whatever depends on s, or on a step downstream of s, is downstream of s.
LEMMA DownstreamClosed ==
  ASSUME NEW N, NEW D \in [N -> SUBSET N], NEW s \in N, NEW t \in N, NEW d \in D[t],
         d = s \/ d \in Downstream(D, s)
  PROVE  t \in Downstream(D, s)
<1>1. d \in N
  OBVIOUS
<1>2. s \in Ancestry(D, d)
  <2>1. CASE d = s
    BY <2>1, AncestrySelf
  <2>2. CASE d \in Downstream(D, s)
    <3>1. PICK e \in D[d] : s \in Ancestry(D, e)
      BY <2>2 DEF Downstream
    <3> QED
      BY <1>1, <3>1, AncestryGrows
  <2> QED
    BY <2>1, <2>2
<1> QED
  BY <1>2 DEF Downstream

-----------------------------------------------------------------------------
(* Type correctness. *)

\* An update keeps a function in its type, and changes nothing outside of its domain.
LEMMA UpdateType ==
  ASSUME NEW D, NEW R, NEW g \in [D -> R], NEW x, NEW y, x \in D => y \in R
  PROVE  [g EXCEPT ![x] = y] \in [D -> R]
OBVIOUS

\* A fiber that goes on somewhere keeps pc and loc well-typed.
LEMMA GotoType ==
  ASSUME TypeOK, NEW f \in Fibers, NEW p, NEW q \in PCs, NEW l \in Locals, Goto(f, p, q, l)
  PROVE  /\ pc' \in [Fibers -> PCs]
         /\ loc' \in [Fibers -> Locals]
         /\ pc[f] = p
BY DEF TypeOK, Goto

LEMMA BlankType == Blank \in Locals
BY EngineAssumption DEF Blank, Locals, Ops, Attempts

LEMMA ReturnType ==
  ASSUME TypeOK, NEW f \in Fibers, NEW p, Return(f, p)
  PROVE  pc' \in [Fibers -> PCs] /\ loc' \in [Fibers -> Locals]
BY GotoType, BlankType DEF Return, PCs

LEMMA BeginType ==
  ASSUME TypeOK, NEW f \in Fibers, NEW q \in PCs, NEW o \in Ops, NEW s \in Steps \cup {NoStep},
         Begin(f, q, o, s)
  PROVE  pc' \in [Fibers -> PCs] /\ loc' \in [Fibers -> Locals]
<1>1. [Blank EXCEPT !.op = o, !.step = s] \in Locals
  BY BlankType DEF Locals
<1> QED
  BY <1>1, GotoType DEF Begin

LEMMA GiveUpType ==
  ASSUME TypeOK, NEW f \in Fibers, NEW p, GiveUp(f, p)
  PROVE  pc' \in [Fibers -> PCs] /\ loc' \in [Fibers -> Locals]
<1>1. loc[f] \in Locals
  BY DEF TypeOK
<1> QED
  BY <1>1, GotoType, ReturnType DEF GiveUp, PCs

LEMMA FinishType ==
  ASSUME TypeOK, NEW f \in Fibers, NEW p, Finish(f, p)
  PROVE  pc' \in [Fibers -> PCs] /\ loc' \in [Fibers -> Locals]
BY GiveUpType, ReturnType DEF Finish

LEMMA WriteStatusType ==
  ASSUME TypeOK, NEW S, NEW v \in StepStatus, WriteStatus(S, v)
  PROVE  status' \in [Steps -> StepStatus]
BY DEF TypeOK, WriteStatus

LEMMA AddToQueueType ==
  ASSUME TypeOK, NEW s, NEW a, AddToQueue(s, a)
  PROVE  queue' \in [Steps -> [Attempts -> Nat]]
<1>1. s \in Steps => [queue[s] EXCEPT ![a] = queue[s][a] + 1] \in [Attempts -> Nat]
  <2> SUFFICES ASSUME s \in Steps
               PROVE  [queue[s] EXCEPT ![a] = queue[s][a] + 1] \in [Attempts -> Nat]
    OBVIOUS
  <2>1. queue[s] \in [Attempts -> Nat]
    BY DEF TypeOK
  <2>2. a \in Attempts => queue[s][a] + 1 \in Nat
    BY <2>1
  <2> QED
    BY <2>1, <2>2, UpdateType
<1>2. [queue EXCEPT ![s] = [queue[s] EXCEPT ![a] = queue[s][a] + 1]]
        \in [Steps -> [Attempts -> Nat]]
  BY <1>1, UpdateType DEF TypeOK
<1> QED
  BY <1>2 DEF AddToQueue

\* Whoever executes a job, or has checked a rerun, does so for a step: what PersistResult and
\* ReadCascade rely on.
StepIsGiven == \A f \in Fibers : pc[f] \in {"execute", "snapshot"} => loc[f].step \in Steps

LEMMA InitType == Init => TypeOK
<1> SUFFICES ASSUME Init PROVE TypeOK
  OBVIOUS
<1> USE DEF Init
<1>1. runStatus \in RunStatus /\ status \in [Steps -> StepStatus]
  BY DEF RunStatus, StepStatus
<1>2. pc \in [Fibers -> PCs]
  BY DEF PCs
<1>3. loc \in [Fibers -> Locals]
  BY BlankType
<1>4. reruns \in 0 .. MaxReruns /\ crashes \in 0 .. MaxCrashes
  BY EngineAssumption
<1>5. version \in [Steps -> 0 .. MaxVersion] /\ context \in [Steps -> 0 .. MaxVersion]
  BY EngineAssumption
<1> QED
  BY <1>1, <1>2, <1>3, <1>4, <1>5 DEF TypeOK

LEMMA EnqueueType ==
  ASSUME TypeOK, NEW f \in Fibers, EnqueuePendingSteps(f)
  PROVE  TypeOK'
<1> USE DEF database, redis, history
<1>0. loc[f] \in Locals /\ Eligible(Deps, status) \subseteq Steps
  BY EngineAssumption DEF TypeOK, Eligible
<1>1. CASE AcquireLock(f)
  BY <1>0, <1>1, GotoType DEF AcquireLock, TypeOK, PCs
<1>2. CASE LockBusy(f)
  BY <1>2, GiveUpType DEF LockBusy, TypeOK
<1>3. CASE LockFails(f)
  BY <1>0, <1>3, GotoType, ReturnType DEF LockFails, TypeOK, PCs
<1>4. CASE ReadEligible(f)
  <2>1. [loc[f] EXCEPT !.todo = Eligible(Deps, status)] \in Locals
    BY <1>0 DEF Locals
  <2> QED
    BY <2>1, <1>4, GotoType DEF ReadEligible, TypeOK, PCs
<1>5. CASE MarkRunning(f)
  <2>1. pc' \in [Fibers -> PCs] /\ loc' \in [Fibers -> Locals]
    BY <1>0, <1>5, GotoType DEF MarkRunning, PCs
  <2>2. status' \in [Steps -> StepStatus]
    BY <1>5, WriteStatusType DEF MarkRunning, StepStatus
  <2> QED
    BY <2>1, <2>2, <1>5 DEF MarkRunning, TypeOK
<1>6. ASSUME NEW l \in Locals PROVE AfterAdd(l) \in PCs
  BY DEF AfterAdd, PCs
<1>7. CASE AddJob(f)
  <2>1. PICK s \in loc[f].todo :
          /\ Goto(f, "add", AfterAdd([loc[f] EXCEPT !.todo = @ \ {s}, !.some = TRUE]),
                  [loc[f] EXCEPT !.todo = @ \ {s}, !.some = TRUE])
          /\ AddToQueue(s, 0)
          /\ UNCHANGED <<database, lock, history>>
    BY <1>7 DEF AddJob
  <2>2. [loc[f] EXCEPT !.todo = @ \ {s}, !.some = TRUE] \in Locals
    BY <1>0 DEF Locals
  <2>3. pc' \in [Fibers -> PCs] /\ loc' \in [Fibers -> Locals]
    BY <2>1, <2>2, <1>6, GotoType
  <2>4. queue' \in [Steps -> [Attempts -> Nat]]
    BY <2>1, AddToQueueType
  <2> QED
    BY <2>1, <2>3, <2>4 DEF TypeOK
<1>8. CASE AddFails(f)
  <2>1. PICK s \in loc[f].todo :
          /\ Goto(f, "add", AfterAdd([loc[f] EXCEPT !.todo = @ \ {s}, !.failed = @ \cup {s}]),
                  [loc[f] EXCEPT !.todo = @ \ {s}, !.failed = @ \cup {s}])
          /\ UNCHANGED <<database, redis, history>>
    BY <1>8 DEF AddFails
  <2>2. [loc[f] EXCEPT !.todo = @ \ {s}, !.failed = @ \cup {s}] \in Locals
    BY <1>0 DEF Locals
  <2>3. pc' \in [Fibers -> PCs] /\ loc' \in [Fibers -> Locals]
    BY <2>1, <2>2, <1>6, GotoType
  <2> QED
    BY <2>1, <2>3 DEF TypeOK
<1>9. CASE RollbackFailures(f)
  <2>1. [loc[f] EXCEPT !.failed = {}] \in Locals
    BY <1>0 DEF Locals
  <2>2. pc' \in [Fibers -> PCs] /\ loc' \in [Fibers -> Locals]
    BY <2>1, <1>9, GotoType DEF RollbackFailures, PCs
  <2>3. status' \in [Steps -> StepStatus]
    BY <1>9, WriteStatusType DEF RollbackFailures, StepStatus
  <2> QED
    BY <2>2, <2>3, <1>9 DEF RollbackFailures, TypeOK
<1>10. CASE CheckTerminal(f)
  BY <1>0, <1>10, GotoType DEF CheckTerminal, TypeOK, PCs
<1>11. CASE CompleteRun(f)
  BY <1>0, <1>11, GotoType DEF CompleteRun, TypeOK, PCs, RunStatus
<1>12. CASE CompareLock(f)
  BY <1>0, <1>12, GotoType, FinishType DEF CompareLock, TypeOK, PCs
<1>13. CASE DeleteLock(f)
  BY <1>13, FinishType DEF DeleteLock, TypeOK
<1>14. CASE ReleaseFails(f)
  BY <1>14, FinishType DEF ReleaseFails, TypeOK
<1> QED
  BY <1>1, <1>2, <1>3, <1>4, <1>5, <1>7, <1>8, <1>9, <1>10, <1>11, <1>12, <1>13, <1>14
  DEF EnqueuePendingSteps

LEMMA ProcessType ==
  ASSUME TypeOK, StepIsGiven, NEW w \in Workers, Process(w)
  PROVE  TypeOK'
<1> USE DEF database, redis, history
<1>0. w \in Fibers /\ loc[w] \in Locals
  BY DEF TypeOK, Fibers
<1>1. CASE TakeJob(w)
  <2>1. PICK s \in Steps, a \in Attempts :
          /\ Goto(w, "idle", "execute", [Blank EXCEPT !.op = "job", !.step = s, !.att = a,
                                                      !.fresh = HasInputs(s)])
          /\ queue[s][a] > 0
          /\ queue' = [queue EXCEPT ![s][a] = @ - 1]
          /\ UNCHANGED <<database, lock, history>>
    BY <1>1 DEF TakeJob
  <2>2. HasInputs(s) \in BOOLEAN
    BY DEF HasInputs
  <2>3. [Blank EXCEPT !.op = "job", !.step = s, !.att = a, !.fresh = HasInputs(s)] \in Locals
    BY <2>2, BlankType DEF Locals, Ops
  <2>4. pc' \in [Fibers -> PCs] /\ loc' \in [Fibers -> Locals]
    BY <1>0, <2>1, <2>3, GotoType DEF PCs
  <2>5. queue[s] \in [Attempts -> Nat]
    BY DEF TypeOK
  <2>6. queue[s][a] - 1 \in Nat
    BY <2>1, <2>5
  <2>7. [queue[s] EXCEPT ![a] = queue[s][a] - 1] \in [Attempts -> Nat]
    BY <2>5, <2>6, UpdateType
  <2>8. queue' \in [Steps -> [Attempts -> Nat]]
    BY <2>1, <2>7, UpdateType DEF TypeOK
  <2> QED
    BY <2>1, <2>4, <2>8 DEF TypeOK
<1>2. CASE PersistResult(w)
  <2> DEFINE s == loc[w].step
  <2>1. version[s] < MaxVersion /\ version' = [version EXCEPT ![s] = version[s] + 1]
    BY <1>2 DEF PersistResult
  <2>2. s \in Steps /\ version[s] + 1 \in 0 .. MaxVersion
    BY <1>0, <1>2, <2>1, EngineAssumption DEF TypeOK, StepIsGiven, PersistResult, Goto
  <2>3. version' \in [Steps -> 0 .. MaxVersion]
    BY <2>1, <2>2, UpdateType DEF TypeOK
  <2>4. status' \in [Steps -> StepStatus]
    BY <1>2, WriteStatusType DEF PersistResult, StepStatus
  <2>5. [loc[w] EXCEPT !.out = version[s] + 1] \in Locals
    BY <1>0, <2>2 DEF Locals
  <2>6. Goto(w, "execute", "context", [loc[w] EXCEPT !.out = version[s] + 1])
    BY <1>2 DEF PersistResult
  <2>7. pc' \in [Fibers -> PCs] /\ loc' \in [Fibers -> Locals]
    BY <1>0, <2>5, <2>6, GotoType DEF PCs
  <2> QED
    BY <1>2, <2>2, <2>3, <2>4, <2>7 DEF PersistResult, TypeOK
<1>3. CASE ExecutionFails(w)
  BY <1>0, <1>3, GotoType DEF ExecutionFails, TypeOK, PCs
<1>4. CASE StoreContext(w)
  <2>1. pc' \in [Fibers -> PCs] /\ loc' \in [Fibers -> Locals]
    BY <1>0, <1>4, GotoType, ReturnType DEF StoreContext, PCs
  <2>2. loc[w].out \in 0 .. MaxVersion
    BY <1>0 DEF Locals
  <2> QED
    BY <2>1, <2>2, <1>4 DEF StoreContext, TypeOK
<1>5. CASE StoreFails(w)
  BY <1>0, <1>5, GotoType DEF StoreFails, TypeOK, PCs
<1>6. CASE Catch(w)
  <2>1. pc' \in [Fibers -> PCs] /\ loc' \in [Fibers -> Locals]
    BY <1>0, <1>6, GotoType DEF Catch, PCs
  <2>2. loc[w].step \in Steps => dlq[loc[w].step] + 1 \in Int
    BY DEF TypeOK
  <2>3. dlq' \in [Steps -> Int]
    BY <1>6, <2>2, UpdateType DEF Catch, TypeOK
  <2> QED
    BY <2>1, <2>3, <1>6 DEF Catch, TypeOK
<1>7. CASE MarkFailed(w)
  <2>1. pc' \in [Fibers -> PCs] /\ loc' \in [Fibers -> Locals]
    BY <1>0, <1>7, GotoType DEF MarkFailed, PCs
  <2>2. status' \in [Steps -> StepStatus]
    BY <1>7, WriteStatusType DEF MarkFailed, StepStatus
  <2> QED
    BY <2>1, <2>2, <1>7 DEF MarkFailed, TypeOK
<1>8. CASE AssessRun(w)
  BY <1>0, <1>8, GotoType DEF AssessRun, TypeOK, PCs
<1>9. CASE FailRun(w)
  BY <1>0, <1>9, GotoType DEF FailRun, TypeOK, PCs, RunStatus
<1>10. CASE Rethrow(w)
  <2>1. pc' \in [Fibers -> PCs] /\ loc' \in [Fibers -> Locals]
    BY <1>0, <1>10, ReturnType DEF Rethrow
  <2>2. queue' \in [Steps -> [Attempts -> Nat]]
    BY <1>10, AddToQueueType DEF Rethrow, TypeOK
  <2> QED
    BY <2>1, <2>2, <1>10 DEF Rethrow, TypeOK
<1> QED
  BY <1>1, <1>2, <1>3, <1>4, <1>5, <1>6, <1>7, <1>8, <1>9, <1>10 DEF Process

LEMMA DecideType ==
  ASSUME TypeOK, NEW c, NEW s, NEW d \in StepStatus, Decide(c, s, d),
         pc' \in [Fibers -> PCs], loc' \in [Fibers -> Locals]
  PROVE  TypeOK'
<1>1. status' \in [Steps -> StepStatus]
  BY WriteStatusType DEF Decide
<1> QED
  BY <1>1 DEF Decide, TypeOK, redis, history

LEMMA RequestType ==
  ASSUME TypeOK, StepIsGiven, NEW c \in Clients, Request(c)
  PROVE  TypeOK'
<1> USE DEF database, redis, history
<1>0. c \in Fibers /\ loc[c] \in Locals
  BY DEF TypeOK, Fibers
<1>1. CASE StartRun(c)
  BY <1>0, <1>1, BeginType DEF StartRun, TypeOK, PCs, Ops, RunStatus
<1>2. CASE UndoStart(c)
  BY <1>0, <1>2, ReturnType DEF UndoStart, TypeOK, RunStatus
<1>3. CASE RequestResume(c)
  BY <1>0, <1>3, BeginType DEF RequestResume, TypeOK, PCs, Ops
<1>4. CASE Approve(c)
  <2>1. PICK s \in Steps : Begin(c, "lock", "review", NoStep) /\ Decide(c, s, "approved")
    BY <1>4 DEF Approve
  <2>2. pc' \in [Fibers -> PCs] /\ loc' \in [Fibers -> Locals]
    BY <1>0, <2>1, BeginType DEF PCs, Ops
  <2> QED
    BY <2>1, <2>2, DecideType DEF StepStatus
<1>5. CASE Decline(c)
  <2>1. PICK s \in Steps, d \in {"revision_requested", "rejected"} :
          UNCHANGED <<pc, loc>> /\ Decide(c, s, d)
    BY <1>5 DEF Decline
  <2> QED
    BY <2>1, DecideType DEF StepStatus, TypeOK
<1>6. CASE RequestRerun(c)
  <2>1. PICK s \in Steps : Begin(c, "snapshot", "rerun", s)
    BY <1>6 DEF RequestRerun
  <2>2. pc' \in [Fibers -> PCs] /\ loc' \in [Fibers -> Locals]
    BY <1>0, <2>1, BeginType DEF PCs, Ops
  <2>3. reruns' \in 0 .. MaxReruns
    BY <1>6, EngineAssumption DEF RequestRerun, TypeOK
  <2> QED
    BY <1>6, <2>2, <2>3 DEF RequestRerun, TypeOK
<1>7. CASE ReadCascade(c)
  <2> DEFINE s == loc[c].step
             S == {t \in {s} \cup Downstream(Deps, s) : status[t] \notin {"approved", "pending"}}
  <2>1. s \in Steps
    BY <1>0, <1>7 DEF ReadCascade, Goto, StepIsGiven
  <2>2. S \subseteq Steps
    BY <2>1, EngineAssumption DEF Downstream
  <2>3. [loc[c] EXCEPT !.todo = S] \in Locals
    BY <1>0, <2>2 DEF Locals
  <2> QED
    BY <1>0, <1>7, <2>3, GotoType DEF ReadCascade, TypeOK, PCs
<1>8. CASE CascadeReset(c)
  <2>1. [loc[c] EXCEPT !.todo = {}] \in Locals
    BY <1>0 DEF Locals
  <2>2. pc' \in [Fibers -> PCs] /\ loc' \in [Fibers -> Locals]
    BY <1>0, <1>8, <2>1, GotoType DEF CascadeReset, PCs
  <2>3. status' \in [Steps -> StepStatus]
    BY <1>8, WriteStatusType DEF CascadeReset, StepStatus
  <2>4. context' \in [Steps -> 0 .. MaxVersion]
    BY <1>8, EngineAssumption DEF CascadeReset, TypeOK
  <2>5. allowed' \in [Steps -> Nat]
    BY <1>8 DEF CascadeReset, TypeOK
  <2> QED
    BY <1>8, <2>2, <2>3, <2>4, <2>5 DEF CascadeReset, TypeOK
<1>9. CASE Replay(c)
  <2>1. PICK s \in Steps : Begin(c, "resolve", "replay", s) /\ AddToQueue(s, 0)
    BY <1>9 DEF Replay
  <2>2. pc' \in [Fibers -> PCs] /\ loc' \in [Fibers -> Locals]
    BY <1>0, <2>1, BeginType DEF PCs, Ops
  <2>3. queue' \in [Steps -> [Attempts -> Nat]]
    BY <2>1, AddToQueueType
  <2> QED
    BY <1>9, <2>2, <2>3 DEF Replay, TypeOK
<1>10. CASE ResolveEntry(c)
  <2>1. loc[c].step \in Steps => dlq[loc[c].step] - 1 \in Int
    BY DEF TypeOK
  <2>2. dlq' \in [Steps -> Int]
    BY <1>10, <2>1, UpdateType DEF ResolveEntry, TypeOK
  <2> QED
    BY <1>0, <1>10, <2>2, ReturnType DEF ResolveEntry, TypeOK
<1>11. CASE Dismiss(c)
  <2>1. PICK s \in Steps : dlq' = [dlq EXCEPT ![s] = dlq[s] - 1]
    BY <1>11 DEF Dismiss
  <2>2. dlq' \in [Steps -> Int]
    BY <2>1, UpdateType DEF TypeOK
  <2> QED
    BY <1>11, <2>2 DEF Dismiss, TypeOK
<1> QED
  BY <1>1, <1>2, <1>3, <1>4, <1>5, <1>6, <1>7, <1>8, <1>9, <1>10, <1>11 DEF Request

LEMMA ResumeType ==
  ASSUME TypeOK, NEW f \in Fibers, ReadStale(f) \/ ResetStale(f)
  PROVE  TypeOK'
<1> USE DEF database, redis, history
<1>0. loc[f] \in Locals /\ overdue \subseteq Steps
  BY DEF TypeOK
<1>1. [loc[f] EXCEPT !.todo = overdue] \in Locals /\ [loc[f] EXCEPT !.todo = {}] \in Locals
  BY <1>0 DEF Locals
<1>2. CASE ReadStale(f)
  BY <1>1, <1>2, GotoType, ReturnType DEF ReadStale, TypeOK, PCs
<1>3. CASE ResetStale(f)
  <2>1. status' \in [Steps -> StepStatus]
    BY <1>3, WriteStatusType DEF ResetStale, StepStatus
  <2> QED
    BY <1>1, <1>3, <2>1, GotoType DEF ResetStale, TypeOK, PCs
<1> QED
  BY <1>2, <1>3

LEMMA RecoverType ==
  ASSUME TypeOK, Recover
  PROVE  TypeOK'
<1> USE DEF database, redis, history
<1>0. Boot \in Fibers /\ loc[Boot] \in Locals
  BY DEF TypeOK, Fibers
<1>1. CASE Crash
  <2>1. pc' \in [Fibers -> PCs] /\ loc' \in [Fibers -> Locals]
    BY <1>1, BlankType DEF Crash, PCs
  <2>2. crashes' \in 0 .. MaxCrashes
    BY <1>1, EngineAssumption DEF Crash, TypeOK
  <2> QED
    BY <1>1, <2>1, <2>2 DEF Crash, TypeOK
<1>2. CASE Deploy
  <2>1. crashes' \in 0 .. MaxCrashes
    BY <1>2, EngineAssumption DEF Deploy, TypeOK
  <2> QED
    BY <1>0, <1>2, <2>1, BlankType, GotoType DEF Deploy, TypeOK, PCs
<1>3. CASE ReadRun
  <2>1. Verdict \in Ops
    BY DEF Verdict, Ops
  <2>2. [Blank EXCEPT !.op = Verdict, !.todo = {s \in Steps : status[s] = "running"}] \in Locals
    BY <2>1, BlankType DEF Locals
  <2> QED
    BY <1>0, <1>3, <2>2, GotoType, ReturnType DEF ReadRun, TypeOK, PCs
<1>4. CASE ResetOrphans
  <2>1. [loc[Boot] EXCEPT !.todo = {}] \in Locals
    BY <1>0 DEF Locals
  <2>2. status' \in [Steps -> StepStatus]
    BY <1>4, WriteStatusType DEF ResetOrphans, StepStatus
  <2> QED
    BY <1>0, <1>4, <2>1, <2>2, GotoType DEF ResetOrphans, TypeOK, PCs
<1>5. CASE Settle
  BY <1>0, <1>5, GotoType, ReturnType DEF Settle, TypeOK, PCs, RunStatus
<1> QED
  BY <1>1, <1>2, <1>3, <1>4, <1>5 DEF Recover

LEMMA OthersType ==
  ASSUME TypeOK, ExpireLock \/ PassThreshold \/ Watchdog
  PROVE  TypeOK'
<1> USE DEF database, redis, history
<1>1. CASE ExpireLock
  BY <1>1 DEF ExpireLock, TypeOK
<1>2. CASE PassThreshold
  BY <1>2 DEF PassThreshold, TypeOK
<1>3. CASE Watchdog
  <2>1. \/ Begin(Cron, "read", "enqueue", NoStep)
        \/ Begin(Cron, "resume", "resume", NoStep)
    BY <1>3 DEF Watchdog
  <2>2. pc' \in [Fibers -> PCs] /\ loc' \in [Fibers -> Locals]
    BY <2>1, BeginType DEF Fibers, PCs, Ops
  <2> QED
    BY <1>3, <2>2 DEF Watchdog, TypeOK
<1> QED
  BY <1>1, <1>2, <1>3

-----------------------------------------------------------------------------
(* StepIsGiven, the strengthening that makes TypeOK inductive. *)

\* Only TakeJob and RequestRerun bring a fiber to where it needs a step.
LEMMA GotoStep ==
  ASSUME TypeOK, StepIsGiven, NEW f \in Fibers, NEW p, NEW q, NEW l, Goto(f, p, q, l),
         q \in {"execute", "snapshot"} => l.step \in Steps
  PROVE  StepIsGiven'
BY DEF TypeOK, StepIsGiven, Goto

LEMMA ReturnStep ==
  ASSUME TypeOK, StepIsGiven, NEW f \in Fibers, NEW p, Return(f, p)
  PROVE  StepIsGiven'
BY GotoStep DEF Return

LEMMA GiveUpStep ==
  ASSUME TypeOK, StepIsGiven, NEW f \in Fibers, NEW p, GiveUp(f, p) \/ Finish(f, p)
  PROVE  StepIsGiven'
BY GotoStep, ReturnStep DEF GiveUp, Finish

LEMMA StepInductive ==
  ASSUME TypeOK, StepIsGiven, Next
  PROVE  StepIsGiven'
<1>1. ASSUME NEW f \in Fibers, EnqueuePendingSteps(f) PROVE StepIsGiven'
  <2>1. CASE AddJob(f)
    BY <2>1, GotoStep DEF AddJob, AfterAdd
  <2>2. CASE AddFails(f)
    BY <2>2, GotoStep DEF AddFails, AfterAdd
  <2>3. CASE LockBusy(f) \/ DeleteLock(f) \/ ReleaseFails(f)
    BY <2>3, GiveUpStep DEF LockBusy, DeleteLock, ReleaseFails
  <2>4. CASE LockFails(f) \/ CompareLock(f)
    BY <2>4, GotoStep, ReturnStep, GiveUpStep DEF LockFails, CompareLock
  <2>5. CASE AcquireLock(f) \/ ReadEligible(f) \/ MarkRunning(f) \/ RollbackFailures(f)
    BY <2>5, GotoStep DEF AcquireLock, ReadEligible, MarkRunning, RollbackFailures
  <2>6. CASE CheckTerminal(f) \/ CompleteRun(f)
    BY <2>6, GotoStep DEF CheckTerminal, CompleteRun
  <2> QED
    BY <1>1, <2>1, <2>2, <2>3, <2>4, <2>5, <2>6 DEF EnqueuePendingSteps
<1>2. ASSUME NEW f \in Fibers, ReadStale(f) \/ ResetStale(f) PROVE StepIsGiven'
  BY <1>2, GotoStep, ReturnStep DEF ReadStale, ResetStale
<1>3. ASSUME NEW w \in Workers, Process(w) PROVE StepIsGiven'
  <2>0. w \in Fibers
    BY DEF Fibers
  <2>1. CASE TakeJob(w)
    <3>1. PICK s \in Steps, a \in Attempts :
            Goto(w, "idle", "execute", [Blank EXCEPT !.op = "job", !.step = s, !.att = a,
                                                     !.fresh = HasInputs(s)])
      BY <2>1 DEF TakeJob
    <3> QED
      BY <2>0, <3>1, GotoStep DEF Blank
  <2>2. CASE PersistResult(w) \/ ExecutionFails(w) \/ StoreContext(w) \/ StoreFails(w)
    BY <2>0, <2>2, GotoStep, ReturnStep DEF PersistResult, ExecutionFails, StoreContext, StoreFails
  <2>3. CASE Catch(w) \/ MarkFailed(w) \/ AssessRun(w) \/ FailRun(w) \/ Rethrow(w)
    BY <2>0, <2>3, GotoStep, ReturnStep DEF Catch, MarkFailed, AssessRun, FailRun, Rethrow
  <2> QED
    BY <1>3, <2>1, <2>2, <2>3 DEF Process
<1>4. ASSUME NEW c \in Clients, Request(c) PROVE StepIsGiven'
  <2>0. c \in Fibers
    BY DEF Fibers
  <2>1. CASE StartRun(c) \/ UndoStart(c) \/ RequestResume(c) \/ Approve(c)
    BY <2>0, <2>1, GotoStep, ReturnStep DEF StartRun, UndoStart, RequestResume, Approve, Begin
  <2>2. CASE RequestRerun(c) \/ ReadCascade(c) \/ CascadeReset(c)
    BY <2>0, <2>2, GotoStep DEF RequestRerun, ReadCascade, CascadeReset, Begin, Blank
  <2>3. CASE Replay(c) \/ ResolveEntry(c)
    BY <2>0, <2>3, GotoStep, ReturnStep DEF Replay, ResolveEntry, Begin
  <2>4. CASE Decline(c) \/ Dismiss(c)
    BY <2>4 DEF Decline, Dismiss, StepIsGiven
  <2> QED
    BY <1>4, <2>1, <2>2, <2>3, <2>4 DEF Request
<1>5. CASE ExpireLock \/ PassThreshold
  BY <1>5 DEF ExpireLock, PassThreshold, StepIsGiven
<1>6. CASE Watchdog
  BY <1>6, GotoStep DEF Watchdog, Begin, Fibers
<1>7. CASE Recover
  <2>1. CASE Crash
    BY <2>1 DEF Crash, StepIsGiven
  <2>2. CASE Deploy \/ ReadRun \/ ResetOrphans \/ Settle
    BY <2>2, GotoStep, ReturnStep DEF Deploy, ReadRun, ResetOrphans, Settle, Fibers
  <2> QED
    BY <1>7, <2>1, <2>2 DEF Recover
<1> QED
  BY <1>1, <1>2, <1>3, <1>4, <1>5, <1>6, <1>7 DEF Next

LEMMA TypeInductive ==
  ASSUME TypeOK, StepIsGiven, Next
  PROVE  TypeOK'
BY EnqueueType, ResumeType, ProcessType, RequestType, OthersType, RecoverType DEF Next

LEMMA TypeInvariant == Spec => [](TypeOK /\ StepIsGiven)
<1>1. Init => TypeOK /\ StepIsGiven
  BY InitType DEF Init, StepIsGiven
<1>2. TypeOK /\ StepIsGiven /\ [Next]_vars => TypeOK' /\ StepIsGiven'
  <2>1. CASE Next
    BY <2>1, TypeInductive, StepInductive
  <2>2. CASE UNCHANGED vars
    BY <2>2 DEF vars, database, redis, history, TypeOK, StepIsGiven
  <2> QED
    BY <2>1, <2>2
<1> QED
  BY <1>1, <1>2, PTL DEF Spec

\* The variables keep their types in every behaviour of the engine, whatever goes wrong.
THEOREM TypeCorrect == Spec => []TypeOK
BY TypeInvariant, PTL

-----------------------------------------------------------------------------
(* No status runs ahead of the artifact. *)

Unmade == {"pending", "running", "failed"}

LEMMA KeepsArtifact ==
  ASSUME ReviewedHasArtifact, UNCHANGED <<status, version>>
  PROVE  ReviewedHasArtifact'
BY DEF ReviewedHasArtifact

LEMMA ResetKeepsArtifact ==
  ASSUME ReviewedHasArtifact, NEW S, NEW v \in Unmade, WriteStatus(S, v), version' = version
  PROVE  ReviewedHasArtifact'
BY DEF ReviewedHasArtifact, WriteStatus, Unmade

LEMMA DecideKeepsArtifact ==
  ASSUME TypeOK, ReviewedHasArtifact, NEW c, NEW s \in Steps, NEW d, Decide(c, s, d)
  PROVE  ReviewedHasArtifact'
BY DEF TypeOK, ReviewedHasArtifact, Decide, Reviewable, WriteStatus

LEMMA ArtifactInductive ==
  ASSUME TypeOK, StepIsGiven, ReviewedHasArtifact, Next
  PROVE  ReviewedHasArtifact'
<1> USE DEF database, redis, Unmade
<1>1. ASSUME NEW f \in Fibers, EnqueuePendingSteps(f) PROVE ReviewedHasArtifact'
  <2>1. CASE MarkRunning(f)
    BY <2>1, ResetKeepsArtifact DEF MarkRunning
  <2>2. CASE RollbackFailures(f)
    BY <2>2, ResetKeepsArtifact DEF RollbackFailures
  <2>3. CASE ~(MarkRunning(f) \/ RollbackFailures(f))
    BY <1>1, <2>3, KeepsArtifact
    DEF EnqueuePendingSteps, AcquireLock, LockBusy, LockFails, ReadEligible, AddJob, AddFails,
        CheckTerminal, CompleteRun, CompareLock, DeleteLock, ReleaseFails
  <2> QED
    BY <2>1, <2>2, <2>3
<1>2. ASSUME NEW f \in Fibers, ReadStale(f) PROVE ReviewedHasArtifact'
  BY <1>2, KeepsArtifact DEF ReadStale
<1>3. ASSUME NEW f \in Fibers, ResetStale(f) PROVE ReviewedHasArtifact'
  BY <1>3, ResetKeepsArtifact DEF ResetStale
<1>4. ASSUME NEW w \in Workers, Process(w) PROVE ReviewedHasArtifact'
  <2>1. CASE PersistResult(w)
    <3> DEFINE s == loc[w].step
    <3>1. s \in Steps
      BY <2>1 DEF PersistResult, Goto, StepIsGiven, Fibers
    <3>2. /\ version' = [version EXCEPT ![s] = version[s] + 1]
          /\ \E v : WriteStatus({s}, v)
      BY <2>1 DEF PersistResult
    <3>3. version'[s] > 0 /\ \A t \in Steps \ {s} : version'[t] = version[t] /\ status'[t] = status[t]
      BY <3>1, <3>2, EngineAssumption DEF TypeOK, WriteStatus
    <3> QED
      BY <3>3 DEF ReviewedHasArtifact
  <2>2. CASE MarkFailed(w)
    BY <2>2, ResetKeepsArtifact DEF MarkFailed
  <2>3. CASE ~(PersistResult(w) \/ MarkFailed(w))
    BY <1>4, <2>3, KeepsArtifact
    DEF Process, TakeJob, ExecutionFails, StoreContext, StoreFails, Catch, AssessRun, FailRun,
        Rethrow
  <2> QED
    BY <2>1, <2>2, <2>3
<1>5. ASSUME NEW c \in Clients, Request(c) PROVE ReviewedHasArtifact'
  <2>1. CASE Approve(c) \/ Decline(c)
    BY <2>1, DecideKeepsArtifact DEF Approve, Decline
  <2>2. CASE CascadeReset(c)
    BY <2>2, ResetKeepsArtifact DEF CascadeReset
  <2>3. CASE ~(Approve(c) \/ Decline(c) \/ CascadeReset(c))
    BY <1>5, <2>3, KeepsArtifact
    DEF Request, StartRun, UndoStart, RequestResume, RequestRerun, ReadCascade, Replay,
        ResolveEntry, Dismiss
  <2> QED
    BY <2>1, <2>2, <2>3
<1>6. CASE ExpireLock \/ PassThreshold \/ Watchdog
  BY <1>6, KeepsArtifact DEF ExpireLock, PassThreshold, Watchdog
<1>7. CASE Recover
  <2>1. CASE ResetOrphans
    BY <2>1, ResetKeepsArtifact DEF ResetOrphans
  <2>2. CASE Crash \/ Deploy \/ ReadRun \/ Settle
    BY <2>2, KeepsArtifact DEF Crash, Deploy, ReadRun, Settle
  <2> QED
    BY <1>7, <2>1, <2>2 DEF Recover
<1> QED
  BY <1>1, <1>2, <1>3, <1>4, <1>5, <1>6, <1>7 DEF Next

\* Whatever goes wrong, nothing is offered for review, approved, declined or passed downstream
\* as completed unless an artifact of it was committed.
THEOREM ArtifactFirst == Spec => []ReviewedHasArtifact
<1>1. Init => ReviewedHasArtifact
  BY DEF Init, ReviewedHasArtifact
<1>2. TypeOK /\ StepIsGiven /\ ReviewedHasArtifact /\ [Next]_vars => ReviewedHasArtifact'
  <2>1. CASE UNCHANGED vars
    BY <2>1 DEF vars, database, ReviewedHasArtifact
  <2> QED
    BY <2>1, ArtifactInductive
<1> QED
  BY <1>1, <1>2, TypeInvariant, PTL DEF Spec

-----------------------------------------------------------------------------
(* The Redis lock excludes, as long as nobody outlives its TTL inside. *)

\* Whoever is between acquisition and release owns the key; the watchdog's unlocked call never
\* reaches the release.
LockInv ==
  \A f \in Fibers :
    /\ InSection(f) => lock = f
    /\ pc[f] = "release" => loc[f].op # "enqueue"

\* What the other fibers see of a step of f that leaves the section, or stays outside of it.
LEMMA OutsideKeepsLock ==
  ASSUME TypeOK, LockInv, NEW f \in Fibers, NEW p, NEW q, NEW l, Goto(f, p, q, l), lock' = lock,
         q \notin {"read", "mark", "add", "rollback", "terminal", "complete", "unlock", "release"}
  PROVE  LockInv'
BY DEF TypeOK, LockInv, InSection, Goto

\* A step inside the section keeps the operation it is part of.
LEMMA InsideKeepsLock ==
  ASSUME TypeOK, LockInv, NEW f \in Fibers, NEW p, NEW q, NEW l, Goto(f, p, q, l), lock' = lock,
         p \in {"read", "mark", "add", "rollback", "terminal", "complete", "unlock"},
         l.op = loc[f].op, q = "release" => l.op # "enqueue"
  PROVE  LockInv'
BY DEF TypeOK, LockInv, InSection, Goto

LEMMA ReturnKeepsLock ==
  ASSUME TypeOK, LockInv, NEW f \in Fibers, NEW p, Return(f, p) \/ GiveUp(f, p) \/ Finish(f, p),
         lock' = lock
  PROVE  LockInv'
BY OutsideKeepsLock DEF Return, GiveUp, Finish

\* The owner leaves and the key is gone, or left to its TTL.
LEMMA LeavingFreesLock ==
  ASSUME TypeOK, LockInv, NEW f \in Fibers, NEW p, Finish(f, p),
         lock = f \/ lock' = lock, InSection(f)
  PROVE  LockInv'
<1>1. \A g \in Fibers \ {f} : ~InSection(g) /\ pc'[g] = pc[g] /\ loc'[g] = loc[g]
  BY DEF TypeOK, LockInv, InSection, Finish, GiveUp, Return, Goto
<1>2. pc'[f] \in {"idle", "undo"}
  BY DEF TypeOK, Finish, GiveUp, Return, Goto
<1> QED
  BY <1>1, <1>2 DEF LockInv, InSection

\* The steps of enqueuePendingSteps that leave the key alone.
LEMMA SectionKeepsLock ==
  ASSUME TypeOK, LockInv, NEW f \in Fibers,
         \/ ReadEligible(f) \/ MarkRunning(f) \/ AddJob(f) \/ AddFails(f) \/ RollbackFailures(f)
         \/ CheckTerminal(f) \/ CompleteRun(f) \/ CompareLock(f)
  PROVE  LockInv'
<1> USE DEF redis
<1>0. loc[f] \in Locals
  BY DEF TypeOK
<1>1. CASE ReadEligible(f)
  BY <1>0, <1>1, InsideKeepsLock DEF ReadEligible, Locals
<1>2. CASE MarkRunning(f)
  BY <1>2, InsideKeepsLock DEF MarkRunning
<1>3. CASE AddJob(f)
  <2>1. PICK s \in loc[f].todo :
          LET l == [loc[f] EXCEPT !.todo = @ \ {s}, !.some = TRUE] IN
          Goto(f, "add", AfterAdd(l), l) /\ lock' = lock
    BY <1>3 DEF AddJob
  <2> QED
    BY <1>0, <2>1, InsideKeepsLock DEF AfterAdd, Locals
<1>4. CASE AddFails(f)
  <2>1. PICK s \in loc[f].todo :
          LET l == [loc[f] EXCEPT !.todo = @ \ {s}, !.failed = @ \cup {s}] IN
          Goto(f, "add", AfterAdd(l), l) /\ lock' = lock
    BY <1>4 DEF AddFails
  <2> QED
    BY <1>0, <2>1, InsideKeepsLock DEF AfterAdd, Locals
<1>5. CASE RollbackFailures(f)
  BY <1>0, <1>5, InsideKeepsLock DEF RollbackFailures, Locals
<1>6. CASE CheckTerminal(f)
  BY <1>6, InsideKeepsLock DEF CheckTerminal
<1>7. CASE CompleteRun(f)
  BY <1>7, InsideKeepsLock DEF CompleteRun
<1>8. CASE CompareLock(f)
  BY <1>8, InsideKeepsLock, ReturnKeepsLock DEF CompareLock
<1> QED
  BY <1>1, <1>2, <1>3, <1>4, <1>5, <1>6, <1>7, <1>8

LEMMA EnqueueKeepsLock ==
  ASSUME TypeOK, LockInv, NEW f \in Fibers, EnqueuePendingSteps(f)
  PROVE  LockInv'
<1>1. CASE AcquireLock(f)
  <2>1. \A g \in Fibers : ~InSection(g)
    BY <1>1, EngineAssumption DEF AcquireLock, LockInv
  <2>2. /\ lock' = f /\ pc'[f] = "read"
        /\ \A g \in Fibers \ {f} : pc'[g] = pc[g] /\ loc'[g] = loc[g]
    BY <1>1 DEF AcquireLock, Goto, TypeOK
  <2> QED
    BY <2>1, <2>2 DEF LockInv, InSection
<1>2. CASE LockBusy(f)
  BY <1>2, ReturnKeepsLock DEF LockBusy, redis
<1>3. CASE LockFails(f)
  BY <1>3, OutsideKeepsLock, ReturnKeepsLock DEF LockFails, redis
<1>4. CASE DeleteLock(f)
  <2>1. pc[f] = "release"
    BY <1>4 DEF DeleteLock, Finish, GiveUp, Return, Goto
  <2> QED
    BY <1>4, <2>1, LeavingFreesLock DEF DeleteLock, LockInv, InSection
<1>5. CASE ReleaseFails(f)
  <2>1. PICK p \in {"unlock", "release"} : Finish(f, p)
    BY <1>5 DEF ReleaseFails
  <2>2. InSection(f)
    BY <1>5, <2>1 DEF ReleaseFails, InSection, Finish, GiveUp, Return, Goto
  <2> QED
    BY <1>5, <2>1, <2>2, LeavingFreesLock DEF ReleaseFails
<1> QED
  BY <1>1, <1>2, <1>3, <1>4, <1>5, SectionKeepsLock DEF EnqueuePendingSteps

\* Everybody else stays outside of the section and away from the key.
LEMMA OthersKeepLock ==
  ASSUME TypeOK, LockInv, "ttl" \notin Faults, Next,
         \A f \in Fibers : ~EnqueuePendingSteps(f)
  PROVE  LockInv'
<1> USE DEF redis
<1>1. ASSUME NEW f \in Fibers, ReadStale(f) \/ ResetStale(f) PROVE LockInv'
  BY <1>1, OutsideKeepsLock, ReturnKeepsLock DEF ReadStale, ResetStale
<1>2. ASSUME NEW w \in Workers, Process(w) PROVE LockInv'
  <2>0. w \in Fibers
    BY DEF Fibers
  <2>1. CASE TakeJob(w)
    BY <2>0, <2>1, OutsideKeepsLock DEF TakeJob
  <2>2. CASE PersistResult(w) \/ ExecutionFails(w) \/ StoreContext(w) \/ StoreFails(w)
    BY <2>0, <2>2, OutsideKeepsLock, ReturnKeepsLock
    DEF PersistResult, ExecutionFails, StoreContext, StoreFails
  <2>3. CASE Catch(w) \/ MarkFailed(w) \/ AssessRun(w) \/ FailRun(w)
    BY <2>0, <2>3, OutsideKeepsLock DEF Catch, MarkFailed, AssessRun, FailRun
  <2>4. CASE Rethrow(w)
    BY <2>0, <2>4, ReturnKeepsLock DEF Rethrow
  <2> QED
    BY <1>2, <2>1, <2>2, <2>3, <2>4 DEF Process
<1>3. ASSUME NEW c \in Clients, Request(c) PROVE LockInv'
  <2>0. c \in Fibers
    BY DEF Fibers
  <2>1. CASE StartRun(c) \/ RequestResume(c) \/ RequestRerun(c)
    BY <2>0, <2>1, OutsideKeepsLock DEF StartRun, RequestResume, RequestRerun, Begin
  <2>2. CASE Approve(c) \/ Replay(c)
    BY <2>0, <2>2, OutsideKeepsLock DEF Approve, Decide, Replay, Begin
  <2>3. CASE UndoStart(c) \/ ResolveEntry(c)
    BY <2>0, <2>3, ReturnKeepsLock DEF UndoStart, ResolveEntry
  <2>4. CASE ReadCascade(c) \/ CascadeReset(c)
    BY <2>0, <2>4, OutsideKeepsLock DEF ReadCascade, CascadeReset
  <2>5. CASE Decline(c) \/ Dismiss(c)
    BY <2>5 DEF Decline, Decide, Dismiss, LockInv, InSection
  <2> QED
    BY <1>3, <2>1, <2>2, <2>3, <2>4, <2>5 DEF Request
<1>4. CASE ExpireLock
  <2>1. \A f \in Fibers : ~InSection(f)
    BY <1>4, EngineAssumption DEF ExpireLock, LockInv
  <2> QED
    BY <1>4, <2>1 DEF ExpireLock, LockInv, InSection
<1>5. CASE PassThreshold
  BY <1>5 DEF PassThreshold, LockInv, InSection
<1>6. CASE Watchdog
  <2>1. CASE Begin(Cron, "read", "enqueue", NoStep)
    BY <1>6, <2>1 DEF Watchdog, Begin, Goto, Blank, Fibers, TypeOK, LockInv, InSection
  <2>2. CASE Begin(Cron, "resume", "resume", NoStep)
    BY <1>6, <2>2, OutsideKeepsLock DEF Watchdog, Begin, Fibers
  <2> QED
    BY <1>6, <2>1, <2>2 DEF Watchdog
<1>7. CASE Recover
  <2>1. CASE Crash
    BY <2>1 DEF Crash, LockInv, InSection
  <2>2. CASE Deploy \/ ReadRun \/ ResetOrphans \/ Settle
    BY <2>2, OutsideKeepsLock, ReturnKeepsLock DEF Deploy, ReadRun, ResetOrphans, Settle, Fibers
  <2> QED
    BY <1>7, <2>1, <2>2 DEF Recover
<1> QED
  BY <1>1, <1>2, <1>3, <1>4, <1>5, <1>6, <1>7 DEF Next

\* Nobody but its owner is inside enqueuePendingSteps while the key is taken, however many
\* workers, requests, crons and restarts there are and whatever Redis calls fail, provided that
\* no owner is still inside when the 5 seconds of its key are over.
THEOREM Exclusion == "ttl" \notin Faults => (Spec => []LockExcludes)
<1> SUFFICES ASSUME "ttl" \notin Faults PROVE Spec => []LockExcludes
  OBVIOUS
<1>1. Init => LockInv
  BY DEF Init, LockInv, InSection
<1>2. TypeOK /\ LockInv /\ [Next]_vars => LockInv'
  <2>1. CASE UNCHANGED vars
    BY <2>1 DEF vars, redis, LockInv, InSection
  <2> QED
    BY <2>1, EnqueueKeepsLock, OthersKeepLock
<1>3. LockInv => LockExcludes
  BY DEF LockInv, LockExcludes
<1> QED
  BY <1>1, <1>2, <1>3, TypeInvariant, PTL DEF Spec

-----------------------------------------------------------------------------
(* Jobs: as long as nothing breaks but executions and servers, a step has  *)
(* one job, runs after what it depends on, and is debited once.            *)

\* Requests come one after the other.
OneRequester == \A c, d \in Clients : c = d

\* Executions throw, reviewers reject or decide at once, servers crash and restart; the limits of
\* time are kept, nothing is lost in Redis or the database.  Where steps are rerun, there is one
\* requester: two reruns at once, or a replay beside one, reset what the other has just launched.
Calm ==
  /\ Faults \subseteq {"throw", "eager", "rejects", "quick"}
  /\ MaxReruns = 0 \/ OneRequester

AtWork == {"running", "failed"}

-----------------------------------------------------------------------------
(* A step's job is waiting in the queue, or one fiber has it.              *)

Adding(f, s) == pc[f] = "add" /\ s \in loc[f].todo
Holds(f, s)  == pc[f] \in InJob /\ loc[f].step = s
Has(f, s)    == Adding(f, s) \/ Holds(f, s)

OneJob == \A s \in Steps :
  /\ \A a \in Attempts : queue[s][a] <= 1
  /\ \A a, b \in Attempts : queue[s][a] > 0 /\ queue[s][b] > 0 => a = b
  /\ \A f, g \in Fibers : Has(f, s) /\ Has(g, s) => f = g
  /\ \A f \in Fibers : Has(f, s) => ~Waiting(s)

\* A replayed job works for a step that is still marked failed.
JobStatus == \A s \in Steps :
  /\ Waiting(s) => status[s] \in AtWork
  /\ \A f \in Fibers : Has(f, s) =>
       IF pc[f] = "context" THEN status[s] \notin Unmade ELSE status[s] \in AtWork

Forgotten == \A s \in overdue :
  status[s] = "running" /\ ~Waiting(s) /\ \A f \in Fibers : ~Has(f, s)

\* A step that has still to deliver has been asked for once more than it has delivered.
Made == \A s \in Steps :
  version[s] <= allowed[s] /\ (status[s] \in Unmade => version[s] < allowed[s])

NothingActive == \A s \in Steps : status[s] \notin Active

-----------------------------------------------------------------------------
(* What the fibers know.                                                   *)

\* The watchdog found everything pending and nobody at work.
Alone(f) ==
  /\ runStatus = "running"
  /\ \A g \in Fibers \ {f} : pc[g] = "idle"
  /\ \A s \in Steps : status[s] = "pending"

\* What a rerun of s takes back.
Reset(s) == {t \in {s} \cup Downstream(Deps, s) : status[t] \notin {"approved", "pending"}}

\* A rerun was requested when nobody was at work, and until its reset nobody can begin.
Reruns(f) ==
  /\ f \in Clients /\ loc[f].op = "rerun" /\ loc[f].step \in Steps
  /\ reruns # 0
  /\ status[loc[f].step] \notin Active \cup {"approved"}
  /\ \A g \in Fibers \ {f} : pc[g] = "idle"
  /\ \A s \in Steps : ~Waiting(s)
  /\ pc[f] = "cascade" => loc[f].todo = Reset(loc[f].step)

Knows(f) ==
  /\ loc[f].failed = {}
  /\ pc[f] \in {"snapshot", "cascade"} => Reruns(f)
  /\ pc[f] \in InJob => loc[f].op = "job" /\ loc[f].step \in Steps
  /\ pc[f] = "lock" => loc[f].op # "enqueue"
  /\ pc[f] = "mark" => loc[f].todo \subseteq Eligible(Deps, status)
  /\ pc[f] \in {"resume", "reset"} => loc[f].op = "resume"
  /\ pc[f] = "reset" => loc[f].todo \subseteq overdue
  /\ pc[f] = "complete" => NothingActive
  /\ pc[f] \in {"read", "mark"} /\ loc[f].op = "enqueue" => Alone(f)

Recovering == pc[Boot] \in {"boot", "orphans", "settle"}

LEMMA RequestsWait ==
  ASSUME NEW c \in Clients, NEW q, NEW o, NEW s, Begin(c, q, o, s)
  PROVE  ~Recovering
BY EngineAssumption DEF Begin, Recovering

Recovery ==
  /\ Recovering => (\A g \in Fibers \ {Boot} : pc[g] = "idle") /\ (\A s \in Steps : ~Waiting(s))
  /\ pc[Boot] = "orphans" => \A s \in loc[Boot].todo : status[s] = "running"

Resumes(f) == loc[f].op \in {"resume", "enqueue"}

Jobs == OneJob /\ JobStatus /\ Forgotten /\ Made /\ DependencyOrder

OneResumes == \A f, g \in Fibers : Resumes(f) /\ Resumes(g) => f = g

Minds == CompletedIsTerminal /\ (\A f \in Fibers : Knows(f)) /\ Recovery /\ OneResumes

CalmInv == Jobs /\ Minds

\* What was proved of every configuration without "ttl".
Base == TypeOK /\ StepIsGiven /\ LockInv

-----------------------------------------------------------------------------
(* Steps that leave the jobs alone.                                        *)

Counted == reruns' = reruns \/ reruns' = reruns + 1
Same == UNCHANGED <<queue, status, overdue, version, allowed>> /\ Counted

LEMMA JobsStand ==
  ASSUME TypeOK, Jobs, Same,
         \A g \in Fibers, s \in Steps :
           Has(g, s)' => Has(g, s) /\ (pc'[g] = "context" <=> pc[g] = "context")
  PROVE  Jobs'
<1> USE DEF Same, Waiting
<1>1. OneJob'  BY DEF Jobs, OneJob
<1>2. JobStatus'  BY DEF Jobs, JobStatus
<1>3. Forgotten'  BY DEF Jobs, Forgotten, TypeOK
<1>4. Made' /\ DependencyOrder'  BY DEF Jobs, Made, DependencyOrder
<1> QED  BY <1>1, <1>2, <1>3, <1>4 DEF Jobs

\* A job is put back, or replayed, for a step that has none.
LEMMA JobsAdd ==
  ASSUME TypeOK, Jobs, NEW s \in Steps, NEW a \in Attempts, AddToQueue(s, a),
         UNCHANGED <<status, overdue, version, allowed>>,
         status[s] \in AtWork, s \notin overdue, ~Waiting(s),
         \A g \in Fibers, t \in Steps :
           Has(g, t)' => Has(g, t) /\ t # s /\ (pc'[g] = "context" <=> pc[g] = "context")
  PROVE  Jobs'
<1>1. /\ \A t \in Steps \ {s} : queue'[t] = queue[t]
      /\ queue'[s] = [queue[s] EXCEPT ![a] = @ + 1]
  BY DEF AddToQueue, TypeOK
<1>2. \A b \in Attempts : queue[s][b] = 0
  BY DEF Waiting, TypeOK
<1>3. \A b \in Attempts : queue'[s][b] = IF b = a THEN 1 ELSE 0
  BY <1>1, <1>2 DEF TypeOK
<1>4. \A t \in Steps : Waiting(t)' <=> (t = s \/ Waiting(t))
  BY <1>1, <1>3 DEF Waiting
<1>5. OneJob'
  <2>1. \A t \in Steps, b, c \in Attempts :
          queue'[t][b] <= 1 /\ (queue'[t][b] > 0 /\ queue'[t][c] > 0 => b = c)
    <3>1. \A b, c \in Attempts : queue'[s][b] <= 1 /\ (queue'[s][b] > 0 /\ queue'[s][c] > 0 => b = c)
      BY <1>3
    <3>2. \A t \in Steps \ {s}, b, c \in Attempts :
            queue[t][b] <= 1 /\ (queue[t][b] > 0 /\ queue[t][c] > 0 => b = c)
      BY DEF Jobs, OneJob
    <3> QED  BY <1>1, <3>1, <3>2
  <2>2. \A t \in Steps, g \in Fibers : Has(g, t)' => ~Waiting(t)'
    BY <1>4 DEF Jobs, OneJob
  <2>3. \A t \in Steps, g, h \in Fibers : Has(g, t)' /\ Has(h, t)' => g = h
    BY DEF Jobs, OneJob
  <2> QED  BY <2>1, <2>2, <2>3 DEF OneJob
<1>6. JobStatus'
  BY <1>4 DEF Jobs, JobStatus
<1>7. Forgotten'
  <2>1. overdue \subseteq Steps  BY DEF TypeOK
  <2> QED  BY <1>4, <2>1 DEF Jobs, Forgotten
<1>8. Made' /\ DependencyOrder'  BY DEF Jobs, Made, DependencyOrder
<1> QED  BY <1>5, <1>6, <1>7, <1>8 DEF Jobs

\* Nobody is between the watchdog's look at the steps and its mark, or between the check of a
\* rerun and its reset.
NobodyAlone == \A g \in Fibers :
  ~(pc[g] \in {"read", "mark"} /\ loc[g].op = "enqueue") /\ pc[g] \notin {"snapshot", "cascade"}

LEMMA BusyNotAlone ==
  ASSUME Minds, NEW f \in Fibers, NEW g \in Fibers \ {f}, pc[f] # "idle"
  PROVE  ~(pc[g] \in {"read", "mark"} /\ loc[g].op = "enqueue") /\ pc[g] \notin {"snapshot", "cascade"}
BY DEF Minds, Knows, Alone, Reruns

\* What another fiber knows stays true.
LEMMA OthersKnow ==
  ASSUME Minds, NEW f \in Fibers, NEW g \in Fibers \ {f}, pc'[g] = pc[g], loc'[g] = loc[g],
         pc[f] # "idle" \/ NobodyAlone,
         pc[g] = "mark" /\ loc[g].todo \subseteq Eligible(Deps, status)
           => loc[g].todo \subseteq Eligible(Deps, status'),
         pc[g] = "reset" /\ loc[g].todo \subseteq overdue => loc[g].todo \subseteq overdue',
         NothingActive => NothingActive'
  PROVE  Knows(g)'
<1>1. ~(pc[g] \in {"read", "mark"} /\ loc[g].op = "enqueue") /\ pc[g] \notin {"snapshot", "cascade"}
  BY BusyNotAlone DEF NobodyAlone
<1> QED  BY <1>1 DEF Minds, Knows

\* The status and the threshold of a step that somebody is about to write stay as they were read.
OthersHeld(f) == \A g \in Fibers \ {f} :
  /\ pc[g] = "mark" /\ loc[g].todo \subseteq Eligible(Deps, status)
       => loc[g].todo \subseteq Eligible(Deps, status')
  /\ pc[g] = "reset" /\ loc[g].todo \subseteq overdue => loc[g].todo \subseteq overdue'

LEMMA MindsMove ==
  ASSUME TypeOK, Minds, NEW f \in Fibers, NEW p, NEW q, NEW l, Goto(f, p, q, l),
         p # "idle" \/ (NobodyAlone /\ ~Recovering), q \notin {"boot", "orphans", "settle"},
         OthersHeld(f), NothingActive => NothingActive', Counted,
         runStatus' = "completed" => runStatus = "completed" \/ NothingActive,
         Knows(f)', Resumes(f)' => Resumes(f) \/ \A g \in Fibers : ~Resumes(g)
  PROVE  Minds'
<1>1. /\ pc[f] = p /\ pc'[f] = q
      /\ \A g \in Fibers \ {f} : pc'[g] = pc[g] /\ loc'[g] = loc[g]
  BY DEF Goto, TypeOK
<1>2. CompletedIsTerminal'
  BY DEF Minds, CompletedIsTerminal, NothingActive, Counted, TypeOK
<1>3. \A g \in Fibers : Knows(g)'
  BY <1>1, OthersKnow DEF OthersHeld
<1>4. Recovery'
  <2>1. Boot \in Fibers  BY DEF Fibers
  <2>2. ~Recovering'
    BY <1>1, <2>1 DEF Minds, Recovery, Recovering
  <2> QED  BY <2>2 DEF Recovery, Recovering
<1>5. OneResumes'
  BY <1>1 DEF Minds, OneResumes, Resumes
<1> QED  BY <1>2, <1>3, <1>4, <1>5 DEF Minds

\* A fiber goes on without touching the jobs or the statuses.
LEMMA Walk ==
  ASSUME TypeOK, CalmInv, NEW f \in Fibers, NEW p, NEW q, NEW l, Goto(f, p, q, l),
         p # "idle" \/ (NobodyAlone /\ ~Recovering), q \notin {"boot", "orphans", "settle"},
         Same, runStatus' = "completed" => runStatus = "completed" \/ NothingActive,
         \A s \in Steps : Has(f, s)' => Has(f, s) /\ (pc'[f] = "context" <=> pc[f] = "context"),
         Knows(f)', Resumes(f)' => Resumes(f) \/ \A g \in Fibers : ~Resumes(g)
  PROVE  CalmInv'
<1>1. \A g \in Fibers \ {f} : pc'[g] = pc[g] /\ loc'[g] = loc[g]
  BY DEF Goto, TypeOK
<1>2. \A g \in Fibers, s \in Steps :
        Has(g, s)' => Has(g, s) /\ (pc'[g] = "context" <=> pc[g] = "context")
  BY <1>1 DEF Has, Adding, Holds
<1>3. Jobs'  BY <1>2, JobsStand DEF CalmInv
<1>4. OthersHeld(f) /\ (NothingActive => NothingActive') /\ Counted
  BY DEF Same, OthersHeld, NothingActive
<1>5. Minds'
  <2> HIDE DEF Goto
  <2> QED  BY <1>4, MindsMove DEF CalmInv
<1> QED  BY <1>3, <1>5 DEF CalmInv

\* A request that only begins, or an operation that is over.
LEMMA WalkBegin ==
  ASSUME Calm, TypeOK, CalmInv, NEW f \in Fibers, NEW q, NEW o, NEW st, Begin(f, q, o, st),
         q \in {"lock", "resume", "resolve"}, q = "lock" => o # "enqueue",
         q = "resume" => o = "resume", NobodyAlone,
         o \in {"resume", "enqueue"} => \A g \in Fibers : ~Resumes(g),
         Same, runStatus' = "completed" => runStatus = "completed" \/ NothingActive
  PROVE  CalmInv'
<1>1. /\ pc[Boot] = "idle" /\ pc'[f] = q /\ loc'[f] = [Blank EXCEPT !.op = o, !.step = st]
      /\ Goto(f, "idle", q, [Blank EXCEPT !.op = o, !.step = st])
  BY DEF Begin, Goto, TypeOK, Calm
<1>2. Knows(f)'  BY <1>1 DEF Knows, InJob, Blank
<1>3. \A s \in Steps : ~Has(f, s)'  BY <1>1 DEF Has, Adding, Holds, InJob
<1>4. Resumes(f)' => \A g \in Fibers : ~Resumes(g)  BY <1>1 DEF Resumes, Blank
<1>5. ~Recovering  BY <1>1 DEF Recovering
<1> QED  BY <1>1, <1>2, <1>3, <1>4, <1>5, Walk

LEMMA WalkReturn ==
  ASSUME TypeOK, CalmInv, NEW f \in Fibers, NEW p, p # "idle",
         Return(f, p) \/ GiveUp(f, p) \/ Finish(f, p),
         Same, runStatus' = "completed" => runStatus = "completed" \/ NothingActive
  PROVE  CalmInv'
<1>1. PICK q, l : Goto(f, p, q, l) /\ ((q = "idle" /\ l = Blank) \/ (q = "undo" /\ l = loc[f]))
  BY DEF Return, GiveUp, Finish
<1>2. pc'[f] = q /\ loc'[f] = l /\ pc[f] = p  BY <1>1 DEF Goto, TypeOK
<1>3. Knows(f)'  BY <1>1, <1>2 DEF Knows, InJob, Blank, CalmInv, Minds
<1>4. \A s \in Steps : ~Has(f, s)'  BY <1>1, <1>2 DEF Has, Adding, Holds, InJob
<1>5. Resumes(f)' => Resumes(f)  BY <1>1, <1>2 DEF Resumes, Blank
<1> QED  BY <1>1, <1>3, <1>4, <1>5, Walk

-----------------------------------------------------------------------------
(* enqueuePendingSteps.                                                    *)

\* The fiber that marks is the only one between read and mark.
LEMMA OneMarks ==
  ASSUME Base, CalmInv, NEW f \in Fibers, pc[f] = "mark", NEW g \in Fibers \ {f}
  PROVE  pc[g] # "mark"
<1> SUFFICES ASSUME pc[g] = "mark"  PROVE FALSE
  OBVIOUS
<1>1. ~(loc[f].op = "enqueue") /\ ~(loc[g].op = "enqueue")
  BY DEF CalmInv, Minds, Knows, Alone
<1> QED  BY <1>1 DEF Base, LockInv, InSection

LEMMA MarkCalm ==
  ASSUME Base, CalmInv, NEW f \in Fibers, MarkRunning(f)
  PROVE  CalmInv'
<1> DEFINE todo == loc[f].todo
<1>0. TypeOK /\ todo \subseteq Steps  BY DEF Base, TypeOK, Locals
<1>1. /\ pc[f] = "mark" /\ pc'[f] = "add" /\ loc'[f] = loc[f]
      /\ \A g \in Fibers \ {f} : pc'[g] = pc[g] /\ loc'[g] = loc[g]
      /\ Goto(f, "mark", "add", loc[f])
      /\ UNCHANGED <<runStatus, queue, version, allowed>> /\ overdue' = overdue \ todo
      /\ status' = [s \in Steps |-> IF s \in todo THEN "running" ELSE status[s]] /\ Counted
  BY <1>0 DEF MarkRunning, Goto, TypeOK, WriteStatus, redis, history, Counted
<1>2. todo \subseteq Eligible(Deps, status)  BY <1>1 DEF CalmInv, Minds, Knows
<1>3. \A s \in todo : status[s] = "pending" /\ \A d \in Deps[s] : status[d] \in Satisfied
  BY <1>2 DEF Eligible
<1>4. \A s \in todo : ~Waiting(s) /\ \A g \in Fibers : ~Has(g, s)
  <2> SUFFICES ASSUME NEW s \in todo  PROVE ~Waiting(s) /\ \A g \in Fibers : ~Has(g, s)
    OBVIOUS
  <2>1. \A g \in Fibers : Has(g, s) => pc[g] = "context" \/ status[s] \in AtWork
    BY <1>0 DEF CalmInv, Jobs, JobStatus
  <2>2. \A g \in Fibers : Has(g, s) /\ pc[g] = "context" => status[s] \notin Unmade
    BY <1>0 DEF CalmInv, Jobs, JobStatus
  <2> QED  BY <1>0, <1>3, <2>1, <2>2 DEF CalmInv, Jobs, JobStatus, AtWork, Unmade
<1>5. \A g \in Fibers, s \in Steps : Has(g, s)' <=> (IF g = f THEN s \in todo ELSE Has(g, s))
  BY <1>1 DEF Has, Adding, Holds, InJob
<1>6. \A s \in Steps : Waiting(s)' <=> Waiting(s)  BY <1>1 DEF Waiting
<1>7. OneJob'
  BY <1>1, <1>4, <1>5, <1>6 DEF CalmInv, Jobs, OneJob
<1>8. JobStatus'
  BY <1>1, <1>4, <1>5, <1>6 DEF CalmInv, Jobs, JobStatus, AtWork
<1>9. Forgotten'
  <2>1. overdue \subseteq Steps  BY <1>0 DEF TypeOK
  <2> QED  BY <1>1, <1>4, <1>5, <1>6, <2>1 DEF CalmInv, Jobs, Forgotten
<1>10. Made'
  BY <1>1, <1>3 DEF CalmInv, Jobs, Made, Unmade
<1>11. DependencyOrder'
  <2>1. \A s \in Steps : Deps[s] \subseteq Steps  BY EngineAssumption
  <2>2. \A d \in Steps : status[d] \in Satisfied => status'[d] \in Satisfied
    BY <1>1, <1>3 DEF Satisfied
  <2> QED  BY <1>1, <1>3, <2>1, <2>2 DEF CalmInv, Jobs, DependencyOrder
<1>12. OthersHeld(f)
  <2>1. \A g \in Fibers \ {f} : pc[g] # "mark"  BY <1>1, OneMarks
  <2>2. \A s \in overdue : s \notin todo  BY <1>3 DEF CalmInv, Jobs, Forgotten
  <2> QED  BY <1>1, <2>1, <2>2 DEF OthersHeld
<1>13. NothingActive => NothingActive'
  BY <1>1, <1>3 DEF NothingActive, Active
<1>14. Knows(f)'
  BY <1>1 DEF Knows, InJob, CalmInv, Minds
<1>15. Resumes(f)' => Resumes(f)  BY <1>1 DEF Resumes
<1>16. Minds'
  <2> HIDE DEF Goto
  <2> QED  BY <1>0, <1>1, <1>12, <1>13, <1>14, <1>15, MindsMove DEF CalmInv
<1> QED  BY <1>7, <1>8, <1>9, <1>10, <1>11, <1>16 DEF CalmInv, Jobs

LEMMA AddCalm ==
  ASSUME Base, CalmInv, NEW f \in Fibers, AddJob(f)
  PROVE  CalmInv'
<1>1. PICK s \in loc[f].todo :
        LET l == [loc[f] EXCEPT !.todo = @ \ {s}, !.some = TRUE] IN
        Goto(f, "add", AfterAdd(l), l) /\ AddToQueue(s, 0)
  BY DEF AddJob
<1> DEFINE l == [loc[f] EXCEPT !.todo = @ \ {s}, !.some = TRUE]
<1>0. TypeOK /\ s \in Steps /\ 0 \in Attempts /\ loc[f].failed = {}
  <2>1. 0 \in Attempts  BY EngineAssumption DEF Attempts
  <2>2. TypeOK /\ s \in Steps  BY DEF Base, TypeOK, Locals
  <2>3. loc[f].failed = {}  BY DEF CalmInv, Minds, Knows
  <2> QED  BY <2>1, <2>2, <2>3
<1>2. l.todo = loc[f].todo \ {s} /\ l.failed = {} /\ l.op = loc[f].op /\ l.step = loc[f].step
  BY <1>0 DEF TypeOK, Locals
<1> HIDE DEF l
<1>3. PICK q \in {"add", "unlock"} : Goto(f, "add", q, l) /\ q = AfterAdd(l)
  BY <1>1, <1>2 DEF AfterAdd, l
<1>4. /\ pc[f] = "add" /\ pc'[f] = q /\ loc'[f] = l
      /\ \A g \in Fibers \ {f} : pc'[g] = pc[g] /\ loc'[g] = loc[g]
  BY <1>0, <1>3 DEF Goto, TypeOK
<1>5. UNCHANGED <<runStatus, status, overdue, version, allowed>> /\ Counted
  BY DEF AddJob, database, history, Counted
<1>6. Has(f, s) /\ ~Waiting(s) /\ \A g \in Fibers \ {f} : ~Has(g, s)
  BY <1>0, <1>1, <1>4 DEF Has, Adding, CalmInv, Jobs, OneJob
<1>7. \A g \in Fibers, t \in Steps :
        Has(g, t)' => Has(g, t) /\ t # s /\ (pc'[g] = "context" <=> pc[g] = "context")
  BY <1>2, <1>4, <1>6 DEF Has, Adding, Holds, InJob
<1>8. status[s] \in AtWork /\ s \notin overdue
  BY <1>0, <1>4, <1>6 DEF CalmInv, Jobs, JobStatus, Forgotten
<1>9. Jobs'
  BY <1>0, <1>1, <1>5, <1>6, <1>7, <1>8, JobsAdd DEF CalmInv
<1>10. OthersHeld(f) /\ (NothingActive => NothingActive')  BY <1>5 DEF OthersHeld, NothingActive
<1>11. Knows(f)'  BY <1>2, <1>4 DEF Knows, InJob, CalmInv, Minds
<1>12. Resumes(f)' => Resumes(f)  BY <1>2, <1>4 DEF Resumes
<1>13. Minds'
  <2> HIDE DEF Goto
  <2> QED  BY <1>0, <1>3, <1>5, <1>10, <1>11, <1>12, MindsMove DEF CalmInv
<1> QED  BY <1>9, <1>13 DEF CalmInv

LEMMA EnqueueCalm ==
  ASSUME Calm, Base, CalmInv, NEW f \in Fibers, EnqueuePendingSteps(f)
  PROVE  CalmInv'
<1> USE DEF redis, history, database, Same, Counted
<1>0. TypeOK /\ Knows(f) /\ "redis" \notin Faults  BY DEF Base, CalmInv, Minds, Calm
<1>1. CASE AcquireLock(f)
  <2>1. pc[f] = "lock" /\ pc'[f] = "read" /\ loc'[f] = loc[f] /\ Goto(f, "lock", "read", loc[f])
    BY <1>0, <1>1 DEF AcquireLock, Goto, TypeOK
  <2>2. Knows(f)'  BY <1>0, <2>1 DEF Knows, InJob
  <2>3. \A s \in Steps : ~Has(f, s)'  BY <2>1 DEF Has, Adding, Holds, InJob
  <2>4. Resumes(f)' => Resumes(f)  BY <2>1 DEF Resumes
  <2>5. Same /\ runStatus' = runStatus  BY <1>1 DEF AcquireLock
  <2> HIDE DEF Goto, Same, Counted
  <2> QED  BY <1>0, <2>1, <2>2, <2>3, <2>4, <2>5, Walk
<1>2. CASE LockBusy(f)  BY <1>0, <1>2, WalkReturn DEF LockBusy
<1>3. CASE LockFails(f)  BY <1>0, <1>3 DEF LockFails
<1>4. CASE ReadEligible(f)
  <2> DEFINE e == Eligible(Deps, status)
  <2>1. PICK q \in {"terminal", "mark"} : Goto(f, "read", q, [loc[f] EXCEPT !.todo = e])
    BY <1>4 DEF ReadEligible
  <2>2. /\ pc[f] = "read" /\ pc'[f] = q /\ loc'[f].todo = e /\ loc'[f].op = loc[f].op
        /\ loc'[f].failed = loc[f].failed
        /\ \A g \in Fibers \ {f} : pc'[g] = pc[g]
    BY <1>0, <2>1 DEF Goto, TypeOK, Locals
  <2>3. UNCHANGED <<runStatus, status>> /\ Same  BY <1>4 DEF ReadEligible
  <2>4. Knows(f)'  BY <1>0, <2>2, <2>3 DEF Knows, Alone, InJob
  <2>5. \A s \in Steps : ~Has(f, s)'  BY <2>2 DEF Has, Adding, Holds, InJob
  <2>6. Resumes(f)' => Resumes(f)  BY <2>2 DEF Resumes
  <2> HIDE DEF Goto, Same, Counted
  <2> QED  BY <1>0, <2>1, <2>3, <2>4, <2>5, <2>6, Walk
<1>5. CASE MarkRunning(f)  BY <1>5, MarkCalm
<1>6. CASE AddJob(f)  BY <1>6, AddCalm
<1>7. CASE AddFails(f)  BY <1>0, <1>7 DEF AddFails
<1>8. CASE RollbackFailures(f)
  <2> DEFINE l == [loc[f] EXCEPT !.failed = {}]
  <2>1. PICK q \in {"unlock", "terminal"} : Goto(f, "rollback", q, l)
    BY <1>8 DEF RollbackFailures
  <2>2. pc[f] = "rollback" /\ pc'[f] = q /\ loc'[f].op = loc[f].op /\ loc'[f].failed = {}
    BY <1>0, <2>1 DEF Goto, TypeOK, Locals
  <2>3. loc[f].failed = {}  BY <1>0 DEF Knows
  <2>4. status' = status /\ overdue' = overdue
    BY <1>0, <1>8, <2>3 DEF RollbackFailures, WriteStatus, TypeOK
  <2>5. Same /\ runStatus' = runStatus  BY <1>8, <2>4 DEF RollbackFailures
  <2>6. Knows(f)'  BY <2>2 DEF Knows, InJob
  <2>7. \A s \in Steps : ~Has(f, s)'  BY <2>2 DEF Has, Adding, Holds, InJob
  <2>8. Resumes(f)' => Resumes(f)  BY <2>2 DEF Resumes
  <2> HIDE DEF Goto, Same, Counted, l
  <2> QED  BY <1>0, <2>1, <2>5, <2>6, <2>7, <2>8, Walk
<1>9. CASE CheckTerminal(f)
  <2>1. PICK q \in {"unlock", "complete"} :
          Goto(f, "terminal", q, loc[f]) /\ (q = "complete" => NothingActive)
    BY <1>9 DEF CheckTerminal, NothingActive
  <2>2. pc[f] = "terminal" /\ pc'[f] = q /\ loc'[f] = loc[f]  BY <1>0, <2>1 DEF Goto, TypeOK
  <2>3. Same /\ runStatus' = runStatus  BY <1>9 DEF CheckTerminal
  <2>4. Knows(f)'  BY <1>0, <2>1, <2>2, <2>3 DEF Knows, InJob, NothingActive
  <2>5. \A s \in Steps : ~Has(f, s)'  BY <2>2 DEF Has, Adding, Holds, InJob
  <2>6. Resumes(f)' => Resumes(f)  BY <2>2 DEF Resumes
  <2> HIDE DEF Goto, Same, Counted
  <2> QED  BY <1>0, <2>1, <2>3, <2>4, <2>5, <2>6, Walk
<1>10. CASE CompleteRun(f)
  <2>1. Goto(f, "complete", "unlock", loc[f]) /\ Same  BY <1>10 DEF CompleteRun
  <2>2. pc[f] = "complete" /\ pc'[f] = "unlock" /\ loc'[f] = loc[f]
    BY <1>0, <2>1 DEF Goto, TypeOK
  <2>3. NothingActive /\ Knows(f)'  BY <1>0, <2>2 DEF Knows, InJob
  <2>4. \A s \in Steps : ~Has(f, s)'  BY <2>2 DEF Has, Adding, Holds, InJob
  <2>5. Resumes(f)' => Resumes(f)  BY <2>2 DEF Resumes
  <2> HIDE DEF Goto, Same, Counted
  <2> QED  BY <1>0, <2>1, <2>3, <2>4, <2>5, Walk
<1>11. CASE CompareLock(f)
  <2>1. CASE Finish(f, "unlock")  BY <1>0, <1>11, <2>1, WalkReturn DEF CompareLock
  <2>2. CASE Goto(f, "unlock", "release", loc[f])
    <3>1. pc[f] = "unlock" /\ pc'[f] = "release" /\ loc'[f] = loc[f]
      BY <1>0, <2>2 DEF Goto, TypeOK
    <3>2. Knows(f)'  BY <1>0, <3>1 DEF Knows, InJob
    <3>3. \A s \in Steps : ~Has(f, s)'  BY <3>1 DEF Has, Adding, Holds, InJob
    <3>4. Resumes(f)' => Resumes(f)  BY <3>1 DEF Resumes
    <3>5. Same /\ runStatus' = runStatus  BY <1>11 DEF CompareLock
    <3> HIDE DEF Goto, Same, Counted
    <3> QED  BY <1>0, <2>2, <3>2, <3>3, <3>4, <3>5, Walk
  <2> QED  BY <1>11, <2>1, <2>2 DEF CompareLock
<1>12. CASE DeleteLock(f)  BY <1>0, <1>12, WalkReturn DEF DeleteLock
<1>13. CASE ReleaseFails(f)  BY <1>0, <1>13 DEF ReleaseFails
<1> QED  BY <1>1, <1>2, <1>3, <1>4, <1>5, <1>6, <1>7, <1>8, <1>9, <1>10, <1>11, <1>12, <1>13
         DEF EnqueuePendingSteps

-----------------------------------------------------------------------------
(* resumeRun.                                                              *)

LEMMA ReadStaleCalm ==
  ASSUME Base, CalmInv, NEW f \in Fibers, ReadStale(f)
  PROVE  CalmInv'
<1>0. TypeOK /\ Knows(f) /\ Same /\ runStatus' = runStatus
  BY DEF Base, CalmInv, Minds, ReadStale, Same, Counted, database, redis, history
<1>1. CASE Return(f, "resume")
  <2> HIDE DEF Same, Return
  <2> QED  BY <1>0, <1>1, WalkReturn
<1>2. CASE ~Return(f, "resume")
  <2> DEFINE l == [loc[f] EXCEPT !.todo = overdue]
  <2>1. PICK q \in {"lock", "reset"} : Goto(f, "resume", q, l)
    BY <1>2 DEF ReadStale
  <2>2. /\ pc[f] = "resume" /\ pc'[f] = q /\ loc'[f].op = loc[f].op /\ loc'[f].todo = overdue
        /\ loc'[f].failed = loc[f].failed
    BY <1>0, <2>1 DEF Goto, TypeOK, Locals
  <2>3. Knows(f)'  BY <1>0, <2>2 DEF Knows, InJob, Same
  <2>4. \A s \in Steps : ~Has(f, s)'  BY <2>2 DEF Has, Adding, Holds, InJob
  <2>5. Resumes(f)' => Resumes(f)  BY <2>2 DEF Resumes
  <2> HIDE DEF Goto, Same, Counted, l
  <2> QED  BY <1>0, <2>1, <2>3, <2>4, <2>5, Walk
<1> QED  BY <1>1, <1>2

\* The steps that are reset had been given up by everybody.
LEMMA ResetStaleCalm ==
  ASSUME Base, CalmInv, NEW f \in Fibers, ResetStale(f)
  PROVE  CalmInv'
<1> DEFINE todo == loc[f].todo
           l == [loc[f] EXCEPT !.todo = {}]
<1>0. TypeOK /\ Knows(f)  BY DEF Base, CalmInv, Minds
<1>1. /\ pc[f] = "reset" /\ pc'[f] = "lock" /\ loc'[f].op = loc[f].op
      /\ loc'[f].failed = loc[f].failed
      /\ \A g \in Fibers \ {f} : pc'[g] = pc[g] /\ loc'[g] = loc[g]
      /\ Goto(f, "reset", "lock", l)
      /\ UNCHANGED <<runStatus, queue, version, allowed>> /\ overdue' = overdue \ todo
      /\ status' = [s \in Steps |-> IF s \in todo THEN "pending" ELSE status[s]] /\ Counted
  BY <1>0 DEF ResetStale, Goto, TypeOK, Locals, WriteStatus, redis, history, Counted
<1> HIDE DEF l
<1>2. /\ todo \subseteq overdue /\ overdue \subseteq Steps
      /\ \A s \in todo : status[s] = "running" /\ ~Waiting(s) /\ \A g \in Fibers : ~Has(g, s)
  BY <1>0, <1>1 DEF Knows, TypeOK, CalmInv, Jobs, Forgotten
<1>3. \A g \in Fibers, s \in Steps : Has(g, s)' => g # f /\ Has(g, s) /\ pc'[g] = pc[g] /\ s \notin todo
  BY <1>1, <1>2 DEF Has, Adding, Holds, InJob
<1>4. \A s \in Steps : Waiting(s)' <=> Waiting(s)  BY <1>1 DEF Waiting
<1>5. OneJob'  BY <1>1, <1>3, <1>4 DEF CalmInv, Jobs, OneJob
<1>6. JobStatus'  BY <1>1, <1>2, <1>3, <1>4 DEF CalmInv, Jobs, JobStatus
<1>7. Forgotten'  BY <1>1, <1>2, <1>3, <1>4 DEF CalmInv, Jobs, Forgotten
<1>8. Made'  BY <1>1, <1>2 DEF CalmInv, Jobs, Made, Unmade
<1>9. DependencyOrder'
  <2>1. \A s \in Steps : Deps[s] \subseteq Steps  BY EngineAssumption
  <2>2. \A d \in Steps : status[d] \in Satisfied => status'[d] \in Satisfied
    BY <1>1, <1>2 DEF Satisfied
  <2>3. \A s \in Steps : status'[s] = "running" => status[s] = "running"  BY <1>1
  <2> QED  BY <2>1, <2>2, <2>3 DEF CalmInv, Jobs, DependencyOrder
<1>10. OthersHeld(f)
  <2>1. \A g \in Fibers \ {f} : pc[g] # "reset"
    BY <1>0, <1>1 DEF CalmInv, Minds, Knows, OneResumes, Resumes
  <2>2. \A s \in Steps : (status[s] = "pending" => status'[s] = "pending")
                        /\ (status[s] \in Satisfied => status'[s] \in Satisfied)
    BY <1>1, <1>2 DEF Satisfied
  <2>3. Eligible(Deps, status) \subseteq Eligible(Deps, status')
    BY <2>2, EngineAssumption DEF Eligible
  <2> QED  BY <2>1, <2>3 DEF OthersHeld
<1>11. NothingActive => NothingActive'  BY <1>1, <1>2 DEF NothingActive, Active
<1>12. Knows(f)'  BY <1>0, <1>1 DEF Knows, InJob
<1>13. Resumes(f)' => Resumes(f)  BY <1>1 DEF Resumes
<1>14. Minds'
  <2> HIDE DEF Goto
  <2> QED  BY <1>0, <1>1, <1>10, <1>11, <1>12, <1>13, MindsMove DEF CalmInv
<1> QED  BY <1>5, <1>6, <1>7, <1>8, <1>9, <1>14 DEF CalmInv, Jobs

-----------------------------------------------------------------------------
(* The jobs.                                                               *)

\* What follows when a fiber that has the job of a step writes its status: nobody else has an
\* interest in the step, and none that depends on it is running yet.
LEMMA OwnStep ==
  ASSUME TypeOK, CalmInv, NEW f \in Fibers, NEW s \in Steps, Holds(f, s), pc[f] # "context"
  PROVE  /\ status[s] \in AtWork /\ version[s] < allowed[s] /\ s \notin overdue /\ ~Waiting(s)
         /\ \A g \in Fibers \ {f} : ~Has(g, s)
<1>1. Has(f, s)  BY DEF Has
<1>2. status[s] \in AtWork  BY <1>1 DEF CalmInv, Jobs, JobStatus
<1>3. version[s] < allowed[s]  BY <1>2 DEF CalmInv, Jobs, Made, AtWork, Unmade
<1> QED  BY <1>1, <1>2, <1>3 DEF CalmInv, Jobs, OneJob, Forgotten

\* It finishes the step or fails it.
LEMMA OwnWrite ==
  ASSUME TypeOK, CalmInv, NEW f \in Fibers, NEW s \in Steps, Holds(f, s), pc[f] # "context",
         NEW q \in {"context", "assess"}, NEW l, l.step = s, l.op = loc[f].op,
         l.failed = loc[f].failed, Goto(f, pc[f], q, l),
         NEW v, WriteStatus({s}, v), overdue' = overdue \ {s},
         UNCHANGED <<runStatus, queue, allowed, reruns>>,
         \/ q = "context" /\ v \in {"completed", "awaiting_approval"} /\ version' = [version EXCEPT ![s] = @ + 1]
         \/ q = "assess" /\ v = "failed" /\ version' = version
  PROVE  CalmInv'
<1>0. /\ status[s] \in AtWork /\ version[s] < allowed[s] /\ s \notin overdue /\ ~Waiting(s)
      /\ \A g \in Fibers \ {f} : ~Has(g, s)
  BY OwnStep
<1>1. /\ pc'[f] = q /\ loc'[f] = l
      /\ \A g \in Fibers \ {f} : pc'[g] = pc[g] /\ loc'[g] = loc[g]
      /\ overdue' = overdue /\ overdue \subseteq Steps
      /\ status' = [t \in Steps |-> IF t = s THEN v ELSE status[t]]
  BY <1>0 DEF Goto, TypeOK, WriteStatus
<1>2. \A g \in Fibers, t \in Steps :
        Has(g, t)' => Has(g, t) /\ (g = f => t = s) /\ (g # f => t # s /\ pc'[g] = pc[g])
  BY <1>0, <1>1 DEF Has, Adding, Holds, InJob
<1>3. \A t \in Steps : Waiting(t)' <=> Waiting(t)  BY DEF Waiting
<1>4. OneJob'  BY <1>2, <1>3 DEF CalmInv, Jobs, OneJob
<1>5. JobStatus'
  <2>1. \A t \in Steps : Waiting(t)' => status'[t] \in AtWork
    BY <1>0, <1>1, <1>3 DEF CalmInv, Jobs, JobStatus
  <2>2. ASSUME NEW t \in Steps, NEW g \in Fibers, Has(g, t)'
        PROVE  IF pc'[g] = "context" THEN status'[t] \notin Unmade ELSE status'[t] \in AtWork
    <3>1. CASE g = f  BY <1>1, <1>2, <2>2, <3>1 DEF Unmade, AtWork
    <3>2. CASE g # f  BY <1>1, <1>2, <2>2, <3>2 DEF CalmInv, Jobs, JobStatus
    <3> QED  BY <3>1, <3>2
  <2> QED  BY <2>1, <2>2 DEF JobStatus
<1>6. Forgotten'  BY <1>0, <1>1, <1>2, <1>3 DEF CalmInv, Jobs, Forgotten
<1>7. Made'
  <2>1. \A t \in Steps \ {s} : version'[t] = version[t] /\ status'[t] = status[t]
    BY <1>1 DEF TypeOK
  <2>2. version'[s] <= allowed[s] /\ (status'[s] \in Unmade => version'[s] < allowed[s])
    BY <1>0, <1>1 DEF TypeOK, Unmade
  <2> QED  BY <2>1, <2>2 DEF CalmInv, Jobs, Made
<1>8. \A t \in Steps : /\ status[t] = "pending" => status'[t] = "pending"
                       /\ status[t] \in Satisfied => status'[t] \in Satisfied
                       /\ status'[t] \in Active => status[t] \in Active /\ status'[t] = status[t]
  BY <1>0, <1>1 DEF AtWork, Satisfied, Active
<1>9. DependencyOrder'
  BY <1>8, EngineAssumption DEF CalmInv, Jobs, DependencyOrder, Active
<1>10. OthersHeld(f)
  <2>1. Eligible(Deps, status) \subseteq Eligible(Deps, status')
    BY <1>8, EngineAssumption DEF Eligible
  <2> QED  BY <1>1, <2>1 DEF OthersHeld
<1>11. NothingActive => NothingActive'  BY <1>8 DEF NothingActive
<1>12. Knows(f)'  BY <1>1 DEF Knows, InJob, CalmInv, Minds, Holds
<1>13. Resumes(f)' => Resumes(f)  BY <1>1 DEF Resumes
<1>14. pc[f] # "idle" /\ Counted  BY DEF Holds, InJob, Counted
<1>15. Minds'
  <2> HIDE DEF Goto
  <2> QED  BY <1>10, <1>11, <1>12, <1>13, <1>14, MindsMove DEF CalmInv
<1> QED  BY <1>4, <1>5, <1>6, <1>7, <1>9, <1>15 DEF CalmInv, Jobs

LEMMA TakeCalm ==
  ASSUME Base, CalmInv, NEW w \in Fibers, TakeJob(w)
  PROVE  CalmInv'
<1>1. PICK s \in Steps, a \in Attempts :
        /\ Goto(w, "idle", "execute", [Blank EXCEPT !.op = "job", !.step = s, !.att = a,
                                                    !.fresh = HasInputs(s)])
        /\ queue[s][a] > 0
        /\ queue' = [queue EXCEPT ![s][a] = @ - 1]
  BY DEF TakeJob
<1> DEFINE l == [Blank EXCEPT !.op = "job", !.step = s, !.att = a, !.fresh = HasInputs(s)]
<1>0. TypeOK /\ Waiting(s)  BY <1>1 DEF Base, Waiting
<1>2. /\ pc[w] = "idle" /\ pc'[w] = "execute" /\ loc'[w] = l
      /\ \A g \in Fibers \ {w} : pc'[g] = pc[g] /\ loc'[g] = loc[g]
  BY <1>0, <1>1 DEF Goto, TypeOK
<1>3. l.op = "job" /\ l.step = s /\ l.failed = {}  BY DEF Blank
<1> HIDE DEF l
<1>4. UNCHANGED <<runStatus, status, overdue, version, allowed>> /\ Counted
  BY DEF TakeJob, database, history, Counted
<1>5. /\ status[s] \in AtWork /\ s \notin overdue
      /\ \A g \in Fibers : ~Has(g, s)
  BY <1>0 DEF CalmInv, Jobs, JobStatus, OneJob, Forgotten
<1>6. \A t \in Steps \ {s} : queue'[t] = queue[t]
  BY <1>1
<1>7. \A b \in Attempts : queue'[s][b] = 0
  <2>1. queue[s] \in [Attempts -> Nat] /\ queue[s][a] = 1
    BY <1>0, <1>1 DEF TypeOK, CalmInv, Jobs, OneJob
  <2>2. \A b \in Attempts \ {a} : queue[s][b] = 0
    BY <1>1, <2>1 DEF CalmInv, Jobs, OneJob
  <2>3. queue'[s] = [queue[s] EXCEPT ![a] = queue[s][a] - 1]
    BY <1>0, <1>1 DEF TypeOK
  <2> QED  BY <2>1, <2>2, <2>3
<1>8. \A t \in Steps : Waiting(t)' <=> (t # s /\ Waiting(t))
  BY <1>6, <1>7 DEF Waiting
<1>9. \A g \in Fibers, t \in Steps :
        /\ Has(g, t)' <=> (IF g = w THEN t = s ELSE Has(g, t))
        /\ g # w => pc'[g] = pc[g]
  BY <1>2, <1>3 DEF Has, Adding, Holds, InJob
<1>10. OneJob'
  <2>1. \A t \in Steps, b, c \in Attempts :
          queue'[t][b] <= 1 /\ (queue'[t][b] > 0 /\ queue'[t][c] > 0 => b = c)
    BY <1>6, <1>7 DEF CalmInv, Jobs, OneJob
  <2>2. \A t \in Steps, g \in Fibers : Has(g, t)' => ~Waiting(t)'
    BY <1>8, <1>9, <1>5 DEF CalmInv, Jobs, OneJob
  <2>3. \A t \in Steps, g, h \in Fibers : Has(g, t)' /\ Has(h, t)' => g = h
    BY <1>2, <1>5, <1>9 DEF CalmInv, Jobs, OneJob, Has, Adding, Holds, InJob
  <2> QED  BY <2>1, <2>2, <2>3 DEF OneJob
<1>11. JobStatus'
  BY <1>2, <1>4, <1>5, <1>8, <1>9 DEF CalmInv, Jobs, JobStatus
<1>12. Forgotten'
  <2>1. overdue \subseteq Steps  BY <1>0 DEF TypeOK
  <2> QED  BY <1>4, <1>5, <1>8, <1>9, <2>1 DEF CalmInv, Jobs, Forgotten
<1>13. Made' /\ DependencyOrder'  BY <1>4 DEF CalmInv, Jobs, Made, DependencyOrder
<1>14. NobodyAlone /\ ~Recovering
  BY <1>0, <1>5 DEF NobodyAlone, CalmInv, Minds, Knows, Alone, Reruns, Recovery, AtWork
<1>15. OthersHeld(w) /\ (NothingActive => NothingActive')  BY <1>4 DEF OthersHeld, NothingActive
<1>16. Knows(w)'  BY <1>2, <1>3 DEF Knows, InJob
<1>17. ~Resumes(w)'  BY <1>2, <1>3 DEF Resumes
<1>18. Goto(w, "idle", "execute", l)  BY <1>1 DEF l
<1>19. Minds'
  <2> HIDE DEF Goto
  <2> QED  BY <1>0, <1>4, <1>14, <1>15, <1>16, <1>17, <1>18, MindsMove DEF CalmInv
<1> QED  BY <1>10, <1>11, <1>12, <1>13, <1>19 DEF CalmInv, Jobs

LEMMA RethrowCalm ==
  ASSUME Base, CalmInv, NEW w \in Fibers, Rethrow(w)
  PROVE  CalmInv'
<1> DEFINE s == loc[w].step
<1>0. TypeOK /\ Goto(w, "rethrow", "idle", Blank) /\ pc[w] = "rethrow" /\ s \in Steps
  BY DEF Base, CalmInv, Minds, Knows, InJob, Rethrow, Return, Goto
<1>1. UNCHANGED <<runStatus, status, overdue, version, allowed>> /\ Counted
  BY DEF Rethrow, database, history, Counted
<1>2. Holds(w, s)  BY <1>0 DEF Holds, InJob
<1>3. /\ status[s] \in AtWork /\ s \notin overdue /\ ~Waiting(s)
      /\ \A g \in Fibers \ {w} : ~Has(g, s)
  BY <1>0, <1>2, OwnStep
<1>4. /\ pc'[w] = "idle" /\ loc'[w] = Blank
      /\ \A g \in Fibers \ {w} : pc'[g] = pc[g] /\ loc'[g] = loc[g]
  BY <1>0 DEF Goto, TypeOK
<1>5. \A g \in Fibers, t \in Steps :
        Has(g, t)' => Has(g, t) /\ t # s /\ (pc'[g] = "context" <=> pc[g] = "context")
  BY <1>3, <1>4 DEF Has, Adding, Holds, InJob
<1>6. Jobs'
  <2>1. CASE \E a \in Attempts : AddToQueue(s, a)
    BY <1>0, <1>1, <1>3, <1>5, <2>1, JobsAdd DEF CalmInv
  <2>2. CASE queue' = queue
    BY <1>0, <1>1, <1>5, <2>2, JobsStand DEF CalmInv, Same
  <2> QED  BY <2>1, <2>2 DEF Rethrow
<1>7. OthersHeld(w) /\ (NothingActive => NothingActive')  BY <1>1 DEF OthersHeld, NothingActive
<1>8. Knows(w)' /\ ~Resumes(w)'  BY <1>4 DEF Knows, InJob, Resumes, Blank
<1>9. Minds'
  <2> HIDE DEF Goto
  <2> QED  BY <1>0, <1>1, <1>7, <1>8, MindsMove DEF CalmInv
<1> QED  BY <1>6, <1>9 DEF CalmInv

LEMMA ProcessCalm ==
  ASSUME Calm, Base, CalmInv, NEW w \in Workers, Process(w)
  PROVE  CalmInv'
<1> USE DEF redis, history, database
<1>0. /\ TypeOK /\ w \in Fibers /\ "db" \notin Faults /\ Knows(w) /\ loc[w] \in Locals
  BY DEF Base, CalmInv, Minds, Calm, Fibers, TypeOK
<1>1. CASE TakeJob(w)  BY <1>0, <1>1, TakeCalm
<1>2. CASE PersistResult(w)
  <2> DEFINE s == loc[w].step
             l == [loc[w] EXCEPT !.out = version[s] + 1]
  <2>1. s \in Steps /\ Holds(w, s) /\ pc[w] = "execute"
    BY <1>0, <1>2 DEF PersistResult, Goto, Knows, Holds, InJob
  <2>2. l.step = s /\ l.op = loc[w].op /\ l.failed = loc[w].failed  BY <1>0 DEF Locals
  <2>3. Goto(w, pc[w], "context", l)  BY <1>2, <2>1 DEF PersistResult
  <2>4. PICK v \in {"completed", "awaiting_approval"} : WriteStatus({s}, v)
    BY <1>2 DEF PersistResult
  <2>5. /\ overdue' = overdue \ {s} /\ UNCHANGED <<runStatus, queue, allowed, reruns>>
        /\ version' = [version EXCEPT ![s] = @ + 1]
    BY <1>2 DEF PersistResult
  <2> HIDE DEF l, Goto, WriteStatus
  <2> QED  BY <1>0, <2>1, <2>2, <2>3, <2>4, <2>5, OwnWrite
<1>3. CASE MarkFailed(w)
  <2> DEFINE s == loc[w].step
  <2>1. s \in Steps /\ Holds(w, s) /\ pc[w] = "markFailed"
    BY <1>0, <1>3 DEF MarkFailed, Goto, Knows, Holds, InJob
  <2>2. Goto(w, pc[w], "assess", loc[w]) /\ WriteStatus({s}, "failed")
    BY <1>3, <2>1 DEF MarkFailed
  <2>3. overdue' = overdue \ {s} /\ UNCHANGED <<runStatus, queue, allowed, reruns>> /\ version' = version
    BY <1>3 DEF MarkFailed
  <2> HIDE DEF Goto, WriteStatus
  <2> QED  BY <1>0, <2>1, <2>2, <2>3, OwnWrite
<1>4. CASE ExecutionFails(w) \/ Catch(w) \/ AssessRun(w) \/ FailRun(w)
  <2>1. PICK p \in InJob \ {"context"}, q \in InJob \ {"context"} : Goto(w, p, q, loc[w])
    BY <1>4 DEF ExecutionFails, Catch, AssessRun, FailRun, InJob
  <2>2. pc[w] = p /\ pc'[w] = q /\ loc'[w] = loc[w]  BY <1>0, <2>1 DEF Goto, TypeOK
  <2>3. Same /\ (runStatus' = "completed" => runStatus = "completed")
    BY <1>4 DEF ExecutionFails, Catch, AssessRun, FailRun, Same, Counted
  <2>4. Knows(w)'  BY <1>0, <2>1, <2>2 DEF Knows, InJob
  <2>5. \A s \in Steps : Has(w, s)' => Has(w, s) /\ (pc'[w] = "context" <=> pc[w] = "context")
    BY <2>1, <2>2 DEF Has, Adding, Holds, InJob
  <2>6. Resumes(w)' => Resumes(w)  BY <2>2 DEF Resumes
  <2>7. p # "idle" /\ q \notin {"boot", "orphans", "settle"}  BY DEF InJob
  <2> HIDE DEF Goto, Same, Counted
  <2> QED  BY <1>0, <2>1, <2>3, <2>4, <2>5, <2>6, <2>7, Walk
<1>5. CASE StoreContext(w)
  <2>1. Same /\ runStatus' = runStatus  BY <1>5 DEF StoreContext, Same, Counted
  <2>2. CASE Return(w, "context")
    <3> HIDE DEF Same, Return
    <3> QED  BY <1>0, <2>1, <2>2, WalkReturn
  <2>3. CASE Goto(w, "context", "lock", loc[w])
    <3>1. pc[w] = "context" /\ pc'[w] = "lock" /\ loc'[w] = loc[w]
      BY <1>0, <2>3 DEF Goto, TypeOK
    <3>2. Knows(w)'  BY <1>0, <3>1 DEF Knows, InJob
    <3>3. \A s \in Steps : ~Has(w, s)'  BY <3>1 DEF Has, Adding, Holds, InJob
    <3>4. Resumes(w)' => Resumes(w)  BY <3>1 DEF Resumes
    <3> HIDE DEF Goto, Same, Counted
    <3> QED  BY <1>0, <2>1, <2>3, <3>2, <3>3, <3>4, Walk
  <2> QED  BY <1>5, <2>2, <2>3 DEF StoreContext
<1>6. CASE StoreFails(w)  BY <1>0, <1>6 DEF StoreFails
<1>7. CASE Rethrow(w)  BY <1>0, <1>7, RethrowCalm
<1> QED  BY <1>1, <1>2, <1>3, <1>4, <1>5, <1>6, <1>7 DEF Process

-----------------------------------------------------------------------------
(* The requests, and what goes on without a fiber.                         *)

\* No fiber moves, and no status that somebody relies on is taken back.
LEMMA MindsStay ==
  ASSUME Minds, UNCHANGED <<pc, loc, runStatus, queue, reruns>>, status' = status \/ NobodyAlone,
         Eligible(Deps, status) \subseteq Eligible(Deps, status'), overdue \subseteq overdue',
         NothingActive => NothingActive',
         \A s \in Steps : status[s] = "running" => status'[s] = "running",
         \A g \in Fibers : loc[g].todo \subseteq Steps
  PROVE  Minds'
<1>1. CompletedIsTerminal'  BY DEF Minds, CompletedIsTerminal, NothingActive
<1>2. \A g \in Fibers : Knows(g)'
  BY DEF Minds, Knows, NobodyAlone, Alone, Reruns, Reset, Waiting
<1>3. Recovery'
  BY DEF Minds, Recovery, Recovering, Waiting, Fibers
<1>4. OneResumes'  BY DEF Minds, OneResumes, Resumes
<1> QED  BY <1>1, <1>2, <1>3, <1>4 DEF Minds

\* Nothing moves at all that a job or a fiber depends on.
LEMMA StandStill ==
  ASSUME TypeOK, CalmInv, UNCHANGED <<pc, loc, runStatus, reruns>>, Same
  PROVE  CalmInv'
<1>1. \A g \in Fibers, s \in Steps : Has(g, s)' => Has(g, s)
  BY DEF Has, Adding, Holds
<1>2. Jobs'
  <2> HIDE DEF Same
  <2> QED  BY <1>1, JobsStand DEF CalmInv
<1>3. NothingActive => NothingActive'  BY DEF Same, NothingActive
<1>4. \A g \in Fibers : loc[g].todo \subseteq Steps  BY DEF TypeOK, Locals
<1>5. Minds'  BY <1>3, <1>4, MindsStay DEF CalmInv, Same, Counted
<1> QED  BY <1>2, <1>5 DEF CalmInv

\* Where runs are repeated, whoever begins an operation is the only one to ask for anything.
LEMMA OneClient ==
  ASSUME Calm, TypeOK, CalmInv, NEW c \in Clients, pc[c] = "idle", NEW g \in Fibers
  PROVE  pc[g] \notin {"snapshot", "cascade"}
<1> SUFFICES ASSUME pc[g] \in {"snapshot", "cascade"}  PROVE FALSE
  OBVIOUS
<1>1. g \in Clients /\ MaxReruns # 0
  BY DEF CalmInv, Minds, Knows, Reruns, TypeOK
<1> QED  BY <1>1, EngineAssumption DEF Calm, OneRequester

\* A decision is taken on a step that nobody works for any more.
LEMMA DecideCalm ==
  ASSUME Calm, Base, CalmInv, NEW c \in Clients, pc[c] = "idle", NEW s \in Steps, Reviewable(s),
         NEW d \in {"approved", "revision_requested", "rejected"},
         status[s] \in Satisfied => d \in Satisfied, Decide(c, s, d),
         \A g \in Fibers, t \in Steps :
           Has(g, t)' => Has(g, t) /\ (pc'[g] = "context" <=> pc[g] = "context")
  PROVE  /\ Jobs' /\ NobodyAlone /\ reruns' = reruns /\ (NothingActive => NothingActive') /\ overdue' = overdue
         /\ Eligible(Deps, status) \subseteq Eligible(Deps, status')
         /\ \A t \in Steps : status[t] = "running" => status'[t] = "running"
<1>0. TypeOK  BY DEF Base
<1>1. status[s] \in {"awaiting_approval", "completed"}
  BY DEF Calm, Decide, Reviewable
<1>2. UNCHANGED <<runStatus, queue, version, allowed, reruns>>
  BY DEF Decide, redis, history
<1>3. s \notin overdue  BY <1>1 DEF CalmInv, Jobs, Forgotten
<1>4. overdue' = overdue /\ status' = [t \in Steps |-> IF t = s THEN d ELSE status[t]]
  BY <1>3 DEF Decide, WriteStatus
<1>5. \A t \in Steps : Waiting(t)' <=> Waiting(t)  BY <1>2 DEF Waiting
<1>6. OneJob'  BY <1>2, <1>5 DEF CalmInv, Jobs, OneJob
<1>7. JobStatus'
  BY <1>1, <1>4, <1>5 DEF CalmInv, Jobs, JobStatus, AtWork, Unmade
<1>8. Forgotten'
  <2>1. overdue \subseteq Steps  BY <1>0 DEF TypeOK
  <2> QED  BY <1>1, <1>4, <1>5, <2>1 DEF CalmInv, Jobs, Forgotten
<1>9. Made'  BY <1>2, <1>4 DEF CalmInv, Jobs, Made, Unmade
<1>10. \A t \in Steps : /\ status[t] = "pending" => status'[t] = "pending"
                        /\ status[t] \in Satisfied => status'[t] \in Satisfied
                        /\ status'[t] \in Active => status'[t] = status[t]
                        /\ status[t] = "running" => status'[t] = "running"
  BY <1>1, <1>4 DEF Active
<1>11. DependencyOrder'
  BY <1>10, EngineAssumption DEF CalmInv, Jobs, DependencyOrder, Active
<1>12. Eligible(Deps, status) \subseteq Eligible(Deps, status')
  BY <1>10, EngineAssumption DEF Eligible
<1>13. NothingActive => NothingActive'  BY <1>10 DEF NothingActive
<1>14. NobodyAlone
  BY <1>0, <1>1, OneClient DEF NobodyAlone, CalmInv, Minds, Knows, Alone
<1> QED  BY <1>2, <1>4, <1>6, <1>7, <1>8, <1>9, <1>10, <1>11, <1>12, <1>13, <1>14 DEF Jobs

LEMMA ApproveCalm ==
  ASSUME Calm, Base, CalmInv, NEW c \in Clients, Approve(c)
  PROVE  CalmInv'
<1> DEFINE l == [Blank EXCEPT !.op = "review", !.step = NoStep]
<1>1. PICK s \in Steps : Begin(c, "lock", "review", NoStep) /\ Decide(c, s, "approved")
  BY DEF Approve
<1>0. TypeOK /\ c \in Fibers /\ Reviewable(s) /\ runStatus' = runStatus
  BY <1>1 DEF Base, Decide, Fibers
<1>2. Goto(c, "idle", "lock", l) /\ ~Recovering
  BY <1>1, RequestsWait DEF Begin
<1>3. /\ pc[c] = "idle" /\ pc'[c] = "lock" /\ loc'[c] = l
      /\ \A g \in Fibers \ {c} : pc'[g] = pc[g] /\ loc'[g] = loc[g]
  BY <1>0, <1>2 DEF Goto, TypeOK
<1>4. \A g \in Fibers, t \in Steps :
        Has(g, t)' => Has(g, t) /\ (pc'[g] = "context" <=> pc[g] = "context")
  BY <1>3 DEF Has, Adding, Holds, InJob
<1>5. /\ Jobs' /\ NobodyAlone /\ reruns' = reruns
      /\ (NothingActive => NothingActive') /\ overdue' = overdue
      /\ Eligible(Deps, status) \subseteq Eligible(Deps, status')
  <2>1. "approved" \in Satisfied  BY DEF Satisfied
  <2> HIDE DEF Goto
  <2> QED  BY <1>0, <1>1, <1>3, <1>4, <2>1, DecideCalm
<1>6. OthersHeld(c) /\ Counted  BY <1>5 DEF OthersHeld, Counted
<1>7. Knows(c)' /\ ~Resumes(c)'  BY <1>3 DEF Knows, InJob, Resumes, Blank
<1>8. Minds'
  <2> HIDE DEF Goto, l
  <2> QED  BY <1>0, <1>2, <1>5, <1>6, <1>7, MindsMove DEF CalmInv
<1> QED  BY <1>5, <1>8 DEF CalmInv

LEMMA ReplayCalm ==
  ASSUME Calm, Base, CalmInv, NEW c \in Clients, Replay(c)
  PROVE  CalmInv'
<1>1. PICK s \in Steps :
        /\ Begin(c, "resolve", "replay", s) /\ AddToQueue(s, 0)
        /\ ~Live(s) /\ status[s] = "failed"
  BY DEF Replay, Calm
<1> DEFINE l == [Blank EXCEPT !.op = "replay", !.step = s]
<1>0. TypeOK /\ c \in Fibers /\ 0 \in Attempts  BY EngineAssumption DEF Base, Attempts, Fibers
<1>2. UNCHANGED <<runStatus, status, overdue, version, allowed>> /\ Counted
  BY DEF Replay, database, history, Counted
<1>3. Goto(c, "idle", "resolve", l) /\ ~Recovering
  BY <1>1, RequestsWait DEF Begin
<1>4. /\ pc[c] = "idle" /\ pc'[c] = "resolve" /\ loc'[c] = l
      /\ \A g \in Fibers \ {c} : pc'[g] = pc[g] /\ loc'[g] = loc[g]
  BY <1>0, <1>3 DEF Goto, TypeOK
<1>5. ~Waiting(s) /\ s \notin overdue /\ status[s] \in AtWork /\ \A g \in Fibers : ~Has(g, s)
  BY <1>1 DEF Live, Has, Adding, Holds, CalmInv, Jobs, Forgotten, AtWork
<1>6. \A g \in Fibers, t \in Steps :
        Has(g, t)' => Has(g, t) /\ t # s /\ (pc'[g] = "context" <=> pc[g] = "context")
  BY <1>4, <1>5 DEF Has, Adding, Holds, InJob
<1>7. Jobs'  BY <1>0, <1>1, <1>2, <1>5, <1>6, JobsAdd DEF CalmInv
<1>8. OthersHeld(c) /\ (NothingActive => NothingActive')  BY <1>2 DEF OthersHeld, NothingActive
<1>9. NobodyAlone  BY <1>0, <1>1, <1>4, OneClient DEF NobodyAlone, CalmInv, Minds, Knows, Alone
<1>10. Knows(c)' /\ ~Resumes(c)'  BY <1>4 DEF Knows, InJob, Resumes, Blank
<1>11. Minds'
  <2> HIDE DEF Goto, l
  <2> QED  BY <1>0, <1>2, <1>3, <1>8, <1>9, <1>10, MindsMove DEF CalmInv
<1> QED  BY <1>7, <1>11 DEF CalmInv

LEMMA RequestRerunCalm ==
  ASSUME Calm, Base, CalmInv, NEW c \in Clients, RequestRerun(c)
  PROVE  CalmInv'
<1>1. PICK s \in Steps :
        /\ Begin(c, "snapshot", "rerun", s) /\ Quiet /\ \A t \in Steps : ~Waiting(t)
        /\ status[s] \notin {"approved", "pending", "running"} /\ reruns' = reruns + 1
  BY DEF RequestRerun, Calm
<1> DEFINE l == [Blank EXCEPT !.op = "rerun", !.step = s]
<1>0. /\ TypeOK /\ c \in Fibers /\ NobodyAlone /\ ~Recovering
      /\ Same /\ UNCHANGED <<runStatus, queue, status>>
  BY <1>1 DEF Base, Fibers, Quiet, NobodyAlone, Recovering, Same, Counted, RequestRerun, database,
     redis
<1>2. Goto(c, "idle", "snapshot", l)  BY <1>1 DEF Begin
<1>3. /\ pc'[c] = "snapshot" /\ loc'[c] = l /\ l.op = "rerun" /\ l.step = s /\ l.failed = {}
      /\ \A g \in Fibers \ {c} : pc'[g] = "idle"
  BY <1>0, <1>1, <1>2 DEF Goto, TypeOK, Quiet, Blank
<1>4. Reruns(c)'
  BY <1>0, <1>1, <1>3 DEF Reruns, Active, Waiting, TypeOK
<1>5. Knows(c)' /\ ~Resumes(c)' /\ \A t \in Steps : ~Has(c, t)'
  BY <1>3, <1>4 DEF Knows, InJob, Resumes, Has, Adding, Holds
<1> HIDE DEF Goto, Same, l
<1> QED  BY <1>0, <1>2, <1>5, Walk

LEMMA ReadCascadeCalm ==
  ASSUME Base, CalmInv, NEW c \in Clients, ReadCascade(c)
  PROVE  CalmInv'
<1> DEFINE l == [loc[c] EXCEPT !.todo = Reset(loc[c].step)]
<1>0. /\ TypeOK /\ c \in Fibers /\ Goto(c, "snapshot", "cascade", l) /\ Same
      /\ UNCHANGED <<runStatus, queue, status, reruns>>
  BY DEF Base, Fibers, ReadCascade, Reset, Same, Counted, database, redis, history
<1>1. /\ pc[c] = "snapshot" /\ pc'[c] = "cascade" /\ loc'[c].op = loc[c].op
      /\ loc'[c].step = loc[c].step /\ loc'[c].failed = loc[c].failed
      /\ loc'[c].todo = Reset(loc[c].step)
      /\ \A g \in Fibers \ {c} : pc'[g] = pc[g]
  BY <1>0 DEF Goto, TypeOK, Locals
<1>2. Knows(c) /\ Reruns(c)  BY <1>0, <1>1 DEF CalmInv, Minds, Knows
<1>3. Reruns(c)'
  BY <1>0, <1>1, <1>2 DEF Reruns, Reset, Waiting
<1>4. Knows(c)' /\ (Resumes(c)' => Resumes(c)) /\ \A t \in Steps : ~Has(c, t)'
  BY <1>1, <1>2, <1>3 DEF Knows, InJob, Resumes, Has, Adding, Holds
<1> HIDE DEF Goto, Same, l
<1> QED  BY <1>0, <1>4, Walk

\* The reset takes every step back that depends on a step it takes back, unless it is approved:
\* none is left running on what is gone.
LEMMA CascadeCalm ==
  ASSUME Base, CalmInv, NEW c \in Clients, CascadeReset(c)
  PROVE  CalmInv'
<1> DEFINE S == loc[c].todo
           s == loc[c].step
<1>0. TypeOK /\ c \in Fibers /\ Boot \in Fibers \ {c} /\ overdue \subseteq Steps
  BY EngineAssumption DEF Base, Fibers, TypeOK
<1>1. /\ pc[c] = "cascade" /\ pc'[c] = "lock"
      /\ loc'[c].op = loc[c].op /\ loc'[c].failed = loc[c].failed
      /\ \A g \in Fibers \ {c} : pc'[g] = pc[g] /\ loc'[g] = loc[g]
      /\ UNCHANGED <<runStatus, queue, version, reruns>> /\ overdue' = overdue \ S
      /\ status' = [t \in Steps |-> IF t \in S THEN "pending" ELSE status[t]]
      /\ allowed' = [t \in Steps |-> IF t \in S THEN allowed[t] + 1 ELSE allowed[t]]
  BY <1>0 DEF CascadeReset, Goto, TypeOK, Locals, WriteStatus, redis
<1>2. Knows(c) /\ Reruns(c) /\ s \in Steps /\ S = Reset(s)
  BY <1>0, <1>1 DEF CalmInv, Minds, Knows, Reruns
<1>3. /\ \A g \in Fibers, t \in Steps : ~Has(g, t)'
      /\ \A t \in Steps : ~Waiting(t)'
  BY <1>1, <1>2 DEF Reruns, Has, Adding, Holds, InJob, Waiting
<1>4. OneJob'
  BY <1>1, <1>3 DEF CalmInv, Jobs, OneJob
<1>5. JobStatus' /\ Forgotten'
  BY <1>0, <1>1, <1>3 DEF CalmInv, Jobs, JobStatus, Forgotten
<1>6. Made'
  BY <1>0, <1>1 DEF CalmInv, Jobs, Made, TypeOK
<1>7. DependencyOrder'
  <2> SUFFICES ASSUME NEW t \in Steps, status'[t] = "running", NEW d \in Deps[t]
               PROVE  status'[d] \in Satisfied
    BY DEF DependencyOrder
  <2>1. d \in Steps /\ t \notin S /\ status[t] = "running"  BY <1>1, EngineAssumption
  <2>2. status[d] \in Satisfied  BY <2>1 DEF CalmInv, Jobs, DependencyOrder
  <2>3. t \notin Downstream(Deps, s)  BY <1>2, <2>1 DEF Reset
  <2>4. d # s /\ d \notin Downstream(Deps, s)
    BY <1>2, <2>3, DownstreamClosed, EngineAssumption
  <2> QED  BY <1>1, <1>2, <2>1, <2>2, <2>4 DEF Reset
<1>8. Minds'
  <2>1. CompletedIsTerminal'  BY <1>1, <1>2 DEF Reruns, CompletedIsTerminal
  <2>2. \A g \in Fibers : Knows(g)'
    BY <1>1, <1>2 DEF CalmInv, Minds, Knows, Reruns, InJob
  <2>3. Recovery'  BY <1>0, <1>1, <1>2 DEF Reruns, Recovery, Recovering
  <2>4. OneResumes'  BY <1>1 DEF CalmInv, Minds, OneResumes, Resumes
  <2> QED  BY <2>1, <2>2, <2>3, <2>4 DEF Minds
<1> QED  BY <1>4, <1>5, <1>6, <1>7, <1>8 DEF CalmInv, Jobs

LEMMA RequestCalm ==
  ASSUME Calm, Base, CalmInv, NEW c \in Clients, Request(c)
  PROVE  CalmInv'
<1> USE DEF redis, history, database
<1>0. TypeOK /\ c \in Fibers /\ Knows(c) /\ \A g \in Fibers : loc[g].todo \subseteq Steps
  BY DEF Base, CalmInv, Minds, Fibers, TypeOK, Locals
<1>1. CASE StartRun(c)
  <2>1. Begin(c, "lock", "start", NoStep) /\ Quiet  BY <1>1 DEF StartRun, Calm
  <2>2. NobodyAlone  BY <2>1 DEF Quiet, NobodyAlone
  <2>3. Same /\ runStatus' = "running"  BY <1>1 DEF StartRun, Same, Counted
  <2> HIDE DEF Same, Begin
  <2> QED  BY <1>0, <2>1, <2>2, <2>3, WalkBegin
<1>2. CASE UndoStart(c)
  <2>1. Return(c, "undo") /\ Same /\ runStatus' = "draft"  BY <1>2 DEF UndoStart, Same, Counted
  <2> HIDE DEF Same, Return
  <2> QED  BY <1>0, <2>1, WalkReturn
<1>3. CASE RequestResume(c)
  <2>1. Begin(c, "resume", "resume", NoStep) /\ \A g \in Fibers : ~Resumes(g)
    BY <1>3 DEF RequestResume, Undisturbed, Calm, Resumes
  <2>2. NobodyAlone
    BY <1>3, <2>1 DEF RequestResume, Undisturbed, Calm, NobodyAlone, Resumes, CalmInv, Minds, Knows, Reruns
  <2>3. Same /\ runStatus' = runStatus  BY <1>3 DEF RequestResume, Same, Counted
  <2> HIDE DEF Same, Begin
  <2> QED  BY <1>0, <2>1, <2>2, <2>3, WalkBegin
<1>4. CASE Approve(c)  BY <1>0, <1>4, ApproveCalm
<1>5. CASE Decline(c)
  <2>1. PICK s \in Steps, d \in {"revision_requested", "rejected"} :
          /\ UNCHANGED <<pc, loc>> /\ Decide(c, s, d) /\ status[s] = "awaiting_approval"
          /\ pc[c] = "idle"
    BY <1>5 DEF Decline, Calm
  <2>2. Reviewable(s) /\ UNCHANGED <<queue, runStatus, reruns>> /\ status[s] \notin Satisfied
    BY <2>1 DEF Decide, Satisfied
  <2>3. \A g \in Fibers, t \in Steps :
          Has(g, t)' => Has(g, t) /\ (pc'[g] = "context" <=> pc[g] = "context")
    BY <2>1 DEF Has, Adding, Holds, InJob
  <2>4. /\ Jobs' /\ NobodyAlone /\ (NothingActive => NothingActive') /\ overdue' = overdue
        /\ Eligible(Deps, status) \subseteq Eligible(Deps, status')
        /\ \A t \in Steps : status[t] = "running" => status'[t] = "running"
    BY <2>1, <2>2, <2>3, DecideCalm
  <2> QED  BY <1>0, <2>1, <2>2, <2>4, MindsStay DEF CalmInv
<1>6. CASE RequestRerun(c) \/ ReadCascade(c) \/ CascadeReset(c)
  BY <1>6, RequestRerunCalm, ReadCascadeCalm, CascadeCalm
<1>8. CASE Replay(c)  BY <1>0, <1>8, ReplayCalm
<1>9. CASE ResolveEntry(c)
  <2>1. Return(c, "resolve") /\ Same /\ runStatus' = runStatus  BY <1>9 DEF ResolveEntry, Same, Counted
  <2> HIDE DEF Same, Return
  <2> QED  BY <1>0, <2>1, WalkReturn
<1>10. CASE Dismiss(c)
  <2>1. UNCHANGED <<pc, loc, runStatus, reruns>> /\ Same  BY <1>10 DEF Dismiss, Same, Counted
  <2> HIDE DEF Same
  <2> QED  BY <1>0, <2>1, StandStill
<1> QED  BY <1>1, <1>2, <1>3, <1>4, <1>5, <1>6, <1>8, <1>9, <1>10 DEF Request

LEMMA WatchdogCalm ==
  ASSUME Calm, Base, CalmInv, Watchdog
  PROVE  CalmInv'
<1>0. /\ TypeOK /\ Cron \in Fibers /\ Same /\ runStatus' = runStatus
      /\ \A g \in Fibers : ~Resumes(g)
  BY DEF Base, Fibers, Watchdog, Same, Counted, Undisturbed, Calm, Resumes, database, redis, history
<1>1. NobodyAlone
  BY <1>0 DEF NobodyAlone, Resumes, Watchdog, Undisturbed, Calm, CalmInv, Minds, Knows, Reruns
<1>2. CASE Begin(Cron, "resume", "resume", NoStep)
  <2> HIDE DEF Same, Begin
  <2> QED  BY <1>0, <1>1, <1>2, WalkBegin
<1>3. CASE ~Begin(Cron, "resume", "resume", NoStep)
  <2> DEFINE l == [Blank EXCEPT !.op = "enqueue", !.step = NoStep]
  <2>1. /\ Goto(Cron, "idle", "read", l) /\ ~Recovering
        /\ Quiet /\ runStatus = "running" /\ \A s \in Steps : status[s] = "pending"
    BY <1>3 DEF Watchdog, Begin, Calm, Recovering
  <2>2. /\ pc'[Cron] = "read" /\ loc'[Cron] = l
        /\ \A g \in Fibers \ {Cron} : pc'[g] = "idle"
    BY <1>0, <2>1 DEF Goto, TypeOK, Quiet
  <2>3. Knows(Cron)'  BY <1>0, <2>1, <2>2 DEF Knows, Alone, InJob, Same, Blank
  <2>4. \A s \in Steps : ~Has(Cron, s)'  BY <2>2 DEF Has, Adding, Holds, InJob
  <2> HIDE DEF Goto, Same, Counted, l
  <2> QED  BY <1>0, <1>1, <2>1, <2>3, <2>4, Walk
<1> QED  BY <1>2, <1>3

LEMMA PassThresholdCalm ==
  ASSUME Calm, Base, CalmInv, PassThreshold
  PROVE  CalmInv'
<1>1. PICK s \in Steps : status[s] = "running" /\ ~Live(s) /\ overdue' = overdue \cup {s}
  BY DEF PassThreshold, Calm
<1>2. UNCHANGED <<runStatus, status, version, queue, allowed, pc, loc, reruns>>
  BY DEF PassThreshold, redis, history
<1>3. \A t \in Steps : Waiting(t)' <=> Waiting(t)  BY <1>2 DEF Waiting
<1>4. \A g \in Fibers, t \in Steps : Has(g, t)' <=> Has(g, t)
  BY <1>2 DEF Has, Adding, Holds
<1>5. OneJob' /\ JobStatus' /\ Made' /\ DependencyOrder'
  BY <1>2, <1>3, <1>4 DEF CalmInv, Jobs, OneJob, JobStatus, Made, DependencyOrder
<1>6. ~Waiting(s) /\ \A g \in Fibers : ~Has(g, s)
  BY <1>1 DEF Live, Has, Adding, Holds
<1>7. Forgotten'
  <2>1. overdue \subseteq Steps  BY DEF Base, TypeOK
  <2> QED  BY <1>1, <1>2, <1>3, <1>4, <1>6, <2>1 DEF CalmInv, Jobs, Forgotten
<1>8. \A g \in Fibers : loc[g].todo \subseteq Steps  BY DEF Base, TypeOK, Locals
<1>9. NothingActive => NothingActive'  BY <1>2 DEF NothingActive
<1>10. Minds'  BY <1>1, <1>2, <1>8, <1>9, MindsStay DEF CalmInv
<1> QED  BY <1>5, <1>7, <1>10 DEF CalmInv, Jobs

-----------------------------------------------------------------------------
(* Crash and restart.                                                      *)

\* While the reconciliation reads and resets, nobody else is there.
LEMMA BootMoves ==
  ASSUME TypeOK, CalmInv, NEW p \in {"boot", "orphans"}, NEW q \in {"orphans", "settle"}, NEW l,
         Goto(Boot, p, q, l), l.failed = {}, l.op \in {"resume", "enqueue"} => Resumes(Boot),
         UNCHANGED <<queue, runStatus, reruns>>, NothingActive => NothingActive',
         q = "orphans" => \A s \in l.todo : status'[s] = "running"
  PROVE  Minds' /\ \A g \in Fibers, s \in Steps : ~Waiting(s) /\ ~Waiting(s)' /\ ~Has(g, s)'
<1>0. Boot \in Fibers  BY DEF Fibers
<1>1. /\ pc[Boot] = p /\ pc'[Boot] = q /\ loc'[Boot] = l
      /\ \A g \in Fibers \ {Boot} : pc'[g] = pc[g] /\ loc'[g] = loc[g]
  BY <1>0 DEF Goto, TypeOK
<1>2. (\A g \in Fibers \ {Boot} : pc[g] = "idle") /\ \A s \in Steps : ~Waiting(s) /\ ~Waiting(s)'
  BY <1>1 DEF CalmInv, Minds, Recovery, Recovering, Waiting
<1>3. \A g \in Fibers, s \in Steps : ~Has(g, s)'
  BY <1>1, <1>2 DEF Has, Adding, Holds, InJob
<1>4. \A g \in Fibers : Knows(g)'
  BY <1>1, <1>2 DEF CalmInv, Minds, Knows, InJob
<1>5. CompletedIsTerminal'  BY DEF CalmInv, Minds, CompletedIsTerminal, NothingActive
<1>6. Recovery'  BY <1>1, <1>2 DEF Recovery, Recovering
<1>7. OneResumes'  BY <1>1 DEF CalmInv, Minds, OneResumes, Resumes
<1> QED  BY <1>2, <1>3, <1>4, <1>5, <1>6, <1>7 DEF Minds

LEMMA CrashCalm ==
  ASSUME Calm, Base, CalmInv, Crash
  PROVE  CalmInv'
<1>0. Boot \in Fibers  BY DEF Fibers
<1>1. /\ \A s \in Steps : ~Waiting(s)
      /\ \A g \in Fibers : pc'[g] = (IF g = Boot THEN "boot" ELSE "idle") /\ loc'[g] = Blank
      /\ UNCHANGED <<runStatus, status, overdue, version, queue, allowed, reruns>>
  BY DEF Crash, Calm, database
<1>2. \A g \in Fibers, s \in Steps : ~Has(g, s)'
  BY <1>1 DEF Has, Adding, Holds, InJob
<1>3. Jobs'
  <2>1. Same  BY <1>1 DEF Same, Counted
  <2> HIDE DEF Same
  <2> QED  BY <1>2, <2>1, JobsStand DEF Base, CalmInv
<1>4. \A g \in Fibers : Knows(g)'  BY <1>1 DEF Knows, InJob, Blank
<1>5. CompletedIsTerminal'  BY <1>1 DEF CalmInv, Minds, CompletedIsTerminal
<1>6. Recovery'
  <2>1. \A s \in Steps : ~Waiting(s)'  BY <1>1 DEF Waiting
  <2> QED  BY <1>0, <1>1, <2>1 DEF Recovery
<1>7. OneResumes'  BY <1>1 DEF OneResumes, Resumes, Blank
<1> QED  BY <1>3, <1>4, <1>5, <1>6, <1>7 DEF CalmInv, Minds

LEMMA RecoverCalm ==
  ASSUME Calm, Base, CalmInv, Recover
  PROVE  CalmInv'
<1> USE DEF redis, history, database
<1>0. /\ TypeOK /\ Boot \in Fibers /\ Knows(Boot) /\ loc[Boot] \in Locals
  BY DEF Base, CalmInv, Minds, Fibers, TypeOK
<1>1. CASE Crash  BY <1>1, CrashCalm
<1>2. CASE Deploy  BY <1>2 DEF Deploy, Calm
<1>3. CASE ReadRun
  <2> DEFINE running == {s \in Steps : status[s] = "running"}
             l == [Blank EXCEPT !.op = Verdict, !.todo = running]
  <2>1. Same /\ UNCHANGED <<runStatus, reruns>>  BY <1>3 DEF ReadRun, Same, Counted
  <2>2. CASE Return(Boot, "boot")
    <3> HIDE DEF Same, Return
    <3> QED  BY <1>0, <2>1, <2>2, WalkReturn
  <2>3. CASE ~Return(Boot, "boot")
    <3>1. PICK q \in {"orphans", "settle"} : Goto(Boot, "boot", q, l)
      BY <1>3, <2>3 DEF ReadRun
    <3>2. l.failed = {} /\ l.op \notin {"resume", "enqueue"} /\ l.todo = running
      BY DEF Blank, Verdict
    <3>3. (\A s \in l.todo : status'[s] = "running") /\ (NothingActive => NothingActive')
      BY <2>1, <3>2 DEF Same, NothingActive
    <3>4. UNCHANGED <<queue, runStatus, reruns>>  BY <2>1 DEF Same, Counted
    <3>5. Minds' /\ \A g \in Fibers, s \in Steps : ~Waiting(s) /\ ~Waiting(s)' /\ ~Has(g, s)'
      <4> HIDE DEF Goto, l, Same
      <4> QED  BY <1>0, <3>1, <3>2, <3>3, <3>4, BootMoves
    <3>6. Jobs'
      <4> HIDE DEF Same
      <4> QED  BY <1>0, <2>1, <3>5, JobsStand DEF CalmInv
    <3> QED  BY <3>5, <3>6 DEF CalmInv
  <2> QED  BY <2>2, <2>3
<1>4. CASE ResetOrphans
  <2> DEFINE todo == loc[Boot].todo
             l == [loc[Boot] EXCEPT !.todo = {}]
  <2>1. /\ Goto(Boot, "orphans", "settle", l) /\ pc[Boot] = "orphans"
        /\ UNCHANGED <<runStatus, queue, version, allowed, reruns>> /\ overdue' = overdue \ todo
        /\ status' = [s \in Steps |-> IF s \in todo THEN "pending" ELSE status[s]]
    BY <1>4 DEF ResetOrphans, WriteStatus, Goto
  <2>2. l.failed = {} /\ l.op = loc[Boot].op  BY <1>0 DEF Locals, Knows
  <2>3. todo \subseteq Steps /\ \A s \in todo : status[s] = "running"
    BY <1>0, <2>1 DEF Locals, CalmInv, Minds, Recovery
  <2>4. NothingActive => NothingActive'  BY <2>1, <2>3 DEF NothingActive, Active
  <2>5. Minds' /\ \A g \in Fibers, s \in Steps : ~Waiting(s) /\ ~Waiting(s)' /\ ~Has(g, s)'
    <3> HIDE DEF Goto, l
    <3> QED  BY <1>0, <2>1, <2>2, <2>4, BootMoves DEF Resumes
  <2>6. OneJob' /\ JobStatus'  BY <1>0, <2>1, <2>5 DEF CalmInv, Jobs, OneJob, JobStatus
  <2>7. Forgotten'
    <3>1. overdue \subseteq Steps  BY <1>0 DEF TypeOK
    <3> QED  BY <1>0, <2>1, <2>5, <3>1 DEF CalmInv, Jobs, Forgotten
  <2>8. Made'  BY <2>1, <2>3 DEF CalmInv, Jobs, Made, Unmade
  <2>9. DependencyOrder'
    <3>1. \A s \in Steps : Deps[s] \subseteq Steps  BY EngineAssumption
    <3>2. \A d \in Steps : status[d] \in Satisfied => status'[d] \in Satisfied
      BY <2>1, <2>3 DEF Satisfied
    <3>3. \A s \in Steps : status'[s] = "running" => status[s] = "running"  BY <2>1
    <3> QED  BY <3>1, <3>2, <3>3 DEF CalmInv, Jobs, DependencyOrder
  <2> QED  BY <2>5, <2>6, <2>7, <2>8, <2>9 DEF CalmInv, Jobs
<1>5. CASE Settle
  <2>1. Same /\ (runStatus' = "completed" => runStatus = "completed")
    BY <1>5 DEF Settle, Same, Counted
  <2>2. CASE Return(Boot, "settle")
    <3> HIDE DEF Same, Return
    <3> QED  BY <1>0, <2>1, <2>2, WalkReturn
  <2>3. CASE loc[Boot].op = "recover" /\ Goto(Boot, "settle", "lock", loc[Boot])
    <3>1. pc'[Boot] = "lock" /\ loc'[Boot] = loc[Boot]  BY <1>0, <2>3 DEF Goto, TypeOK
    <3>2. Knows(Boot)'  BY <1>0, <2>3, <3>1 DEF Knows, InJob
    <3>3. \A s \in Steps : ~Has(Boot, s)'  BY <3>1 DEF Has, Adding, Holds, InJob
    <3>4. Resumes(Boot)' => Resumes(Boot)  BY <3>1 DEF Resumes
    <3> HIDE DEF Goto, Same, Counted
    <3> QED  BY <1>0, <2>1, <2>3, <3>2, <3>3, <3>4, Walk
  <2> QED  BY <1>5, <2>2, <2>3 DEF Settle
<1> QED  BY <1>1, <1>2, <1>3, <1>4, <1>5 DEF Recover

-----------------------------------------------------------------------------
(* The theorems.                                                           *)

LEMMA ExpireCalm ==
  ASSUME Base, CalmInv, ExpireLock
  PROVE  CalmInv'
<1>1. TypeOK /\ UNCHANGED <<pc, loc, runStatus, reruns>> /\ Same
  BY DEF Base, ExpireLock, Same, Counted, database, history
<1> HIDE DEF Same
<1> QED  BY <1>1, StandStill

LEMMA CalmInductive ==
  ASSUME Calm, Base, CalmInv, Next
  PROVE  CalmInv'
<1>1. ASSUME NEW f \in Fibers, ReadStale(f) \/ ResetStale(f)  PROVE CalmInv'
  BY <1>1, ReadStaleCalm, ResetStaleCalm
<1> QED
  BY <1>1, EnqueueCalm, ProcessCalm, RequestCalm, ExpireCalm, PassThresholdCalm, WatchdogCalm,
     RecoverCalm
  DEF Next

LEMMA CalmInit == Init => CalmInv
<1> SUFFICES ASSUME Init  PROVE CalmInv
  OBVIOUS
<1>1. /\ \A f \in Fibers : pc[f] = "idle" /\ loc[f] = Blank
      /\ \A s \in Steps : ~Waiting(s)
  BY DEF Init, Waiting
<1>2. \A f \in Fibers, s \in Steps : ~Has(f, s)
  BY <1>1 DEF Has, Adding, Holds, InJob
<1>3. OneJob /\ JobStatus /\ Forgotten /\ Made /\ DependencyOrder
  BY <1>1, <1>2 DEF Init, OneJob, JobStatus, Forgotten, Made, DependencyOrder
<1>4. CompletedIsTerminal  BY DEF Init, CompletedIsTerminal
<1>5. \A f \in Fibers : Knows(f)  BY <1>1 DEF Knows, InJob, Blank
<1>6. Recovery /\ OneResumes
  BY <1>1 DEF Recovery, Recovering, OneResumes, Resumes, Blank, Fibers
<1> QED  BY <1>3, <1>4, <1>5, <1>6 DEF CalmInv, Jobs, Minds

LEMMA CalmInvariant ==
  ASSUME Calm
  PROVE  Spec => [](Base /\ CalmInv)
<1>1. Init => LockInv  BY DEF Init, LockInv, InSection
<1>2. TypeOK /\ StepIsGiven /\ LockInv /\ CalmInv /\ [Next]_vars => LockInv' /\ CalmInv'
  <2> SUFFICES ASSUME TypeOK, StepIsGiven, LockInv, CalmInv, [Next]_vars
               PROVE  LockInv' /\ CalmInv'
    OBVIOUS
  <2>1. Base /\ "ttl" \notin Faults  BY DEF Base, Calm
  <2>2. CASE Next
    BY <2>1, <2>2, CalmInductive, EnqueueKeepsLock, OthersKeepLock
  <2>3. CASE UNCHANGED vars
    <3>1. UNCHANGED <<pc, loc, runStatus, reruns>> /\ Same
      BY <2>3 DEF vars, database, redis, history, Same, Counted
    <3>2. CalmInv'
      <4> HIDE DEF Same
      <4> QED  BY <3>1, StandStill
    <3>3. LockInv'  BY <2>3 DEF vars, redis, LockInv, InSection
    <3> QED  BY <3>2, <3>3
  <2> QED  BY <2>2, <2>3
<1>3. TypeOK /\ StepIsGiven /\ LockInv => Base  BY DEF Base
<1> QED  BY <1>1, <1>2, <1>3, CalmInit, TypeInvariant, PTL DEF Spec

\* No retry, recovery, restart or replay debits a step a second time for one request.
THEOREM ChargedAtMostOnce == Calm => (Spec => []ChargedOnce)
<1> SUFFICES ASSUME Calm  PROVE Spec => []ChargedOnce
  OBVIOUS
<1>1. Base /\ CalmInv => ChargedOnce  BY DEF CalmInv, Jobs, Made, ChargedOnce
<1> QED  BY <1>1, CalmInvariant, PTL

\* A step runs only while everything it depends on is completed or approved, although it is
\* marked running on a read that other transactions may have overtaken.
THEOREM OrderKept == Calm => (Spec => []DependencyOrder)
<1> SUFFICES ASSUME Calm  PROVE Spec => []DependencyOrder
  OBVIOUS
<1>1. Base /\ CalmInv => DependencyOrder  BY DEF CalmInv, Jobs
<1> QED  BY <1>1, CalmInvariant, PTL

\* A run is completed only when nothing in it is pending or running, although the check and the
\* write are two statements, and nothing in it becomes active afterwards, until a step is rerun.
THEOREM CompletedStays == Calm => (Spec => []CompletedIsTerminal)
<1> SUFFICES ASSUME Calm  PROVE Spec => []CompletedIsTerminal
  OBVIOUS
<1>1. Base /\ CalmInv => CompletedIsTerminal
  BY DEF CalmInv, Minds
<1> QED  BY <1>1, CalmInvariant, PTL

-----------------------------------------------------------------------------
(* The jobs, when Redis and the database fail too: a step that has been    *)
(* persisted may then be retried, fail, and be replayed.                   *)

\* Executions throw, reviewers reject or decide at once, servers crash and restart; Redis commands
\* and the storing of contexts fail at any point.  The limits of time are kept.
Rough ==
  /\ Faults \subseteq {"throw", "eager", "rejects", "quick", "redis", "db"}
  /\ MaxReruns = 0 \/ OneRequester

\* The lock may throw, and the job is then put back although its step is finished.
Retriable(f, s) == pc[f] = "lock" /\ loc[f].op = "job" /\ loc[f].step = s

\* f has the job of s, could not add it and will say so, or may have it put back.
Owns(f, s) == Has(f, s) \/ s \in loc[f].failed \/ Retriable(f, s)

OwnJob == \A s \in Steps :
  /\ \A a \in Attempts : queue[s][a] <= 1
  /\ \A a, b \in Attempts : queue[s][a] > 0 /\ queue[s][b] > 0 => a = b
  /\ \A f, g \in Fibers : Owns(f, s) /\ Owns(g, s) => f = g
  /\ \A f \in Fibers : Owns(f, s) => ~Waiting(s)

\* Whoever marks steps looks for pending ones, and finds none that has a job.
OwnedBy(f, v) == IF pc[f] \in {"context", "lock"} THEN v \notin Unmade ELSE v # "pending"

OwnStatus == \A s \in Steps :
  /\ Waiting(s) => status[s] # "pending"
  /\ \A f \in Fibers : Owns(f, s) => OwnedBy(f, status[s])

\* A step over the 35 minutes has nobody.
GivenUp == \A s \in overdue :
  status[s] = "running" /\ ~Waiting(s) /\ \A f \in Fibers : ~Owns(f, s)

RoughJobs == OwnJob /\ OwnStatus /\ GivenUp

\* What a fiber read earlier, or knows by where it stands, is still true when it writes.
Learned(f) ==
  /\ loc[f].failed # {} => pc[f] \in {"add", "rollback"} /\ loc[f].todo \cap loc[f].failed = {}
  /\ pc[f] \in {"snapshot", "cascade"} => Reruns(f)
  /\ pc[f] \in InJob => loc[f].op = "job"
  /\ pc[f] \in InJob \cup {"lock"} /\ loc[f].op = "job" => loc[f].step \in Steps
  /\ pc[f] = "lock" => loc[f].op # "enqueue"
  /\ pc[f] = "mark" => \A s \in loc[f].todo : status[s] = "pending"
  /\ pc[f] \in {"resume", "reset"} => loc[f].op = "resume"
  /\ pc[f] = "reset" => loc[f].todo \subseteq overdue
  /\ pc[f] \in {"read", "mark"} /\ loc[f].op = "enqueue" => Alone(f)

RoughMinds == (\A f \in Fibers : Learned(f)) /\ Recovery /\ OneResumes

RoughInv == RoughJobs /\ RoughMinds

-----------------------------------------------------------------------------
(* Steps that give nobody a job.                                           *)

LEMMA JobsHold ==
  ASSUME RoughJobs, queue' = queue,
         \A g \in Fibers, s \in Steps : Owns(g, s)' => Owns(g, s) /\ OwnedBy(g, status[s])',
         \A s \in Steps : Waiting(s) => status'[s] # "pending",
         \A s \in overdue' : s \in overdue /\ status'[s] = "running", overdue \subseteq Steps
  PROVE  RoughJobs'
<1> USE DEF Waiting
<1>1. OwnJob'  BY DEF RoughJobs, OwnJob
<1>2. OwnStatus'  BY DEF RoughJobs, OwnStatus
<1>3. GivenUp'  BY DEF RoughJobs, GivenUp
<1> QED  BY <1>1, <1>2, <1>3 DEF RoughJobs

StatusStays == UNCHANGED <<queue, status, overdue>>

\* A fiber passes a job on at most to itself, and none comes to have persisted a step.
Passes(g) == \A s \in Steps :
  Owns(g, s)' => Owns(g, s) /\ (pc'[g] \in {"context", "lock"} => pc[g] \in {"context", "lock"})

LEMMA JobsStay ==
  ASSUME TypeOK, RoughJobs, StatusStays, \A g \in Fibers : Passes(g)
  PROVE  RoughJobs'
<1>1. \A g \in Fibers, s \in Steps : Owns(g, s)' => Owns(g, s) /\ OwnedBy(g, status[s])'
  <2> SUFFICES ASSUME NEW g \in Fibers, NEW s \in Steps, Owns(g, s)'
               PROVE  Owns(g, s) /\ OwnedBy(g, status[s])'
    OBVIOUS
  <2>1. Owns(g, s) /\ OwnedBy(g, status[s])  BY DEF Passes, RoughJobs, OwnStatus
  <2>2. pc'[g] \in {"context", "lock"} => pc[g] \in {"context", "lock"}  BY DEF Passes
  <2> QED  BY <2>1, <2>2 DEF OwnedBy, StatusStays, Unmade
<1>2. \A s \in Steps : Waiting(s) => status'[s] # "pending"
  BY DEF RoughJobs, OwnStatus, StatusStays
<1>3. /\ overdue \subseteq Steps /\ queue' = queue
      /\ \A s \in overdue' : s \in overdue /\ status'[s] = "running"
  BY DEF TypeOK, RoughJobs, GivenUp, StatusStays
<1> QED  BY <1>1, <1>2, <1>3, JobsHold

\* A job is added for a step of which only one fiber has anything, and that fiber lets go of it.
LEMMA JobsGrow ==
  ASSUME TypeOK, RoughJobs, NEW s \in Steps, NEW a \in Attempts, AddToQueue(s, a),
         UNCHANGED <<status, overdue>>, status[s] # "pending", s \notin overdue, ~Waiting(s),
         \A g \in Fibers : Passes(g) /\ ~Owns(g, s)'
  PROVE  RoughJobs'
<1>1. /\ \A t \in Steps \ {s} : queue'[t] = queue[t]
      /\ queue'[s] = [queue[s] EXCEPT ![a] = @ + 1]
  BY DEF AddToQueue, TypeOK
<1>2. \A b \in Attempts : queue[s][b] = 0
  BY DEF Waiting, TypeOK
<1>3. \A b \in Attempts : queue'[s][b] = IF b = a THEN 1 ELSE 0
  BY <1>1, <1>2 DEF TypeOK
<1>4. \A t \in Steps : Waiting(t)' <=> (t = s \/ Waiting(t))
  BY <1>1, <1>3 DEF Waiting
<1>5. OwnJob'
  <2>1. \A t \in Steps, b, c \in Attempts :
          queue'[t][b] <= 1 /\ (queue'[t][b] > 0 /\ queue'[t][c] > 0 => b = c)
    <3>1. \A b, c \in Attempts : queue'[s][b] <= 1 /\ (queue'[s][b] > 0 /\ queue'[s][c] > 0 => b = c)
      BY <1>3
    <3>2. \A t \in Steps \ {s}, b, c \in Attempts :
            queue[t][b] <= 1 /\ (queue[t][b] > 0 /\ queue[t][c] > 0 => b = c)
      BY DEF RoughJobs, OwnJob
    <3> QED  BY <1>1, <3>1, <3>2
  <2>2. \A t \in Steps, g \in Fibers : Owns(g, t)' => ~Waiting(t)'
    BY <1>4 DEF RoughJobs, OwnJob, Passes
  <2>3. \A t \in Steps, g, h \in Fibers : Owns(g, t)' /\ Owns(h, t)' => g = h
    BY DEF RoughJobs, OwnJob, Passes
  <2> QED  BY <2>1, <2>2, <2>3 DEF OwnJob
<1>6. OwnStatus'
  <2>1. ASSUME NEW g \in Fibers, NEW t \in Steps, Owns(g, t)'  PROVE OwnedBy(g, status[t])'
    <3>1. Owns(g, t) /\ OwnedBy(g, status[t])  BY <2>1 DEF Passes, RoughJobs, OwnStatus
    <3>2. pc'[g] \in {"context", "lock"} => pc[g] \in {"context", "lock"}  BY <2>1 DEF Passes
    <3> QED  BY <3>1, <3>2 DEF OwnedBy, Unmade
  <2> QED  BY <1>4, <2>1 DEF RoughJobs, OwnStatus
<1>7. GivenUp'
  <2>1. overdue \subseteq Steps  BY DEF TypeOK
  <2> QED  BY <1>4, <2>1 DEF RoughJobs, GivenUp, Passes
<1> QED  BY <1>5, <1>6, <1>7 DEF RoughJobs

-----------------------------------------------------------------------------
(* Steps of one fiber.                                                     *)

LEMMA BusyLearned ==
  ASSUME RoughMinds, NEW f \in Fibers, NEW g \in Fibers \ {f}, pc[f] # "idle"
  PROVE  ~(pc[g] \in {"read", "mark"} /\ loc[g].op = "enqueue") /\ pc[g] \notin {"snapshot", "cascade"}
BY DEF RoughMinds, Learned, Alone, Reruns

\* What others are about to write is still as they read it.
OthersKeep(f) == \A g \in Fibers \ {f} :
  /\ pc[g] = "mark" => \A s \in loc[g].todo : status[s] = "pending" => status'[s] = "pending"
  /\ pc[g] = "reset" /\ loc[g].todo \subseteq overdue => loc[g].todo \subseteq overdue'

LEMMA RoughMove ==
  ASSUME TypeOK, RoughMinds, NEW f \in Fibers, NEW p, NEW q, NEW l, Goto(f, p, q, l),
         p # "idle" \/ (NobodyAlone /\ ~Recovering), q \notin {"boot", "orphans", "settle"},
         OthersKeep(f), Learned(f)', Resumes(f)' => Resumes(f) \/ \A g \in Fibers : ~Resumes(g)
  PROVE  RoughMinds'
<1>1. /\ pc[f] = p /\ pc'[f] = q
      /\ \A g \in Fibers \ {f} : pc'[g] = pc[g] /\ loc'[g] = loc[g]
  BY DEF Goto, TypeOK
<1>2. ASSUME NEW g \in Fibers \ {f}  PROVE Learned(g)'
  <2>1. ~(pc[g] \in {"read", "mark"} /\ loc[g].op = "enqueue") /\ pc[g] \notin {"snapshot", "cascade"}
    BY <1>1, BusyLearned DEF NobodyAlone
  <2>2. pc'[g] = pc[g] /\ loc'[g] = loc[g] /\ Learned(g)  BY <1>1 DEF RoughMinds
  <2> QED  BY <2>1, <2>2 DEF Learned, OthersKeep
<1>3. Recovery'
  <2>1. Boot \in Fibers  BY DEF Fibers
  <2>2. ~Recovering'  BY <1>1, <2>1 DEF RoughMinds, Recovery, Recovering
  <2> QED  BY <2>2 DEF Recovery, Recovering
<1>4. OneResumes'  BY <1>1 DEF RoughMinds, OneResumes, Resumes
<1> QED  BY <1>2, <1>3, <1>4 DEF RoughMinds

LEMMA RoughWalk ==
  ASSUME TypeOK, RoughInv, NEW f \in Fibers, NEW p, NEW q, NEW l, Goto(f, p, q, l),
         p # "idle" \/ (NobodyAlone /\ ~Recovering), q \notin {"boot", "orphans", "settle"},
         StatusStays, Passes(f), Learned(f)',
         Resumes(f)' => Resumes(f) \/ \A g \in Fibers : ~Resumes(g)
  PROVE  RoughInv'
<1>1. \A g \in Fibers \ {f} : pc'[g] = pc[g] /\ loc'[g] = loc[g]
  BY DEF Goto, TypeOK
<1>2. \A g \in Fibers : Passes(g)
  BY <1>1 DEF Passes, Owns, Has, Adding, Holds, Retriable
<1>3. RoughJobs'  BY <1>2, JobsStay DEF RoughInv
<1>4. OthersKeep(f)  BY DEF StatusStays, OthersKeep
<1>5. RoughMinds'
  <2> HIDE DEF Goto
  <2> QED  BY <1>4, RoughMove DEF RoughInv
<1> QED  BY <1>3, <1>5 DEF RoughInv

LEMMA RoughBegin ==
  ASSUME Rough, TypeOK, RoughInv, NEW f \in Fibers, NEW q, NEW o, NEW st, Begin(f, q, o, st),
         q \in {"lock", "resume", "resolve"}, q = "lock" => o \notin {"enqueue", "job"},
         q = "resume" => o = "resume", NobodyAlone,
         o \in {"resume", "enqueue"} => \A g \in Fibers : ~Resumes(g), StatusStays
  PROVE  RoughInv'
<1>1. /\ pc[Boot] = "idle" /\ pc'[f] = q /\ loc'[f] = [Blank EXCEPT !.op = o, !.step = st]
      /\ Goto(f, "idle", q, [Blank EXCEPT !.op = o, !.step = st])
  BY DEF Begin, Goto, TypeOK, Rough
<1>2. Learned(f)'  BY <1>1 DEF Learned, InJob, Blank
<1>3. Passes(f)  BY <1>1 DEF Passes, Owns, Has, Adding, Holds, Retriable, InJob, Blank
<1>4. Resumes(f)' => \A g \in Fibers : ~Resumes(g)  BY <1>1 DEF Resumes, Blank
<1>5. ~Recovering  BY <1>1 DEF Recovering
<1> HIDE DEF StatusStays
<1> QED  BY <1>1, <1>2, <1>3, <1>4, <1>5, RoughWalk

LEMMA RoughReturn ==
  ASSUME TypeOK, RoughInv, NEW f \in Fibers, NEW p, p # "idle",
         Return(f, p) \/ GiveUp(f, p) \/ Finish(f, p), p \notin {"add", "rollback"}, StatusStays
  PROVE  RoughInv'
<1>1. PICK q, l : Goto(f, p, q, l) /\ ((q = "idle" /\ l = Blank) \/ (q = "undo" /\ l = loc[f]))
  BY DEF Return, GiveUp, Finish
<1>2. pc'[f] = q /\ loc'[f] = l /\ pc[f] = p  BY <1>1 DEF Goto, TypeOK
<1>3. Learned(f)'  BY <1>1, <1>2 DEF Learned, InJob, Blank, RoughInv, RoughMinds
<1>4. Passes(f)
  BY <1>1, <1>2 DEF Passes, Owns, Has, Adding, Holds, Retriable, InJob, Blank, RoughInv, RoughMinds, Learned
<1>5. Resumes(f)' => Resumes(f)  BY <1>1, <1>2 DEF Resumes, Blank
<1> HIDE DEF StatusStays, Goto
<1> QED  BY <1>1, <1>3, <1>4, <1>5, RoughWalk

-----------------------------------------------------------------------------
(* enqueuePendingSteps.                                                    *)

LEMMA LoneMarker ==
  ASSUME Base, RoughInv, NEW f \in Fibers, pc[f] = "mark", NEW g \in Fibers \ {f}
  PROVE  pc[g] # "mark"
<1> SUFFICES ASSUME pc[g] = "mark"  PROVE FALSE
  OBVIOUS
<1>1. loc[f].op # "enqueue" /\ loc[g].op # "enqueue"
  BY DEF RoughInv, RoughMinds, Learned, Alone
<1> QED  BY <1>1 DEF Base, LockInv, InSection

LEMMA MarkRough ==
  ASSUME Base, RoughInv, NEW f \in Fibers, MarkRunning(f)
  PROVE  RoughInv'
<1> DEFINE todo == loc[f].todo
<1>0. TypeOK /\ todo \subseteq Steps  BY DEF Base, TypeOK, Locals
<1>1. /\ pc[f] = "mark" /\ pc'[f] = "add" /\ loc'[f] = loc[f]
      /\ \A g \in Fibers \ {f} : pc'[g] = pc[g] /\ loc'[g] = loc[g]
      /\ Goto(f, "mark", "add", loc[f]) /\ queue' = queue /\ overdue' = overdue \ todo
      /\ status' = [s \in Steps |-> IF s \in todo THEN "running" ELSE status[s]]
  BY <1>0 DEF MarkRunning, Goto, TypeOK, WriteStatus, redis
<1>2. Learned(f) /\ loc[f].failed = {} /\ \A s \in todo : status[s] = "pending"
  BY <1>1 DEF RoughInv, RoughMinds, Learned
<1>3. \A s \in todo : ~Waiting(s) /\ \A g \in Fibers : ~Owns(g, s)
  BY <1>0, <1>2 DEF RoughInv, RoughJobs, OwnStatus, OwnedBy, Unmade
<1>4. \A g \in Fibers, s \in Steps : Owns(g, s)' <=> (IF g = f THEN s \in todo ELSE Owns(g, s))
  BY <1>1, <1>2 DEF Owns, Has, Adding, Holds, Retriable, InJob
<1>5. \A s \in Steps : Waiting(s)' <=> Waiting(s)  BY <1>1 DEF Waiting
<1>6. OwnJob'
  BY <1>1, <1>3, <1>4, <1>5 DEF RoughInv, RoughJobs, OwnJob
<1>7. OwnStatus'
  <2>1. ASSUME NEW g \in Fibers, NEW s \in Steps, Owns(g, s)'  PROVE OwnedBy(g, status[s])'
    <3>1. CASE g = f  BY <1>1, <1>4, <2>1, <3>1 DEF OwnedBy
    <3>2. CASE g # f
      <4>1. Owns(g, s) /\ s \notin todo /\ OwnedBy(g, status[s])
        BY <1>3, <1>4, <2>1, <3>2 DEF RoughInv, RoughJobs, OwnStatus
      <4> QED  BY <1>1, <3>2, <4>1 DEF OwnedBy
    <3> QED  BY <3>1, <3>2
  <2> QED  BY <1>1, <1>5, <2>1 DEF RoughInv, RoughJobs, OwnStatus
<1>8. GivenUp'
  <2>1. overdue \subseteq Steps  BY <1>0 DEF TypeOK
  <2> QED  BY <1>1, <1>3, <1>4, <1>5, <2>1 DEF RoughInv, RoughJobs, GivenUp
<1>9. OthersKeep(f)
  <2>1. \A g \in Fibers \ {f} : pc[g] # "mark"  BY <1>1, LoneMarker
  <2>2. \A s \in overdue : s \notin todo  BY <1>2 DEF RoughInv, RoughJobs, GivenUp
  <2> QED  BY <1>1, <2>1, <2>2 DEF OthersKeep
<1>10. Learned(f)' /\ (Resumes(f)' => Resumes(f))  BY <1>1, <1>2 DEF Learned, InJob, Resumes
<1>11. RoughMinds'
  <2> HIDE DEF Goto
  <2> QED  BY <1>0, <1>1, <1>9, <1>10, RoughMove DEF RoughInv
<1> QED  BY <1>6, <1>7, <1>8, <1>11 DEF RoughInv, RoughJobs

LEMMA AddRough ==
  ASSUME Base, RoughInv, NEW f \in Fibers, AddJob(f)
  PROVE  RoughInv'
<1>1. PICK s \in loc[f].todo :
        LET l == [loc[f] EXCEPT !.todo = @ \ {s}, !.some = TRUE] IN
        Goto(f, "add", AfterAdd(l), l) /\ AddToQueue(s, 0)
  BY DEF AddJob
<1> DEFINE l == [loc[f] EXCEPT !.todo = @ \ {s}, !.some = TRUE]
<1>0. TypeOK /\ s \in Steps /\ 0 \in Attempts
  <2>1. 0 \in Attempts  BY EngineAssumption DEF Attempts
  <2> QED  BY <2>1 DEF Base, TypeOK, Locals
<1>2. l.todo = loc[f].todo \ {s} /\ l.failed = loc[f].failed /\ l.op = loc[f].op /\ l.step = loc[f].step
  BY <1>0 DEF TypeOK, Locals
<1> HIDE DEF l
<1>3. PICK q \in {"add", "rollback", "unlock"} : Goto(f, "add", q, l) /\ q = AfterAdd(l)
  BY <1>1, <1>2 DEF AfterAdd, l
<1>4. /\ pc[f] = "add" /\ pc'[f] = q /\ loc'[f] = l /\ (l.failed # {} => q # "unlock")
      /\ \A g \in Fibers \ {f} : pc'[g] = pc[g] /\ loc'[g] = loc[g]
  BY <1>0, <1>3 DEF Goto, TypeOK, AfterAdd
<1>5. UNCHANGED <<status, overdue>>  BY DEF AddJob, database
<1>6. Owns(f, s) /\ Has(f, s)  BY <1>1, <1>4 DEF Owns, Has, Adding
<1>7. ~Waiting(s) /\ status[s] # "pending" /\ s \notin overdue /\ \A g \in Fibers \ {f} : ~Owns(g, s)
  BY <1>0, <1>4, <1>6 DEF RoughInv, RoughJobs, OwnJob, OwnStatus, OwnedBy, GivenUp

<1>8. loc[f].todo \cap loc[f].failed = {}  BY DEF RoughInv, RoughMinds, Learned
<1>9. \A g \in Fibers : Passes(g) /\ ~Owns(g, s)'
  <2>1. \A t \in Steps : Owns(f, t)' => (Has(f, t) /\ t # s) \/ t \in loc[f].failed
    BY <1>2, <1>4 DEF Owns, Has, Adding, Holds, Retriable, InJob
  <2>2. Passes(f) /\ ~Owns(f, s)'  BY <1>0, <1>3, <1>4, <1>8, <2>1 DEF Passes, Owns
  <2>3. \A g \in Fibers \ {f} : Passes(g) /\ ~Owns(g, s)'
    BY <1>0, <1>4, <1>7 DEF Passes, Owns, Has, Adding, Holds, Retriable
  <2> QED  BY <2>2, <2>3
<1>10. RoughJobs'  BY <1>0, <1>1, <1>5, <1>7, <1>9, JobsGrow DEF RoughInv
<1>11. OthersKeep(f)  BY <1>5 DEF OthersKeep
<1>12. Learned(f)' /\ (Resumes(f)' => Resumes(f))
  BY <1>2, <1>3, <1>4, <1>8 DEF Learned, InJob, Resumes, RoughInv, RoughMinds
<1>13. RoughMinds'
  <2> HIDE DEF Goto
  <2> QED  BY <1>0, <1>3, <1>11, <1>12, RoughMove DEF RoughInv
<1> QED  BY <1>10, <1>13 DEF RoughInv

\* The command that adds a job throws: the step will be set back.
LEMMA AddFailsRough ==
  ASSUME Base, RoughInv, NEW f \in Fibers, AddFails(f)
  PROVE  RoughInv'
<1>1. PICK s \in loc[f].todo :
        LET l == [loc[f] EXCEPT !.todo = @ \ {s}, !.failed = @ \cup {s}] IN
        Goto(f, "add", AfterAdd(l), l)
  BY DEF AddFails
<1> DEFINE l == [loc[f] EXCEPT !.todo = @ \ {s}, !.failed = @ \cup {s}]
<1>0. TypeOK /\ s \in Steps /\ StatusStays
  BY DEF Base, TypeOK, Locals, AddFails, database, redis, StatusStays
<1>2. /\ l.todo = loc[f].todo \ {s} /\ l.failed = loc[f].failed \cup {s}
      /\ l.op = loc[f].op /\ l.step = loc[f].step
  BY <1>0 DEF TypeOK, Locals
<1> HIDE DEF l
<1>3. PICK q \in {"add", "rollback"} : Goto(f, "add", q, l)
  BY <1>1, <1>2 DEF AfterAdd, l
<1>4. pc[f] = "add" /\ pc'[f] = q /\ loc'[f] = l  BY <1>0, <1>3 DEF Goto, TypeOK
<1>5. Passes(f)  BY <1>1, <1>2, <1>3, <1>4 DEF Passes, Owns, Has, Adding, Holds, Retriable, InJob
<1>6. Learned(f)' /\ (Resumes(f)' => Resumes(f))
  BY <1>2, <1>3, <1>4 DEF Learned, InJob, Resumes, RoughInv, RoughMinds
<1> HIDE DEF Goto, StatusStays
<1> QED  BY <1>0, <1>3, <1>5, <1>6, RoughWalk

\* A step set back has no job, and nobody else is about to give it one.
LEMMA RollbackRough ==
  ASSUME Base, RoughInv, NEW f \in Fibers, RollbackFailures(f)
  PROVE  RoughInv'
<1> DEFINE l == [loc[f] EXCEPT !.failed = {}]
           S == loc[f].failed
<1>0. TypeOK /\ S \subseteq Steps /\ overdue \subseteq Steps  BY DEF Base, TypeOK, Locals
<1>1. PICK q \in {"unlock", "terminal"} : Goto(f, "rollback", q, l)
  BY DEF RollbackFailures
<1>2. /\ pc[f] = "rollback" /\ pc'[f] = q
      /\ loc'[f].op = loc[f].op /\ loc'[f].failed = {} /\ loc'[f].step = loc[f].step
      /\ \A g \in Fibers \ {f} : pc'[g] = pc[g] /\ loc'[g] = loc[g]
      /\ queue' = queue /\ overdue' = overdue \ S
      /\ status' = [s \in Steps |-> IF s \in S THEN "pending" ELSE status[s]]
  BY <1>0, <1>1 DEF RollbackFailures, Goto, TypeOK, Locals, WriteStatus, redis
<1> HIDE DEF l
<1>3. \A s \in S : ~Waiting(s) /\ s \notin overdue /\ \A g \in Fibers \ {f} : ~Owns(g, s)
  BY <1>0 DEF Owns, RoughInv, RoughJobs, OwnJob, GivenUp
<1>4. \A s \in Steps : ~Owns(f, s)'
  BY <1>2 DEF Owns, Has, Adding, Holds, Retriable, InJob
<1>5. ASSUME NEW g \in Fibers, NEW s \in Steps, Owns(g, s)'  PROVE Owns(g, s) /\ OwnedBy(g, status[s])'
  <2>1. g # f  BY <1>4, <1>5
  <2>2. Owns(g, s)  BY <1>2, <1>5, <2>1 DEF Owns, Has, Adding, Holds, Retriable
  <2>3. OwnedBy(g, status[s]) /\ s \notin S  BY <1>3, <2>1, <2>2 DEF RoughInv, RoughJobs, OwnStatus
  <2> QED  BY <1>2, <2>1, <2>2, <2>3 DEF OwnedBy
<1>6. RoughJobs'
  <2>1. \A s \in Steps : Waiting(s) => status'[s] # "pending"
    BY <1>2, <1>3 DEF RoughInv, RoughJobs, OwnStatus
  <2>2. \A s \in overdue' : s \in overdue /\ status'[s] = "running"
    BY <1>0, <1>2 DEF RoughInv, RoughJobs, GivenUp
  <2> QED  BY <1>0, <1>2, <1>5, <2>1, <2>2, JobsHold DEF RoughInv
<1>7. OthersKeep(f)
  <2>1. overdue' = overdue  BY <1>0, <1>2, <1>3
  <2>2. \A g \in Fibers : loc[g].todo \subseteq Steps  BY <1>0 DEF TypeOK, Locals
  <2> QED  BY <1>2, <2>1, <2>2 DEF OthersKeep
<1>8. Learned(f)' /\ (Resumes(f)' => Resumes(f))  BY <1>2 DEF Learned, InJob, Resumes
<1>9. RoughMinds'
  <2> HIDE DEF Goto
  <2> QED  BY <1>0, <1>1, <1>7, <1>8, RoughMove DEF RoughInv
<1> QED  BY <1>6, <1>9 DEF RoughInv

LEMMA EnqueueRough ==
  ASSUME Base, RoughInv, NEW f \in Fibers, EnqueuePendingSteps(f)
  PROVE  RoughInv'
<1> USE DEF redis, history, database, StatusStays
<1>0. TypeOK /\ Learned(f)  BY DEF Base, RoughInv, RoughMinds
<1>1. CASE AcquireLock(f)
  <2>1. pc[f] = "lock" /\ pc'[f] = "read" /\ loc'[f] = loc[f] /\ Goto(f, "lock", "read", loc[f])
    BY <1>0, <1>1 DEF AcquireLock, Goto, TypeOK
  <2>2. Learned(f)' /\ (Resumes(f)' => Resumes(f))  BY <1>0, <2>1 DEF Learned, InJob, Resumes
  <2>3. Passes(f)  BY <1>0, <2>1 DEF Passes, Owns, Has, Adding, Holds, Retriable, InJob, Learned
  <2>4. StatusStays  BY <1>1 DEF AcquireLock
  <2> HIDE DEF Goto, StatusStays
  <2> QED  BY <1>0, <2>1, <2>2, <2>3, <2>4, RoughWalk
<1>2. CASE LockBusy(f)  BY <1>0, <1>2, RoughReturn DEF LockBusy
<1>3. CASE LockFails(f)
  <2>1. StatusStays  BY <1>3 DEF LockFails
  <2>2. CASE Return(f, "lock")
    <3> HIDE DEF StatusStays, Return
    <3> QED  BY <1>0, <2>1, <2>2, RoughReturn
  <2>3. CASE loc[f].op = "job" /\ Goto(f, "lock", "catch", loc[f])
    <3>1. pc[f] = "lock" /\ pc'[f] = "catch" /\ loc'[f] = loc[f]
      BY <1>0, <2>3 DEF Goto, TypeOK
    <3>2. Learned(f)' /\ (Resumes(f)' => Resumes(f))  BY <1>0, <2>3, <3>1 DEF Learned, InJob, Resumes
    <3>3. Passes(f)  BY <1>0, <2>3, <3>1 DEF Passes, Owns, Has, Adding, Holds, Retriable, InJob, Learned
    <3> HIDE DEF Goto, StatusStays
    <3> QED  BY <1>0, <2>1, <2>3, <3>2, <3>3, RoughWalk
  <2> QED  BY <1>3, <2>2, <2>3 DEF LockFails
<1>4. CASE ReadEligible(f)
  <2> DEFINE e == Eligible(Deps, status)
  <2>1. PICK q \in {"terminal", "mark"} : Goto(f, "read", q, [loc[f] EXCEPT !.todo = e])
    BY <1>4 DEF ReadEligible
  <2>2. /\ pc[f] = "read" /\ pc'[f] = q /\ loc'[f].todo = e /\ loc'[f].op = loc[f].op
        /\ loc'[f].failed = loc[f].failed /\ loc'[f].step = loc[f].step
        /\ \A g \in Fibers \ {f} : pc'[g] = pc[g]
    BY <1>0, <2>1 DEF Goto, TypeOK, Locals
  <2>3. UNCHANGED <<runStatus, status>> /\ StatusStays  BY <1>4 DEF ReadEligible
  <2>4. \A s \in e : status'[s] = "pending"  BY <2>3 DEF Eligible
  <2>5. Learned(f)' /\ (Resumes(f)' => Resumes(f))
    BY <1>0, <2>2, <2>3, <2>4 DEF Learned, Alone, InJob, Resumes
  <2>6. Passes(f)  BY <1>0, <2>2 DEF Passes, Owns, Has, Adding, Holds, Retriable, InJob, Learned
  <2> HIDE DEF Goto, StatusStays
  <2> QED  BY <1>0, <2>1, <2>3, <2>5, <2>6, RoughWalk
<1>5. CASE MarkRunning(f) \/ AddJob(f) \/ AddFails(f) \/ RollbackFailures(f)
  BY <1>5, MarkRough, AddRough, AddFailsRough, RollbackRough
<1>6. CASE CheckTerminal(f) \/ CompleteRun(f)
  <2>1. PICK p \in {"terminal", "complete"}, q \in {"unlock", "complete"} : Goto(f, p, q, loc[f])
    BY <1>6 DEF CheckTerminal, CompleteRun
  <2>2. pc[f] = p /\ pc'[f] = q /\ loc'[f] = loc[f]  BY <1>0, <2>1 DEF Goto, TypeOK
  <2>3. StatusStays  BY <1>6 DEF CheckTerminal, CompleteRun
  <2>4. Learned(f)' /\ (Resumes(f)' => Resumes(f))  BY <1>0, <2>2 DEF Learned, InJob, Resumes
  <2>5. Passes(f)  BY <1>0, <2>2 DEF Passes, Owns, Has, Adding, Holds, Retriable, InJob, Learned
  <2> HIDE DEF Goto, StatusStays
  <2> QED  BY <1>0, <2>1, <2>3, <2>4, <2>5, RoughWalk
<1>7. CASE CompareLock(f)
  <2>1. CASE Finish(f, "unlock")  BY <1>0, <1>7, <2>1, RoughReturn DEF CompareLock
  <2>2. CASE Goto(f, "unlock", "release", loc[f])
    <3>1. pc[f] = "unlock" /\ pc'[f] = "release" /\ loc'[f] = loc[f]
      BY <1>0, <2>2 DEF Goto, TypeOK
    <3>2. Learned(f)' /\ (Resumes(f)' => Resumes(f))  BY <1>0, <3>1 DEF Learned, InJob, Resumes
    <3>3. Passes(f)  BY <1>0, <3>1 DEF Passes, Owns, Has, Adding, Holds, Retriable, InJob, Learned
    <3>4. StatusStays  BY <1>7 DEF CompareLock
    <3> HIDE DEF Goto, StatusStays
    <3> QED  BY <1>0, <2>2, <3>2, <3>3, <3>4, RoughWalk
  <2> QED  BY <1>7, <2>1, <2>2 DEF CompareLock
<1>8. CASE DeleteLock(f)  BY <1>0, <1>8, RoughReturn DEF DeleteLock
<1>9. CASE ReleaseFails(f)
  <2>1. PICK p \in {"unlock", "release"} : Finish(f, p)  BY <1>9 DEF ReleaseFails
  <2>2. StatusStays  BY <1>9 DEF ReleaseFails
  <2> HIDE DEF StatusStays, Finish
  <2> QED  BY <1>0, <2>1, <2>2, RoughReturn
<1> QED  BY <1>1, <1>2, <1>3, <1>4, <1>5, <1>6, <1>7, <1>8, <1>9 DEF EnqueuePendingSteps

-----------------------------------------------------------------------------
(* resumeRun.                                                              *)

LEMMA ReadStaleRough ==
  ASSUME Base, RoughInv, NEW f \in Fibers, ReadStale(f)
  PROVE  RoughInv'
<1>0. TypeOK /\ Learned(f) /\ StatusStays
  BY DEF Base, RoughInv, RoughMinds, ReadStale, StatusStays, database, redis
<1>1. CASE Return(f, "resume")
  <2> HIDE DEF StatusStays, Return
  <2> QED  BY <1>0, <1>1, RoughReturn
<1>2. CASE ~Return(f, "resume")
  <2> DEFINE l == [loc[f] EXCEPT !.todo = overdue]
  <2>1. PICK q \in {"lock", "reset"} : Goto(f, "resume", q, l)
    BY <1>2 DEF ReadStale
  <2>2. /\ pc[f] = "resume" /\ pc'[f] = q /\ loc'[f].op = loc[f].op /\ loc'[f].todo = overdue
        /\ loc'[f].failed = loc[f].failed /\ loc'[f].step = loc[f].step
    BY <1>0, <2>1 DEF Goto, TypeOK, Locals
  <2>3. Learned(f)' /\ (Resumes(f)' => Resumes(f))
    BY <1>0, <2>2 DEF Learned, InJob, StatusStays, Resumes
  <2>4. Passes(f)  BY <1>0, <2>2 DEF Passes, Owns, Has, Adding, Holds, Retriable, InJob, Learned
  <2> HIDE DEF Goto, StatusStays, l
  <2> QED  BY <1>0, <2>1, <2>3, <2>4, RoughWalk
<1> QED  BY <1>1, <1>2

\* What is reset was given up by everybody.
LEMMA ResetStaleRough ==
  ASSUME Base, RoughInv, NEW f \in Fibers, ResetStale(f)
  PROVE  RoughInv'
<1> DEFINE todo == loc[f].todo
           l == [loc[f] EXCEPT !.todo = {}]
<1>0. TypeOK /\ Learned(f) /\ overdue \subseteq Steps  BY DEF Base, RoughInv, RoughMinds, TypeOK
<1>1. /\ pc[f] = "reset" /\ pc'[f] = "lock" /\ loc'[f].op = loc[f].op
      /\ loc'[f].failed = loc[f].failed /\ loc'[f].step = loc[f].step
      /\ \A g \in Fibers \ {f} : pc'[g] = pc[g] /\ loc'[g] = loc[g]
      /\ Goto(f, "reset", "lock", l) /\ queue' = queue /\ overdue' = overdue \ todo
      /\ status' = [s \in Steps |-> IF s \in todo THEN "pending" ELSE status[s]]
  BY <1>0 DEF ResetStale, Goto, TypeOK, Locals, WriteStatus, redis
<1> HIDE DEF l
<1>2. /\ todo \subseteq overdue
      /\ \A s \in todo : status[s] = "running" /\ ~Waiting(s) /\ \A g \in Fibers : ~Owns(g, s)
  BY <1>0, <1>1 DEF Learned, RoughInv, RoughJobs, GivenUp
<1>3. ASSUME NEW g \in Fibers, NEW s \in Steps, Owns(g, s)'  PROVE Owns(g, s) /\ OwnedBy(g, status[s])'
  <2>1. g # f /\ Owns(g, s)
    BY <1>0, <1>1, <1>3 DEF Owns, Has, Adding, Holds, Retriable, InJob, Learned
  <2>2. OwnedBy(g, status[s]) /\ s \notin todo  BY <1>2, <2>1 DEF RoughInv, RoughJobs, OwnStatus
  <2> QED  BY <1>1, <2>1, <2>2 DEF OwnedBy
<1>4. RoughJobs'
  <2>1. \A s \in Steps : Waiting(s) => status'[s] # "pending"
    BY <1>1, <1>2 DEF RoughInv, RoughJobs, OwnStatus
  <2>2. \A s \in overdue' : s \in overdue /\ status'[s] = "running"
    BY <1>0, <1>1 DEF RoughInv, RoughJobs, GivenUp
  <2> QED  BY <1>0, <1>1, <1>3, <2>1, <2>2, JobsHold DEF RoughInv
<1>5. OthersKeep(f)
  <2>1. \A g \in Fibers \ {f} : pc[g] # "reset"
    BY <1>0, <1>1 DEF RoughInv, RoughMinds, Learned, OneResumes, Resumes
  <2>2. \A g \in Fibers : loc[g].todo \subseteq Steps  BY <1>0 DEF TypeOK, Locals
  <2> QED  BY <1>1, <2>1, <2>2 DEF OthersKeep
<1>6. Learned(f)' /\ (Resumes(f)' => Resumes(f))  BY <1>0, <1>1 DEF Learned, InJob, Resumes
<1>7. RoughMinds'
  <2> HIDE DEF Goto
  <2> QED  BY <1>0, <1>1, <1>5, <1>6, RoughMove DEF RoughInv
<1> QED  BY <1>4, <1>7 DEF RoughInv

-----------------------------------------------------------------------------
(* The jobs.                                                               *)

\* A fiber writes the status of a step whose job it has.
LEMMA OwnerWrites ==
  ASSUME TypeOK, RoughInv, NEW f \in Fibers, NEW s \in Steps, Holds(f, s), pc[f] # "context",
         NEW q \in {"context", "assess"}, NEW l, l.step = s, l.op = loc[f].op,
         l.failed = loc[f].failed, Goto(f, pc[f], q, l),
         NEW v, WriteStatus({s}, v), overdue' = overdue \ {s}, queue' = queue,
         v # "pending", q = "context" => v \notin Unmade
  PROVE  RoughInv'
<1>0. /\ status[s] # "pending" /\ s \notin overdue /\ ~Waiting(s) /\ overdue \subseteq Steps
      /\ \A g \in Fibers \ {f} : ~Owns(g, s)
      /\ Owns(f, s) /\ loc[f].failed = {} /\ Learned(f)
  <2>1. Owns(f, s)  BY DEF Owns, Has
  <2>2. Learned(f) /\ loc[f].failed = {}
    BY DEF Holds, InJob, RoughInv, RoughMinds, Learned
  <2> QED  BY <2>1, <2>2 DEF RoughInv, RoughJobs, OwnJob, OwnStatus, OwnedBy, GivenUp, Unmade, TypeOK
<1>1. /\ pc'[f] = q /\ loc'[f] = l /\ pc[f] # "idle"
      /\ \A g \in Fibers \ {f} : pc'[g] = pc[g] /\ loc'[g] = loc[g]
      /\ overdue' = overdue
      /\ status' = [t \in Steps |-> IF t = s THEN v ELSE status[t]]
  BY <1>0 DEF Goto, TypeOK, WriteStatus, Holds, InJob
<1>2. ASSUME NEW g \in Fibers, NEW t \in Steps, Owns(g, t)'  PROVE Owns(g, t) /\ OwnedBy(g, status[t])'
  <2>1. CASE g = f
    <3>1. t = s  BY <1>0, <1>1, <1>2, <2>1 DEF Owns, Has, Adding, Holds, Retriable
    <3> QED  BY <1>0, <1>1, <2>1, <3>1 DEF OwnedBy
  <2>2. CASE g # f
    <3>1. Owns(g, t) /\ t # s  BY <1>0, <1>1, <1>2, <2>2 DEF Owns, Has, Adding, Holds, Retriable
    <3>2. OwnedBy(g, status[t])  BY <3>1 DEF RoughInv, RoughJobs, OwnStatus
    <3> QED  BY <1>1, <2>2, <3>1, <3>2 DEF OwnedBy
  <2> QED  BY <2>1, <2>2
<1>3. RoughJobs'
  <2>1. \A t \in Steps : Waiting(t) => status'[t] # "pending"
    BY <1>0, <1>1 DEF RoughInv, RoughJobs, OwnStatus
  <2>2. \A t \in overdue' : t \in overdue /\ status'[t] = "running"
    BY <1>0, <1>1 DEF RoughInv, RoughJobs, GivenUp
  <2> QED  BY <1>0, <1>2, <2>1, <2>2, JobsHold DEF RoughInv
<1>4. OthersKeep(f)
  <2>1. \A g \in Fibers : loc[g].todo \subseteq Steps  BY DEF TypeOK, Locals
  <2> QED  BY <1>0, <1>1, <2>1 DEF OthersKeep
<1>5. Learned(f)' /\ (Resumes(f)' => Resumes(f))
  BY <1>0, <1>1 DEF Learned, InJob, Holds, Resumes
<1>6. RoughMinds'
  <2> HIDE DEF Goto
  <2> QED  BY <1>1, <1>4, <1>5, RoughMove DEF RoughInv
<1> QED  BY <1>3, <1>6 DEF RoughInv

LEMMA TakeRough ==
  ASSUME Base, RoughInv, NEW w \in Fibers, TakeJob(w)
  PROVE  RoughInv'
<1>1. PICK s \in Steps, a \in Attempts :
        /\ Goto(w, "idle", "execute", [Blank EXCEPT !.op = "job", !.step = s, !.att = a,
                                                    !.fresh = HasInputs(s)])
        /\ queue[s][a] > 0
        /\ queue' = [queue EXCEPT ![s][a] = @ - 1]
  BY DEF TakeJob
<1> DEFINE l == [Blank EXCEPT !.op = "job", !.step = s, !.att = a, !.fresh = HasInputs(s)]
<1>0. TypeOK /\ Waiting(s) /\ overdue \subseteq Steps  BY <1>1 DEF Base, Waiting, TypeOK
<1>2. /\ pc[w] = "idle" /\ pc'[w] = "execute" /\ loc'[w] = l
      /\ \A g \in Fibers \ {w} : pc'[g] = pc[g] /\ loc'[g] = loc[g]
  BY <1>0, <1>1 DEF Goto, TypeOK
<1>3. l.op = "job" /\ l.step = s /\ l.failed = {}  BY DEF Blank
<1> HIDE DEF l
<1>4. UNCHANGED <<status, overdue>>  BY DEF TakeJob, database
<1>5. /\ status[s] # "pending" /\ s \notin overdue
      /\ \A g \in Fibers : ~Owns(g, s)
  BY <1>0 DEF RoughInv, RoughJobs, OwnJob, OwnStatus, GivenUp
<1>6. \A t \in Steps \ {s} : queue'[t] = queue[t]
  BY <1>1
<1>7. \A b \in Attempts : queue'[s][b] = 0
  <2>1. queue[s] \in [Attempts -> Nat] /\ queue[s][a] = 1
    BY <1>0, <1>1 DEF TypeOK, RoughInv, RoughJobs, OwnJob
  <2>2. \A b \in Attempts \ {a} : queue[s][b] = 0
    BY <1>1, <2>1 DEF RoughInv, RoughJobs, OwnJob
  <2>3. queue'[s] = [queue[s] EXCEPT ![a] = queue[s][a] - 1]
    BY <1>0, <1>1 DEF TypeOK
  <2> QED  BY <2>1, <2>2, <2>3
<1>8. \A t \in Steps : Waiting(t)' <=> (t # s /\ Waiting(t))
  BY <1>6, <1>7 DEF Waiting
<1>9. \A g \in Fibers, t \in Steps :
        /\ Owns(g, t)' => (IF g = w THEN t = s ELSE Owns(g, t))
        /\ g # w => pc'[g] = pc[g]
  BY <1>2, <1>3 DEF Owns, Has, Adding, Holds, Retriable, InJob
<1>10. OwnJob'
  <2>1. \A t \in Steps, b, c \in Attempts :
          queue'[t][b] <= 1 /\ (queue'[t][b] > 0 /\ queue'[t][c] > 0 => b = c)
    BY <1>6, <1>7 DEF RoughInv, RoughJobs, OwnJob
  <2>2. \A t \in Steps, g \in Fibers : Owns(g, t)' => ~Waiting(t)'
    BY <1>8, <1>9, <1>5 DEF RoughInv, RoughJobs, OwnJob
  <2>3. \A t \in Steps, g, h \in Fibers : Owns(g, t)' /\ Owns(h, t)' => g = h
    BY <1>5, <1>9 DEF RoughInv, RoughJobs, OwnJob
  <2> QED  BY <2>1, <2>2, <2>3 DEF OwnJob
<1>11. OwnStatus'
  <2>1. ASSUME NEW g \in Fibers, NEW t \in Steps, Owns(g, t)'  PROVE OwnedBy(g, status[t])'
    <3>1. CASE g = w  BY <1>2, <1>4, <1>5, <1>9, <2>1, <3>1 DEF OwnedBy
    <3>2. CASE g # w
      <4>1. OwnedBy(g, status[t])  BY <1>9, <2>1, <3>2 DEF RoughInv, RoughJobs, OwnStatus
      <4> QED  BY <1>4, <1>9, <3>2, <4>1 DEF OwnedBy
    <3> QED  BY <3>1, <3>2
  <2> QED  BY <1>4, <1>8, <2>1 DEF RoughInv, RoughJobs, OwnStatus
<1>12. GivenUp'  BY <1>0, <1>4, <1>5, <1>8, <1>9 DEF RoughInv, RoughJobs, GivenUp
<1>13. NobodyAlone /\ ~Recovering
  BY <1>0, <1>5 DEF NobodyAlone, RoughInv, RoughMinds, Learned, Alone, Reruns, Recovery
<1>14. OthersKeep(w)  BY <1>4 DEF OthersKeep
<1>15. Learned(w)' /\ ~Resumes(w)'  BY <1>2, <1>3 DEF Learned, InJob, Resumes
<1>16. Goto(w, "idle", "execute", l)  BY <1>1 DEF l
<1>17. RoughMinds'
  <2> HIDE DEF Goto
  <2> QED  BY <1>0, <1>13, <1>14, <1>15, <1>16, RoughMove DEF RoughInv
<1> QED  BY <1>10, <1>11, <1>12, <1>17 DEF RoughInv, RoughJobs

LEMMA RethrowRough ==
  ASSUME Base, RoughInv, NEW w \in Fibers, Rethrow(w)
  PROVE  RoughInv'
<1>0. TypeOK /\ Goto(w, "rethrow", "idle", Blank) /\ pc[w] = "rethrow"
      /\ Learned(w) /\ loc[w].failed = {} /\ loc[w].step \in Steps
  BY DEF Base, RoughInv, RoughMinds, Learned, InJob, Rethrow, Return, Goto
<1>1. PICK s \in Steps : s = loc[w].step
  BY <1>0
<1>2. UNCHANGED <<status, overdue>>  BY DEF Rethrow, database
<1>3. Owns(w, s)  BY <1>0, <1>1 DEF Owns, Has, Holds, InJob
<1>4. /\ status[s] # "pending" /\ s \notin overdue /\ ~Waiting(s)
      /\ \A g \in Fibers \ {w} : ~Owns(g, s)
  BY <1>0, <1>3 DEF RoughInv, RoughJobs, OwnJob, OwnStatus, OwnedBy, GivenUp
<1>5. /\ pc'[w] = "idle" /\ loc'[w] = Blank
      /\ \A g \in Fibers \ {w} : pc'[g] = pc[g] /\ loc'[g] = loc[g]
  BY <1>0 DEF Goto, TypeOK
<1>6. \A g \in Fibers : Passes(g) /\ ~Owns(g, s)'
  BY <1>4, <1>5 DEF Passes, Owns, Has, Adding, Holds, Retriable, InJob, Blank
<1>7. RoughJobs'
  <2>1. CASE \E a \in Attempts : AddToQueue(s, a)
    BY <1>0, <1>2, <1>4, <1>6, <2>1, JobsGrow DEF RoughInv
  <2>2. CASE queue' = queue
    BY <1>0, <1>2, <1>6, <2>2, JobsStay DEF RoughInv, StatusStays
  <2> QED  BY <1>1, <2>1, <2>2 DEF Rethrow
<1>8. OthersKeep(w)  BY <1>2 DEF OthersKeep
<1>9. Learned(w)' /\ ~Resumes(w)'  BY <1>5 DEF Learned, InJob, Resumes, Blank
<1>10. RoughMinds'
  <2> HIDE DEF Goto
  <2> QED  BY <1>0, <1>8, <1>9, RoughMove DEF RoughInv
<1> QED  BY <1>7, <1>10 DEF RoughInv

LEMMA ProcessRough ==
  ASSUME Base, RoughInv, NEW w \in Workers, Process(w)
  PROVE  RoughInv'
<1> USE DEF redis, history, database
<1>0. /\ TypeOK /\ w \in Fibers /\ Learned(w) /\ loc[w] \in Locals
  BY DEF Base, RoughInv, RoughMinds, Fibers, TypeOK
<1>1. CASE TakeJob(w)  BY <1>0, <1>1, TakeRough
<1>2. CASE PersistResult(w)
  <2> DEFINE s == loc[w].step
             l == [loc[w] EXCEPT !.out = version[s] + 1]
  <2>1. s \in Steps /\ Holds(w, s) /\ pc[w] = "execute"
    BY <1>0, <1>2 DEF PersistResult, Goto, Learned, Holds, InJob
  <2>2. l.step = s /\ l.op = loc[w].op /\ l.failed = loc[w].failed  BY <1>0 DEF Locals
  <2>3. Goto(w, pc[w], "context", l)  BY <1>2, <2>1 DEF PersistResult
  <2>4. PICK v \in {"completed", "awaiting_approval"} : WriteStatus({s}, v)
    BY <1>2 DEF PersistResult
  <2>5. overdue' = overdue \ {s} /\ queue' = queue  BY <1>2 DEF PersistResult
  <2>6. v # "pending" /\ v \notin Unmade  BY DEF Unmade
  <2> HIDE DEF l, Goto, WriteStatus
  <2> QED  BY <1>0, <2>1, <2>2, <2>3, <2>4, <2>5, <2>6, OwnerWrites
<1>3. CASE MarkFailed(w)
  <2> DEFINE s == loc[w].step
  <2>1. s \in Steps /\ Holds(w, s) /\ pc[w] = "markFailed"
    BY <1>0, <1>3 DEF MarkFailed, Goto, Learned, Holds, InJob
  <2>2. Goto(w, pc[w], "assess", loc[w]) /\ WriteStatus({s}, "failed")
    BY <1>3, <2>1 DEF MarkFailed
  <2>3. overdue' = overdue \ {s} /\ queue' = queue  BY <1>3 DEF MarkFailed
  <2> HIDE DEF Goto, WriteStatus
  <2> QED  BY <1>0, <2>1, <2>2, <2>3, OwnerWrites
<1>4. CASE ExecutionFails(w) \/ StoreFails(w) \/ Catch(w) \/ AssessRun(w) \/ FailRun(w)
  <2>1. PICK p \in InJob, q \in InJob \ {"context"} : Goto(w, p, q, loc[w])
    BY <1>4 DEF ExecutionFails, StoreFails, Catch, AssessRun, FailRun, InJob
  <2>2. pc[w] = p /\ pc'[w] = q /\ loc'[w] = loc[w]  BY <1>0, <2>1 DEF Goto, TypeOK
  <2>3. StatusStays
    BY <1>4 DEF ExecutionFails, StoreFails, Catch, AssessRun, FailRun, StatusStays
  <2>4. Learned(w)' /\ (Resumes(w)' => Resumes(w))  BY <1>0, <2>1, <2>2 DEF Learned, InJob, Resumes
  <2>5. Passes(w)  BY <2>1, <2>2 DEF Passes, Owns, Has, Adding, Holds, Retriable, InJob
  <2>6. p # "idle" /\ q \notin {"boot", "orphans", "settle"}  BY DEF InJob
  <2> HIDE DEF Goto, StatusStays
  <2> QED  BY <1>0, <2>1, <2>3, <2>4, <2>5, <2>6, RoughWalk
<1>5. CASE StoreContext(w)
  <2>1. StatusStays  BY <1>5 DEF StoreContext, StatusStays
  <2>2. CASE Return(w, "context")
    <3> HIDE DEF StatusStays, Return
    <3> QED  BY <1>0, <2>1, <2>2, RoughReturn
  <2>3. CASE Goto(w, "context", "lock", loc[w])
    <3>1. pc[w] = "context" /\ pc'[w] = "lock" /\ loc'[w] = loc[w]
      BY <1>0, <2>3 DEF Goto, TypeOK
    <3>2. Learned(w)' /\ (Resumes(w)' => Resumes(w))  BY <1>0, <3>1 DEF Learned, InJob, Resumes
    <3>3. Passes(w)  BY <1>0, <3>1 DEF Passes, Owns, Has, Adding, Holds, Retriable, InJob
    <3> HIDE DEF Goto, StatusStays
    <3> QED  BY <1>0, <2>1, <2>3, <3>2, <3>3, RoughWalk
  <2> QED  BY <1>5, <2>2, <2>3 DEF StoreContext
<1>6. CASE Rethrow(w)  BY <1>0, <1>6, RethrowRough
<1> QED  BY <1>1, <1>2, <1>3, <1>4, <1>5, <1>6 DEF Process

-----------------------------------------------------------------------------
(* The requests, and what goes on without a fiber.                         *)

\* No fiber moves, and no status that somebody relies on is taken back.
LEMMA RoughStay ==
  ASSUME RoughMinds, UNCHANGED <<pc, loc, queue, reruns, runStatus>>, status' = status \/ NobodyAlone,
         overdue \subseteq overdue', \A g \in Fibers : loc[g].todo \subseteq Steps,
         \A s \in Steps : /\ status[s] = "running" => status'[s] = "running"
                          /\ status[s] = "pending" => status'[s] = "pending"
  PROVE  RoughMinds'
<1>1. \A g \in Fibers : Learned(g)'
  BY DEF RoughMinds, Learned, NobodyAlone, Alone, Reruns, Reset, Waiting
<1>2. Recovery'
  BY DEF RoughMinds, Recovery, Recovering, Waiting, Fibers
<1>3. OneResumes'  BY DEF RoughMinds, OneResumes, Resumes
<1> QED  BY <1>1, <1>2, <1>3 DEF RoughMinds

LEMMA RoughStill ==
  ASSUME TypeOK, RoughInv, UNCHANGED <<pc, loc, queue, status, overdue, reruns, runStatus>>
  PROVE  RoughInv'
<1>1. StatusStays  BY DEF StatusStays
<1>2. \A g \in Fibers : Passes(g)
  BY DEF Passes, Owns, Has, Adding, Holds, Retriable
<1>3. RoughJobs'  BY <1>1, <1>2, JobsStay DEF RoughInv
<1>4. \A g \in Fibers : loc[g].todo \subseteq Steps  BY DEF TypeOK, Locals
<1>5. RoughMinds'  BY <1>4, RoughStay DEF RoughInv
<1> QED  BY <1>3, <1>5 DEF RoughInv

LEMMA LoneClient ==
  ASSUME Rough, TypeOK, RoughInv, NEW c \in Clients, pc[c] = "idle", NEW g \in Fibers
  PROVE  pc[g] \notin {"snapshot", "cascade"}
<1> SUFFICES ASSUME pc[g] \in {"snapshot", "cascade"}  PROVE FALSE
  OBVIOUS
<1>1. g \in Clients /\ MaxReruns # 0
  BY DEF RoughInv, RoughMinds, Learned, Reruns, TypeOK
<1> QED  BY <1>1, EngineAssumption DEF Rough, OneRequester

\* A decision never makes a step pending, and leaves one that may be retried persisted.
LEMMA DecideRough ==
  ASSUME Rough, Base, RoughInv, NEW c \in Clients, pc[c] = "idle", NEW s \in Steps, Reviewable(s),
         NEW d \in {"approved", "revision_requested", "rejected"}, Decide(c, s, d),
         \A g \in Fibers : Passes(g)
  PROVE  /\ RoughJobs' /\ NobodyAlone /\ overdue' = overdue
         /\ \A t \in Steps : /\ status[t] = "running" => status'[t] = "running"
                             /\ status[t] = "pending" => status'[t] = "pending"
<1>0. TypeOK /\ overdue \subseteq Steps  BY DEF Base, TypeOK
<1>1. status[s] \in {"awaiting_approval", "completed"}
  BY DEF Rough, Decide, Reviewable
<1>2. queue' = queue  BY DEF Decide, redis
<1>3. s \notin overdue  BY <1>1 DEF RoughInv, RoughJobs, GivenUp
<1>4. overdue' = overdue /\ status' = [t \in Steps |-> IF t = s THEN d ELSE status[t]]
  BY <1>3 DEF Decide, WriteStatus
<1>5. ASSUME NEW g \in Fibers, NEW t \in Steps, Owns(g, t)'  PROVE Owns(g, t) /\ OwnedBy(g, status[t])'
  <2>1. Owns(g, t) /\ OwnedBy(g, status[t])  BY <1>5 DEF Passes, RoughInv, RoughJobs, OwnStatus
  <2>2. pc'[g] \in {"context", "lock"} => pc[g] \in {"context", "lock"}  BY <1>5 DEF Passes
  <2> QED  BY <1>4, <2>1, <2>2 DEF OwnedBy, Unmade
<1>6. RoughJobs'
  <2>1. \A t \in Steps : Waiting(t) => status'[t] # "pending"
    BY <1>4 DEF RoughInv, RoughJobs, OwnStatus
  <2>2. \A t \in overdue' : t \in overdue /\ status'[t] = "running"
    BY <1>0, <1>3, <1>4 DEF RoughInv, RoughJobs, GivenUp
  <2> QED  BY <1>0, <1>2, <1>5, <2>1, <2>2, JobsHold DEF RoughInv
<1>7. NobodyAlone
  BY <1>0, <1>1, LoneClient DEF NobodyAlone, RoughInv, RoughMinds, Learned, Alone
<1> QED  BY <1>1, <1>4, <1>6, <1>7

LEMMA ApproveRough ==
  ASSUME Rough, Base, RoughInv, NEW c \in Clients, Approve(c)
  PROVE  RoughInv'
<1> DEFINE l == [Blank EXCEPT !.op = "review", !.step = NoStep]
<1>1. PICK s \in Steps : Begin(c, "lock", "review", NoStep) /\ Decide(c, s, "approved")
  BY DEF Approve
<1>0. TypeOK /\ c \in Fibers /\ Reviewable(s)  BY <1>1 DEF Base, Decide, Fibers
<1>2. Goto(c, "idle", "lock", l) /\ ~Recovering
  BY <1>1, RequestsWait DEF Begin
<1>3. /\ pc[c] = "idle" /\ pc'[c] = "lock" /\ loc'[c] = l
      /\ \A g \in Fibers \ {c} : pc'[g] = pc[g] /\ loc'[g] = loc[g]
  BY <1>0, <1>2 DEF Goto, TypeOK
<1>4. \A g \in Fibers : Passes(g)
  BY <1>3 DEF Passes, Owns, Has, Adding, Holds, Retriable, InJob, Blank
<1>5. /\ RoughJobs' /\ NobodyAlone /\ overdue' = overdue
      /\ \A t \in Steps : status[t] = "pending" => status'[t] = "pending"
  <2> HIDE DEF Goto
  <2> QED  BY <1>0, <1>1, <1>3, <1>4, DecideRough
<1>6. OthersKeep(c)
  <2>1. \A g \in Fibers : loc[g].todo \subseteq Steps  BY <1>0 DEF TypeOK, Locals
  <2> QED  BY <1>5, <2>1 DEF OthersKeep
<1>7. Learned(c)' /\ ~Resumes(c)'  BY <1>3 DEF Learned, InJob, Resumes, Blank
<1>8. RoughMinds'
  <2> HIDE DEF Goto, l
  <2> QED  BY <1>0, <1>2, <1>5, <1>6, <1>7, RoughMove DEF RoughInv
<1> QED  BY <1>5, <1>8 DEF RoughInv

LEMMA ReplayRough ==
  ASSUME Rough, Base, RoughInv, NEW c \in Clients, Replay(c)
  PROVE  RoughInv'
<1>1. PICK s \in Steps :
        /\ Begin(c, "resolve", "replay", s) /\ AddToQueue(s, 0)
        /\ ~Live(s) /\ status[s] = "failed"
  BY DEF Replay, Rough
<1> DEFINE l == [Blank EXCEPT !.op = "replay", !.step = s]
<1>0. TypeOK /\ c \in Fibers /\ 0 \in Attempts  BY EngineAssumption DEF Base, Attempts, Fibers
<1>2. UNCHANGED <<status, overdue>>  BY DEF Replay, database
<1>3. Goto(c, "idle", "resolve", l) /\ ~Recovering
  BY <1>1, RequestsWait DEF Begin
<1>4. /\ pc[c] = "idle" /\ pc'[c] = "resolve" /\ loc'[c] = l
      /\ \A g \in Fibers \ {c} : pc'[g] = pc[g] /\ loc'[g] = loc[g]
  BY <1>0, <1>3 DEF Goto, TypeOK
<1>5. ~Waiting(s) /\ s \notin overdue /\ status[s] # "pending"
  BY <1>1 DEF Live, RoughInv, RoughJobs, GivenUp
<1>6. \A g \in Fibers : ~Owns(g, s)
  <2> SUFFICES ASSUME NEW g \in Fibers, Owns(g, s)  PROVE FALSE
    OBVIOUS
  <2>1. Retriable(g, s)  BY <1>1 DEF Live, Owns, Has, Adding, Holds
  <2>2. OwnedBy(g, status[s])  BY DEF RoughInv, RoughJobs, OwnStatus
  <2> QED  BY <1>1, <2>1, <2>2 DEF Retriable, OwnedBy, Unmade
<1>7. \A g \in Fibers : Passes(g) /\ ~Owns(g, s)'
  BY <1>4, <1>6 DEF Passes, Owns, Has, Adding, Holds, Retriable, InJob, Blank
<1>8. RoughJobs'  BY <1>0, <1>1, <1>2, <1>5, <1>7, JobsGrow DEF RoughInv
<1>9. OthersKeep(c)  BY <1>2 DEF OthersKeep
<1>10. NobodyAlone
  BY <1>0, <1>1, <1>4, LoneClient DEF NobodyAlone, RoughInv, RoughMinds, Learned, Alone
<1>11. Learned(c)' /\ ~Resumes(c)'  BY <1>4 DEF Learned, InJob, Resumes, Blank
<1>12. RoughMinds'
  <2> HIDE DEF Goto, l
  <2> QED  BY <1>0, <1>3, <1>9, <1>10, <1>11, RoughMove DEF RoughInv
<1> QED  BY <1>8, <1>12 DEF RoughInv

LEMMA RequestRerunRough ==
  ASSUME Rough, Base, RoughInv, NEW c \in Clients, RequestRerun(c)
  PROVE  RoughInv'
<1>1. PICK s \in Steps :
        /\ Begin(c, "snapshot", "rerun", s) /\ Quiet /\ \A t \in Steps : ~Waiting(t)
        /\ status[s] \notin {"approved", "pending", "running"} /\ reruns' = reruns + 1
  BY DEF RequestRerun, Rough
<1> DEFINE l == [Blank EXCEPT !.op = "rerun", !.step = s]
<1>0. /\ TypeOK /\ c \in Fibers /\ NobodyAlone /\ ~Recovering
      /\ StatusStays /\ UNCHANGED <<queue, status>>
  BY <1>1 DEF Base, Fibers, Quiet, NobodyAlone, Recovering, StatusStays, RequestRerun, database, redis
<1>2. Goto(c, "idle", "snapshot", l)  BY <1>1 DEF Begin
<1>3. /\ pc'[c] = "snapshot" /\ loc'[c] = l /\ l.op = "rerun" /\ l.step = s /\ l.failed = {}
      /\ \A g \in Fibers \ {c} : pc'[g] = "idle"
  BY <1>0, <1>1, <1>2 DEF Goto, TypeOK, Quiet, Blank
<1>4. Reruns(c)'
  BY <1>0, <1>1, <1>3 DEF Reruns, Active, Waiting, TypeOK
<1>5. Learned(c)' /\ ~Resumes(c)' /\ Passes(c)
  BY <1>3, <1>4 DEF Learned, InJob, Resumes, Passes, Owns, Has, Adding, Holds, Retriable
<1> HIDE DEF Goto, StatusStays, l
<1> QED  BY <1>0, <1>2, <1>5, RoughWalk

LEMMA ReadCascadeRough ==
  ASSUME Base, RoughInv, NEW c \in Clients, ReadCascade(c)
  PROVE  RoughInv'
<1> DEFINE l == [loc[c] EXCEPT !.todo = Reset(loc[c].step)]
<1>0. /\ TypeOK /\ c \in Fibers /\ Goto(c, "snapshot", "cascade", l) /\ StatusStays
      /\ UNCHANGED <<queue, status, reruns>>
  BY DEF Base, Fibers, ReadCascade, Reset, StatusStays, database, redis, history
<1>1. /\ pc[c] = "snapshot" /\ pc'[c] = "cascade" /\ loc'[c].op = loc[c].op
      /\ loc'[c].step = loc[c].step /\ loc'[c].failed = loc[c].failed
      /\ loc'[c].todo = Reset(loc[c].step)
      /\ \A g \in Fibers \ {c} : pc'[g] = pc[g]
  BY <1>0 DEF Goto, TypeOK, Locals
<1>2. Learned(c) /\ Reruns(c) /\ loc[c].failed = {}
  BY <1>0, <1>1 DEF RoughInv, RoughMinds, Learned
<1>3. Reruns(c)'
  BY <1>0, <1>1, <1>2 DEF Reruns, Reset, Waiting
<1>4. Learned(c)' /\ (Resumes(c)' => Resumes(c)) /\ Passes(c)
  BY <1>1, <1>2, <1>3 DEF Learned, InJob, Resumes, Passes, Owns, Has, Adding, Holds, Retriable
<1> HIDE DEF Goto, StatusStays, l
<1> QED  BY <1>0, <1>4, RoughWalk

LEMMA CascadeRough ==
  ASSUME Base, RoughInv, NEW c \in Clients, CascadeReset(c)
  PROVE  RoughInv'
<1>0. TypeOK /\ c \in Fibers /\ Boot \in Fibers \ {c} /\ overdue \subseteq Steps
  BY EngineAssumption DEF Base, Fibers, TypeOK
<1>1. /\ pc[c] = "cascade" /\ pc'[c] = "lock"
      /\ loc'[c].op = loc[c].op /\ loc'[c].failed = loc[c].failed
      /\ \A g \in Fibers \ {c} : pc'[g] = pc[g] /\ loc'[g] = loc[g]
      /\ queue' = queue /\ overdue' = overdue \ loc[c].todo
      /\ status' = [t \in Steps |-> IF t \in loc[c].todo THEN "pending" ELSE status[t]]
  BY <1>0 DEF CascadeReset, Goto, TypeOK, Locals, WriteStatus, redis
<1>2. Learned(c) /\ Reruns(c) /\ loc[c].failed = {} /\ loc[c].op = "rerun"
  BY <1>0, <1>1 DEF RoughInv, RoughMinds, Learned, Reruns
<1>3. \A g \in Fibers : pc'[g] = IF g = c THEN "lock" ELSE "idle"
  BY <1>1, <1>2 DEF Reruns
<1>4. \A g \in Fibers : Learned(g)'
  BY <1>1, <1>2, <1>3 DEF RoughInv, RoughMinds, Learned, InJob
<1>5. \A g \in Fibers, t \in Steps : ~Owns(g, t)'
  <2>1. \A g \in Fibers : loc'[g].failed = {}  BY <1>3, <1>4 DEF Learned
  <2> QED  BY <1>1, <1>2, <1>3, <2>1 DEF Owns, Has, Adding, Holds, Retriable, InJob
<1>6. RoughJobs'
  <2>1. \A t \in Steps : ~Waiting(t)  BY <1>2 DEF Reruns
  <2>2. \A t \in overdue' : t \in overdue /\ status'[t] = "running"
    BY <1>0, <1>1 DEF RoughInv, RoughJobs, GivenUp
  <2> QED  BY <1>0, <1>1, <1>5, <2>1, <2>2, JobsHold DEF RoughInv
<1>7. RoughMinds'
  <2>1. Recovery'  BY <1>0, <1>3 DEF Recovery, Recovering
  <2>2. OneResumes'  BY <1>1 DEF RoughInv, RoughMinds, OneResumes, Resumes
  <2> QED  BY <1>4, <2>1, <2>2 DEF RoughMinds
<1> QED  BY <1>6, <1>7 DEF RoughInv

LEMMA RequestRough ==
  ASSUME Rough, Base, RoughInv, NEW c \in Clients, Request(c)
  PROVE  RoughInv'
<1> USE DEF redis, history, database
<1>0. TypeOK /\ c \in Fibers /\ Learned(c) /\ \A g \in Fibers : loc[g].todo \subseteq Steps
  BY DEF Base, RoughInv, RoughMinds, Fibers, TypeOK, Locals
<1>1. CASE StartRun(c)
  <2>1. Begin(c, "lock", "start", NoStep) /\ Quiet  BY <1>1 DEF StartRun, Rough
  <2>2. NobodyAlone  BY <2>1 DEF Quiet, NobodyAlone
  <2>3. StatusStays  BY <1>1 DEF StartRun, StatusStays
  <2> HIDE DEF StatusStays, Begin
  <2> QED  BY <1>0, <2>1, <2>2, <2>3, RoughBegin
<1>2. CASE UndoStart(c) \/ ResolveEntry(c)
  <2>1. PICK p \in {"undo", "resolve"} : Return(c, p)  BY <1>2 DEF UndoStart, ResolveEntry
  <2>2. StatusStays  BY <1>2 DEF UndoStart, ResolveEntry, StatusStays
  <2> HIDE DEF StatusStays, Return
  <2> QED  BY <1>0, <2>1, <2>2, RoughReturn
<1>3. CASE RequestResume(c)
  <2>1. Begin(c, "resume", "resume", NoStep) /\ \A g \in Fibers : ~Resumes(g)
    BY <1>3 DEF RequestResume, Undisturbed, Rough, Resumes
  <2>2. NobodyAlone
    BY <1>3, <2>1 DEF RequestResume, Undisturbed, Rough, NobodyAlone, Resumes, RoughInv, RoughMinds,
       Learned, Reruns
  <2>3. StatusStays  BY <1>3 DEF RequestResume, StatusStays
  <2> HIDE DEF StatusStays, Begin
  <2> QED  BY <1>0, <2>1, <2>2, <2>3, RoughBegin
<1>4. CASE Approve(c)  BY <1>0, <1>4, ApproveRough
<1>5. CASE Decline(c)
  <2>1. PICK s \in Steps, d \in {"revision_requested", "rejected"} :
          UNCHANGED <<pc, loc>> /\ Decide(c, s, d) /\ pc[c] = "idle"
    BY <1>5 DEF Decline
  <2>2. Reviewable(s) /\ UNCHANGED <<queue, reruns, runStatus>>
    BY <2>1 DEF Decide
  <2>3. \A g \in Fibers : Passes(g)
    BY <2>1 DEF Passes, Owns, Has, Adding, Holds, Retriable
  <2>4. /\ RoughJobs' /\ NobodyAlone /\ overdue' = overdue
        /\ \A t \in Steps : /\ status[t] = "running" => status'[t] = "running"
                            /\ status[t] = "pending" => status'[t] = "pending"
    BY <2>1, <2>2, <2>3, DecideRough
  <2>5. RoughMinds'  BY <1>0, <2>1, <2>2, <2>4, RoughStay DEF RoughInv
  <2> QED  BY <2>4, <2>5 DEF RoughInv
<1>6. CASE RequestRerun(c) \/ ReadCascade(c) \/ CascadeReset(c)
  BY <1>6, RequestRerunRough, ReadCascadeRough, CascadeRough
<1>7. CASE Replay(c)  BY <1>7, ReplayRough
<1>8. CASE Dismiss(c)
  BY <1>0, <1>8, RoughStill DEF Dismiss
<1> QED  BY <1>1, <1>2, <1>3, <1>4, <1>5, <1>6, <1>7, <1>8 DEF Request

LEMMA WatchdogRough ==
  ASSUME Rough, Base, RoughInv, Watchdog
  PROVE  RoughInv'
<1>0. /\ TypeOK /\ Cron \in Fibers /\ StatusStays /\ runStatus' = runStatus
      /\ \A g \in Fibers : ~Resumes(g)
  BY DEF Base, Fibers, Watchdog, StatusStays, Undisturbed, Rough, Resumes, database, redis
<1>1. NobodyAlone
  BY <1>0 DEF NobodyAlone, Resumes, Watchdog, Undisturbed, Rough, RoughInv, RoughMinds, Learned, Reruns
<1>2. CASE Begin(Cron, "resume", "resume", NoStep)
  <2> HIDE DEF StatusStays, Begin
  <2> QED  BY <1>0, <1>1, <1>2, RoughBegin
<1>3. CASE ~Begin(Cron, "resume", "resume", NoStep)
  <2> DEFINE l == [Blank EXCEPT !.op = "enqueue", !.step = NoStep]
  <2>1. /\ Goto(Cron, "idle", "read", l) /\ ~Recovering
        /\ Quiet /\ runStatus = "running" /\ \A s \in Steps : status[s] = "pending"
    BY <1>3 DEF Watchdog, Begin, Rough, Recovering
  <2>2. /\ pc'[Cron] = "read" /\ loc'[Cron] = l
        /\ \A g \in Fibers \ {Cron} : pc'[g] = "idle"
    BY <1>0, <2>1 DEF Goto, TypeOK, Quiet
  <2>3. Learned(Cron)'  BY <1>0, <2>1, <2>2 DEF Learned, Alone, InJob, StatusStays, Blank
  <2>4. Passes(Cron)  BY <2>2 DEF Passes, Owns, Has, Adding, Holds, Retriable, InJob, Blank
  <2> HIDE DEF Goto, StatusStays, l
  <2> QED  BY <1>0, <1>1, <2>1, <2>3, <2>4, RoughWalk
<1> QED  BY <1>2, <1>3

LEMMA ThresholdRough ==
  ASSUME Rough, Base, RoughInv, PassThreshold
  PROVE  RoughInv'
<1>0. overdue \subseteq Steps /\ \A g \in Fibers : loc[g].todo \subseteq Steps
  BY DEF Base, TypeOK, Locals
<1>1. PICK s \in Steps : status[s] = "running" /\ ~Live(s) /\ overdue' = overdue \cup {s}
  BY DEF PassThreshold, Rough
<1>2. UNCHANGED <<status, queue, pc, loc, reruns, runStatus>>
  BY DEF PassThreshold, redis, history
<1>3. \A t \in Steps : Waiting(t)' <=> Waiting(t)  BY <1>2 DEF Waiting
<1>4. \A g \in Fibers, t \in Steps : Owns(g, t)' <=> Owns(g, t)
  BY <1>2 DEF Owns, Has, Adding, Holds, Retriable
<1>5. OwnJob' /\ OwnStatus'
  BY <1>2, <1>3, <1>4 DEF RoughInv, RoughJobs, OwnJob, OwnStatus, OwnedBy
<1>6. ~Waiting(s) /\ \A g \in Fibers : ~Owns(g, s)
  <2>1. ~Waiting(s) /\ \A g \in Fibers : Owns(g, s) => Retriable(g, s)
    BY <1>1 DEF Live, Owns, Has, Adding, Holds
  <2>2. \A g \in Fibers : ~Retriable(g, s)
    BY <1>1 DEF RoughInv, RoughJobs, OwnStatus, OwnedBy, Retriable, Owns, Unmade
  <2> QED  BY <2>1, <2>2
<1>7. GivenUp'
  BY <1>0, <1>1, <1>2, <1>3, <1>4, <1>6 DEF RoughInv, RoughJobs, GivenUp
<1>8. RoughMinds'  BY <1>0, <1>1, <1>2, RoughStay DEF RoughInv
<1> QED  BY <1>5, <1>7, <1>8 DEF RoughInv, RoughJobs

-----------------------------------------------------------------------------
(* Crash and restart.                                                      *)

LEMMA BootRough ==
  ASSUME TypeOK, RoughInv, NEW p \in {"boot", "orphans"}, NEW q \in {"orphans", "settle"}, NEW l,
         Goto(Boot, p, q, l), l.failed = {}, l.op \in {"resume", "enqueue"} => Resumes(Boot),
         queue' = queue, \A s \in overdue' : s \in overdue /\ status'[s] = "running",
         q = "orphans" => \A s \in l.todo : status'[s] = "running"
  PROVE  RoughInv'
<1>0. Boot \in Fibers /\ overdue \subseteq Steps  BY DEF Fibers, TypeOK
<1>1. /\ pc[Boot] = p /\ pc'[Boot] = q /\ loc'[Boot] = l
      /\ \A g \in Fibers \ {Boot} : pc'[g] = pc[g] /\ loc'[g] = loc[g]
  BY <1>0 DEF Goto, TypeOK
<1>2. (\A g \in Fibers \ {Boot} : pc[g] = "idle") /\ \A s \in Steps : ~Waiting(s)
  BY <1>1 DEF RoughInv, RoughMinds, Recovery, Recovering
<1>3. \A g \in Fibers : loc'[g].failed = {}
  BY <1>1, <1>2 DEF RoughInv, RoughMinds, Learned
<1>4. \A g \in Fibers, s \in Steps : ~Owns(g, s)'
  BY <1>1, <1>2, <1>3 DEF Owns, Has, Adding, Holds, Retriable, InJob
<1>5. RoughJobs'  BY <1>0, <1>2, <1>4, JobsHold DEF RoughInv
<1>6. \A g \in Fibers : Learned(g)'
  BY <1>1, <1>2, <1>3 DEF RoughInv, RoughMinds, Learned, InJob
<1>7. Recovery'  BY <1>1, <1>2 DEF Recovery, Recovering, Waiting
<1>8. OneResumes'  BY <1>1 DEF RoughInv, RoughMinds, OneResumes, Resumes
<1> QED  BY <1>5, <1>6, <1>7, <1>8 DEF RoughInv, RoughMinds

LEMMA RecoverRough ==
  ASSUME Rough, Base, RoughInv, Recover
  PROVE  RoughInv'
<1> USE DEF redis, history, database
<1>0. /\ TypeOK /\ Boot \in Fibers /\ Learned(Boot) /\ loc[Boot] \in Locals /\ overdue \subseteq Steps
  BY DEF Base, RoughInv, RoughMinds, Fibers, TypeOK
<1>1. CASE Crash
  <2>1. /\ \A s \in Steps : ~Waiting(s)
        /\ \A g \in Fibers : pc'[g] = (IF g = Boot THEN "boot" ELSE "idle") /\ loc'[g] = Blank
        /\ UNCHANGED <<status, overdue, queue>>
    BY <1>1 DEF Crash, Rough
  <2>2. \A g \in Fibers, s \in Steps : ~Owns(g, s)'
    BY <2>1 DEF Owns, Has, Adding, Holds, Retriable, InJob, Blank
  <2>3. RoughJobs'
    <3>1. \A s \in overdue' : s \in overdue /\ status'[s] = "running"
      BY <2>1 DEF RoughInv, RoughJobs, GivenUp
    <3> QED  BY <1>0, <2>1, <2>2, <3>1, JobsHold DEF RoughInv
  <2>4. \A g \in Fibers : Learned(g)'  BY <2>1 DEF Learned, InJob, Blank
  <2>5. Recovery'  BY <1>0, <2>1 DEF Recovery, Waiting
  <2>6. OneResumes'  BY <2>1 DEF OneResumes, Resumes, Blank
  <2> QED  BY <2>3, <2>4, <2>5, <2>6 DEF RoughInv, RoughMinds
<1>2. CASE Deploy  BY <1>2 DEF Deploy, Rough
<1>3. CASE ReadRun
  <2> DEFINE l == [Blank EXCEPT !.op = Verdict, !.todo = {s \in Steps : status[s] = "running"}]
  <2>1. StatusStays  BY <1>3 DEF ReadRun, StatusStays
  <2>2. CASE Return(Boot, "boot")
    <3> HIDE DEF StatusStays, Return
    <3> QED  BY <1>0, <2>1, <2>2, RoughReturn
  <2>3. CASE ~Return(Boot, "boot")
    <3>1. PICK q \in {"orphans", "settle"} : Goto(Boot, "boot", q, l)
      BY <1>3, <2>3 DEF ReadRun
    <3>2. /\ l.failed = {} /\ l.op \notin {"resume", "enqueue"}
          /\ l.todo = {s \in Steps : status[s] = "running"}
      BY DEF Blank, Verdict
    <3>3. /\ \A s \in overdue' : s \in overdue /\ status'[s] = "running"
          /\ \A s \in l.todo : status'[s] = "running"
          /\ queue' = queue
      BY <2>1, <3>2 DEF StatusStays, RoughInv, RoughJobs, GivenUp
    <3> HIDE DEF Goto, l, StatusStays
    <3> QED  BY <1>0, <3>1, <3>2, <3>3, BootRough
  <2> QED  BY <2>2, <2>3
<1>4. CASE ResetOrphans
  <2> DEFINE l == [loc[Boot] EXCEPT !.todo = {}]
  <2>1. /\ Goto(Boot, "orphans", "settle", l) /\ pc[Boot] = "orphans"
        /\ queue' = queue /\ overdue' = overdue \ loc[Boot].todo
        /\ status' = [s \in Steps |-> IF s \in loc[Boot].todo THEN "pending" ELSE status[s]]
    BY <1>4 DEF ResetOrphans, WriteStatus, Goto
  <2>2. l.failed = {} /\ l.op = loc[Boot].op  BY <1>0, <2>1 DEF Locals, Learned
  <2>3. \A s \in overdue' : s \in overdue /\ status'[s] = "running"
    BY <1>0, <2>1 DEF RoughInv, RoughJobs, GivenUp
  <2> HIDE DEF Goto, l
  <2> QED  BY <1>0, <2>1, <2>2, <2>3, BootRough DEF Resumes
<1>5. CASE Settle
  <2>1. StatusStays  BY <1>5 DEF Settle, StatusStays
  <2>2. CASE Return(Boot, "settle")
    <3> HIDE DEF StatusStays, Return
    <3> QED  BY <1>0, <2>1, <2>2, RoughReturn
  <2>3. CASE loc[Boot].op = "recover" /\ Goto(Boot, "settle", "lock", loc[Boot])
    <3>1. pc[Boot] = "settle" /\ pc'[Boot] = "lock" /\ loc'[Boot] = loc[Boot]
      BY <1>0, <2>3 DEF Goto, TypeOK
    <3>2. Learned(Boot)' /\ (Resumes(Boot)' => Resumes(Boot))
      BY <1>0, <2>3, <3>1 DEF Learned, InJob, Resumes
    <3>3. Passes(Boot)
      BY <1>0, <2>3, <3>1 DEF Passes, Owns, Has, Adding, Holds, Retriable, InJob, Learned
    <3> HIDE DEF Goto, StatusStays
    <3> QED  BY <1>0, <2>1, <2>3, <3>2, <3>3, RoughWalk
  <2> QED  BY <1>5, <2>2, <2>3 DEF Settle
<1> QED  BY <1>1, <1>2, <1>3, <1>4, <1>5 DEF Recover

-----------------------------------------------------------------------------

LEMMA RoughInductive ==
  ASSUME Rough, Base, RoughInv, Next
  PROVE  RoughInv'
<1>1. ASSUME NEW f \in Fibers, ReadStale(f) \/ ResetStale(f)  PROVE RoughInv'
  BY <1>1, ReadStaleRough, ResetStaleRough
<1>2. CASE ExpireLock
  <2>1. UNCHANGED <<pc, loc, queue, status, overdue, reruns, runStatus>>
    BY <1>2 DEF ExpireLock, database, history
  <2> QED  BY <2>1, RoughStill DEF Base
<1> QED
  BY <1>1, <1>2, EnqueueRough, ProcessRough, RequestRough, ThresholdRough, WatchdogRough, RecoverRough
  DEF Next

LEMMA RoughInvariant ==
  ASSUME Rough
  PROVE  Spec => [](Base /\ RoughInv)
<1>1. Init => LockInv /\ RoughInv
  <2> SUFFICES ASSUME Init  PROVE LockInv /\ RoughInv
    OBVIOUS
  <2>1. /\ \A f \in Fibers : pc[f] = "idle" /\ loc[f] = Blank
        /\ \A s \in Steps : ~Waiting(s)
    BY DEF Init, Waiting
  <2>2. \A f \in Fibers, s \in Steps : ~Owns(f, s)
    BY <2>1 DEF Owns, Has, Adding, Holds, Retriable, InJob, Blank
  <2>3. OwnJob /\ OwnStatus /\ GivenUp  BY <2>1, <2>2 DEF Init, OwnJob, OwnStatus, GivenUp
  <2>4. \A f \in Fibers : Learned(f)  BY <2>1 DEF Learned, InJob, Blank
  <2>5. Recovery /\ OneResumes /\ LockInv
    BY <2>1 DEF Recovery, Recovering, OneResumes, Resumes, Blank, Fibers, Init, LockInv, InSection
  <2> QED  BY <2>3, <2>4, <2>5 DEF RoughInv, RoughJobs, RoughMinds
<1>2. TypeOK /\ StepIsGiven /\ LockInv /\ RoughInv /\ [Next]_vars => LockInv' /\ RoughInv'
  <2> SUFFICES ASSUME TypeOK, StepIsGiven, LockInv, RoughInv, [Next]_vars
               PROVE  LockInv' /\ RoughInv'
    OBVIOUS
  <2>1. Base /\ "ttl" \notin Faults  BY DEF Base, Rough
  <2>2. CASE Next
    BY <2>1, <2>2, RoughInductive, EnqueueKeepsLock, OthersKeepLock
  <2>3. CASE UNCHANGED vars
    <3>1. RoughInv'  BY <2>3, RoughStill DEF vars, database, redis, history
    <3>2. LockInv'  BY <2>3 DEF vars, redis, LockInv, InSection
    <3> QED  BY <3>1, <3>2
  <2> QED  BY <2>2, <2>3
<1>3. TypeOK /\ StepIsGiven /\ LockInv => Base  BY DEF Base
<1> QED  BY <1>1, <1>2, <1>3, TypeInvariant, PTL DEF Spec

LEMMA OneJobCounted == Base /\ RoughInv => OneJobPerStep
<1> SUFFICES ASSUME Base, RoughInv, NEW s \in Steps
             PROVE  /\ Cardinality(Working(s)) <= 1
                    /\ \A a \in Attempts : queue[s][a] <= 1
                    /\ \A a, b \in Attempts : queue[s][a] > 0 /\ queue[s][b] > 0 => a = b
                    /\ Waiting(s) => Working(s) = {}
  BY DEF OneJobPerStep
<1>1. \A w \in Working(s) : w \in Fibers /\ Owns(w, s)
  BY DEF Working, Owns, Has, Holds, Fibers
<1>2. Waiting(s) => Working(s) = {}
  BY <1>1 DEF RoughInv, RoughJobs, OwnJob
<1>3. \A v, w \in Working(s) : v = w
  BY <1>1 DEF RoughInv, RoughJobs, OwnJob
<1>4. Cardinality(Working(s)) <= 1
  <2>1. CASE Working(s) = {}
    BY <2>1, FS_EmptySet
  <2>2. CASE Working(s) # {}
    <3>1. PICK w : Working(s) = {w}  BY <1>3, <2>2
    <3>2. Cardinality({w}) = 1  BY FS_Singleton
    <3> QED  BY <3>1, <3>2
  <2> QED  BY <2>1, <2>2
<1> QED  BY <1>2, <1>4 DEF RoughInv, RoughJobs, OwnJob

\* However executions and Redis commands fail, contexts are lost, servers crash, limits pass,
\* workers retry, the watchdog and resume requests recover and administrators replay, a step has
\* never two jobs, waiting or executed: the lock, the commit of the status before the job is added,
\* the reset of only those steps whose job could not be added and the 35 minutes see to it.
THEOREM JobsAreSingle == Rough => (Spec => []OneJobPerStep)
<1> SUFFICES ASSUME Rough  PROVE Spec => []OneJobPerStep
  OBVIOUS
<1> QED  BY RoughInvariant, OneJobCounted, PTL

-----------------------------------------------------------------------------
(* Starting a run, and taking the start back.                              *)

\* One requester at a time, on one instance of the server, with the 5 and 35 minutes kept and a
\* start asked for a draft only.  Anything else may fail: executions, Redis, stores, the lock.
Orderly == OneRequester /\ Faults \cap {"slow", "rolling", "anyStart"} = {}

Enqueuing == {"lock", "read", "mark", "add", "rollback", "terminal", "complete", "unlock", "release"}
Added     == {"add", "rollback", "unlock", "release"}

\* Where an operation that starts a run, or that has added a job, can stand.
Course(f) ==
  /\ loc[f].some => pc[f] \in Added
  /\ loc[f].op = "start" => f \in Clients /\ pc[f] \in Enqueuing \cup {"undo"}
  /\ pc[f] = "undo" => loc[f].op = "start"

\* f starts the run and has not got any job into the queue yet.
Begun(f) == loc[f].op = "start" /\ ~loc[f].some

Untouched ==
  /\ overdue = {}
  /\ \A s \in Steps : ~Waiting(s) /\ version[s] = 0 /\ dlq[s] = 0

\* Until then nothing else can happen: a step that is not pending is about to get its job, or to
\* be set back because it did not.
StartsAlone(f) ==
  /\ Untouched /\ \A g \in Fibers \ {f} : pc[g] = "idle"
  /\ runStatus = "running" \/ Steps = {}
  /\ pc[f] = "complete" => Steps = {}
  /\ pc[f] = "rollback" => loc[f].todo = {}
  /\ \A s \in Steps : status[s] # "pending" =>
       status[s] = "running" /\ pc[f] \in {"add", "rollback"} /\ s \in loc[f].todo \cup loc[f].failed

DraftUntouched == runStatus = "draft" =>
  /\ Untouched /\ \A s \in Steps : status[s] = "pending"
  /\ \A f \in Fibers : pc[f] = "idle" \/ (f = Boot /\ pc[f] = "boot")

StartInv ==
  /\ \A f \in Fibers : Course(f) /\ (Begun(f) => StartsAlone(f))
  /\ DraftUntouched

LEMMA Moves ==
  ASSUME TypeOK, NEW f \in Fibers, NEW p, NEW q, NEW l, Goto(f, p, q, l)
  PROVE  /\ pc[f] = p /\ pc'[f] = q /\ loc'[f] = l
         /\ \A g \in Fibers \ {f} : pc'[g] = pc[g] /\ loc'[g] = loc[g]
BY DEF Goto, TypeOK

\* Operations keep to their course, and only StartRun begins to start.
Kept == \A f \in Fibers : Course(f)' /\ (Begun(f)' => Begun(f) \/ StartRun(f))

LEMMA CourseMoves ==
  ASSUME TypeOK, \A f \in Fibers : Course(f), NEW g \in Fibers, NEW p, NEW q, NEW l, Goto(g, p, q, l),
         l.some => q \in Added,
         l.op = "start" =>
           g \in Clients /\ q \in Enqueuing \cup {"undo"} /\ (l.some \/ Begun(g) \/ StartRun(g)),
         q = "undo" => l.op = "start"
  PROVE  Kept
BY Moves DEF Kept, Course, Begun

LEMMA CourseEnds ==
  ASSUME TypeOK, \A f \in Fibers : Course(f), NEW g \in Fibers, NEW p, Return(g, p)
  PROVE  Kept
<1>1. Goto(g, p, "idle", Blank)  BY DEF Return
<1>2. ~Blank.some /\ Blank.op # "start"  BY DEF Blank
<1> HIDE DEF Goto
<1> QED  BY <1>1, <1>2, CourseMoves

LEMMA CourseBegins ==
  ASSUME TypeOK, \A f \in Fibers : Course(f), NEW g \in Fibers, NEW q, NEW o, NEW s, Begin(g, q, o, s),
         o # "start" \/ (StartRun(g) /\ g \in Clients /\ q = "lock"), q # "undo"
  PROVE  Kept
<1> DEFINE l == [Blank EXCEPT !.op = o, !.step = s]
<1>1. Goto(g, "idle", q, l)  BY DEF Begin
<1>2. ~l.some /\ l.op = o  BY DEF Blank
<1> HIDE DEF Goto, l
<1> QED  BY <1>1, <1>2, CourseMoves DEF Enqueuing

LEMMA CourseGoes ==
  ASSUME TypeOK, \A f \in Fibers : Course(f), NEW g \in Fibers, NEW p, NEW q, NEW l, Goto(g, p, q, l),
         l.op = loc[g].op, l.some = loc[g].some,
         q \in Enqueuing \/ p \notin Enqueuing \/ loc[g].op # "start", p # "undo", q # "undo",
         loc[g].some /\ p \in Added => q \in Added
  PROVE  Kept
<1>1. pc[g] = p  BY Moves
<1>2. l.some => q \in Added  BY <1>1 DEF Course
<1>3. l.op = "start" => g \in Clients /\ q \in Enqueuing \cup {"undo"} /\ (l.some \/ Begun(g))
  BY <1>1 DEF Course, Begun
<1> HIDE DEF Goto
<1> QED  BY <1>2, <1>3, CourseMoves

LEMMA CourseGivesUp ==
  ASSUME TypeOK, \A f \in Fibers : Course(f), NEW g \in Fibers, NEW p,
         (GiveUp(g, p) /\ p = "lock") \/ Finish(g, p)
  PROVE  Kept
<1>1. CASE Return(g, p)  BY <1>1, CourseEnds
<1>2. CASE Goto(g, p, "undo", loc[g]) /\ loc[g].op = "start" /\ (p = "lock" \/ ~loc[g].some)
  <2>1. pc[g] = p  BY <1>2, Moves
  <2>2. ~loc[g].some /\ g \in Clients  BY <1>2, <2>1 DEF Course, Added
  <2> HIDE DEF Goto
  <2> QED  BY <1>2, <2>2, CourseMoves DEF Begun
<1> QED  BY <1>1, <1>2 DEF Finish, GiveUp

LEMMA EnqueueCourse ==
  ASSUME TypeOK, \A f \in Fibers : Course(f), NEW g \in Fibers, EnqueuePendingSteps(g)
  PROVE  Kept
<1>0. loc[g] \in Locals  BY DEF TypeOK
<1> USE DEF Enqueuing, Added
<1>1. CASE AcquireLock(g) \/ ReadEligible(g) \/ MarkRunning(g) \/ CheckTerminal(g) \/ CompleteRun(g)
  <2>1. PICK p \in {"lock", "read", "mark", "terminal", "complete"},
             q \in {"read", "terminal", "mark", "add", "unlock", "complete"},
             l \in {loc[g], [loc[g] EXCEPT !.todo = Eligible(Deps, status)]} : Goto(g, p, q, l)
    BY <1>1 DEF AcquireLock, ReadEligible, MarkRunning, CheckTerminal, CompleteRun
  <2>2. l.op = loc[g].op /\ l.some = loc[g].some /\ (loc[g].some /\ p \in Added => q \in Added)
    BY <1>0, <2>1 DEF Locals
  <2> HIDE DEF Goto
  <2> QED  BY <2>1, <2>2, CourseGoes
<1>2. CASE LockBusy(g) \/ DeleteLock(g)  BY <1>2, CourseGivesUp DEF LockBusy, DeleteLock
<1>3. CASE LockFails(g)
  <2>1. CASE loc[g].op = "job"
    <3>1. Goto(g, "lock", "catch", loc[g])  BY <1>3, <2>1 DEF LockFails
    <3> HIDE DEF Goto
    <3> QED  BY <2>1, <3>1, CourseGoes
  <2>2. CASE loc[g].op # "job"  BY <1>3, <2>2, CourseEnds DEF LockFails
  <2> QED  BY <2>1, <2>2
<1>4. CASE AddJob(g)
  <2>0. PICK s \in loc[g].todo : LET l == [loc[g] EXCEPT !.todo = @ \ {s}, !.some = TRUE] IN
          Goto(g, "add", AfterAdd(l), l)
    BY <1>4 DEF AddJob
  <2> DEFINE l == [loc[g] EXCEPT !.todo = @ \ {s}, !.some = TRUE]
  <2>1. l.some /\ l.op = loc[g].op /\ AfterAdd(l) \in {"add", "rollback", "unlock"}
    BY <1>0 DEF AfterAdd, Locals
  <2>2. Goto(g, "add", AfterAdd(l), l)  BY <2>0
  <2>3. pc[g] = "add"  BY <2>2 DEF Goto
  <2>4. l.op = "start" => g \in Clients  BY <2>1 DEF Course
  <2> HIDE DEF Goto, l
  <2> QED  BY <2>1, <2>2, <2>4, CourseMoves
<1>5. CASE AddFails(g)
  <2>0. PICK s \in loc[g].todo : LET l == [loc[g] EXCEPT !.todo = @ \ {s}, !.failed = @ \cup {s}] IN
          Goto(g, "add", AfterAdd(l), l)
    BY <1>5 DEF AddFails
  <2> DEFINE l == [loc[g] EXCEPT !.todo = @ \ {s}, !.failed = @ \cup {s}]
  <2>1. l.some = loc[g].some /\ l.op = loc[g].op /\ AfterAdd(l) \in {"add", "rollback", "unlock"}
    BY <1>0 DEF AfterAdd, Locals
  <2>2. Goto(g, "add", AfterAdd(l), l)  BY <2>0
  <2> HIDE DEF Goto, l
  <2> QED  BY <2>1, <2>2, CourseGoes
<1>6. CASE RollbackFailures(g)
  <2>1. Goto(g, "rollback", IF loc[g].some THEN "unlock" ELSE "terminal", [loc[g] EXCEPT !.failed = {}])
    BY <1>6 DEF RollbackFailures
  <2>2. PICK q, l :
          /\ Goto(g, "rollback", q, l) /\ l.op = loc[g].op /\ l.some = loc[g].some
          /\ q = IF loc[g].some THEN "unlock" ELSE "terminal"
    BY <1>0, <2>1 DEF Locals
  <2> HIDE DEF Goto
  <2> QED  BY <2>2, CourseGoes
<1>7. CASE CompareLock(g)
  <2>1. CASE Goto(g, "unlock", "release", loc[g])
    <3> HIDE DEF Goto
    <3> QED  BY <2>1, CourseGoes
  <2>2. CASE Finish(g, "unlock")  BY <2>2, CourseGivesUp
  <2> QED  BY <1>7, <2>1, <2>2 DEF CompareLock
<1>8. CASE ReleaseFails(g)  BY <1>8, CourseGivesUp DEF ReleaseFails
<1> QED  BY <1>1, <1>2, <1>3, <1>4, <1>5, <1>6, <1>7, <1>8 DEF EnqueuePendingSteps

LEMMA CourseStep ==
  ASSUME TypeOK, \A f \in Fibers : Course(f), Next
  PROVE  Kept
<1> USE DEF Enqueuing, Added
<1>1. ASSUME NEW f \in Fibers, ReadStale(f) \/ ResetStale(f)  PROVE Kept
  <2>0. loc[f] \in Locals  BY DEF TypeOK
  <2>1. CASE Return(f, "resume")  BY <2>1, CourseEnds
  <2>2. CASE ~Return(f, "resume")
    <3>1. PICK p \in {"resume", "reset"}, q \in {"lock", "reset"},
               l \in {[loc[f] EXCEPT !.todo = overdue], [loc[f] EXCEPT !.todo = {}]} : Goto(f, p, q, l)
      BY <1>1, <2>2 DEF ReadStale, ResetStale
    <3>2. l.op = loc[f].op /\ l.some = loc[f].some  BY <2>0, <3>1 DEF Locals
    <3> HIDE DEF Goto
    <3> QED  BY <3>1, <3>2, CourseGoes
  <2> QED  BY <2>1, <2>2
<1>2. ASSUME NEW w \in Workers, Process(w)  PROVE Kept
  <2>0. w \in Fibers /\ loc[w] \in Locals  BY DEF TypeOK, Fibers
  <2>1. CASE TakeJob(w)
    <3>1. PICK l : Goto(w, "idle", "execute", l) /\ l.op = "job" /\ ~l.some
      <4>1. PICK s \in Steps, a \in Attempts : Goto(w, "idle", "execute",
              [Blank EXCEPT !.op = "job", !.step = s, !.att = a, !.fresh = HasInputs(s)])
        BY <2>1 DEF TakeJob
      <4> DEFINE l == [Blank EXCEPT !.op = "job", !.step = s, !.att = a, !.fresh = HasInputs(s)]
      <4>2. l.op = "job" /\ ~l.some  BY DEF Blank
      <4> HIDE DEF Goto, l
      <4> QED  BY <4>1, <4>2 DEF l
    <3> HIDE DEF Goto
    <3> QED  BY <2>0, <3>1, CourseMoves
  <2>2. CASE Return(w, "context") \/ Return(w, "rethrow")  BY <2>0, <2>2, CourseEnds
  <2>3. CASE ~(TakeJob(w) \/ Return(w, "context") \/ Return(w, "rethrow"))
    <3>1. PICK p \in InJob, q \in InJob \cup {"lock"},
               l \in {loc[w], [loc[w] EXCEPT !.out = version[loc[w].step] + 1]} : Goto(w, p, q, l)
      BY <1>2, <2>3 DEF Process, PersistResult, ExecutionFails, StoreContext, StoreFails, Catch, MarkFailed,
         AssessRun, FailRun, Rethrow, InJob
    <3>2. l.op = loc[w].op /\ l.some = loc[w].some  BY <2>0, <3>1 DEF Locals
    <3>3. p \notin Enqueuing /\ p \notin Added /\ p # "undo" /\ q # "undo"  BY <3>1 DEF InJob
    <3> HIDE DEF Goto
    <3> QED  BY <2>0, <3>1, <3>2, <3>3, CourseGoes
  <2> QED  BY <2>1, <2>2, <2>3
<1>3. ASSUME NEW c \in Clients, Request(c)  PROVE Kept
  <2>0. c \in Fibers /\ loc[c] \in Locals  BY DEF TypeOK, Fibers
  <2>1. CASE StartRun(c)  BY <2>0, <2>1, CourseBegins DEF StartRun
  <2>2. CASE RequestResume(c) \/ Approve(c) \/ RequestRerun(c) \/ Replay(c)
    <3>1. PICK q, o, s :
            /\ Begin(c, q, o, s)
            /\ q \in {"resume", "lock", "snapshot", "resolve"}
            /\ o \in {"resume", "review", "rerun", "replay"}
      BY <2>2 DEF RequestResume, Approve, RequestRerun, Replay
    <3> HIDE DEF Begin
    <3> QED  BY <2>0, <3>1, CourseBegins
  <2>3. CASE UndoStart(c) \/ ResolveEntry(c)
    BY <2>0, <2>3, CourseEnds DEF UndoStart, ResolveEntry
  <2>4. CASE ReadCascade(c) \/ CascadeReset(c)
    <3>1. PICK p, q, l :
            /\ Goto(c, p, q, l) /\ l.op = loc[c].op /\ l.some = loc[c].some
            /\ p \in {"snapshot", "cascade"} /\ q \in {"cascade", "lock"}
      BY <2>0, <2>4 DEF ReadCascade, CascadeReset, Locals
    <3> HIDE DEF Goto
    <3> QED  BY <2>0, <3>1, CourseGoes
  <2>5. CASE Decline(c) \/ Dismiss(c)
    <3>1. UNCHANGED <<pc, loc>>  BY <2>5 DEF Decline, Dismiss
    <3> QED  BY <3>1 DEF Kept, Course, Begun
  <2> QED  BY <1>3, <2>1, <2>2, <2>3, <2>4, <2>5 DEF Request
<1>4. ASSUME Watchdog  PROVE Kept
  <2>1. Begin(Cron, "read", "enqueue", NoStep) \/ Begin(Cron, "resume", "resume", NoStep)
    BY <1>4 DEF Watchdog
  <2>2. Cron \in Fibers  BY DEF Fibers
  <2> HIDE DEF Begin
  <2> QED  BY <2>1, <2>2, CourseBegins
<1>5. ASSUME Crash  PROVE Kept
  BY <1>5 DEF Crash, Kept, Course, Begun, Blank
<1>6. ASSUME Deploy \/ ReadRun \/ ResetOrphans \/ Settle  PROVE Kept
  <2>0. Boot \in Fibers /\ loc[Boot] \in Locals  BY DEF TypeOK, Fibers
  <2>1. CASE Return(Boot, "boot") \/ Return(Boot, "settle")  BY <2>0, <2>1, CourseEnds
  <2>2. CASE Deploy
    <3>1. Goto(Boot, "idle", "boot", Blank) /\ ~Blank.some /\ Blank.op # "start"
      BY <2>2 DEF Deploy, Blank
    <3> HIDE DEF Goto
    <3> QED  BY <2>0, <3>1, CourseMoves
  <2>3. CASE ReadRun /\ ~Return(Boot, "boot")
    <3>1. PICK q, l :
            Goto(Boot, "boot", q, l) /\ l.op = Verdict /\ ~l.some /\ q \in {"settle", "orphans"}
      <4> DEFINE l == [Blank EXCEPT !.op = Verdict, !.todo = {s \in Steps : status[s] = "running"}]
      <4>1. l.op = Verdict /\ ~l.some  BY DEF Blank
      <4>2. Goto(Boot, "boot", "orphans", l) \/ Goto(Boot, "boot", "settle", l)
        BY <2>3 DEF ReadRun
      <4> HIDE DEF Goto, l
      <4> QED  BY <4>1, <4>2
    <3>2. Verdict # "start"  BY DEF Verdict
    <3> HIDE DEF Goto
    <3> QED  BY <2>0, <3>1, <3>2, CourseMoves
  <2>4. CASE (ResetOrphans \/ Settle) /\ ~Return(Boot, "settle")
    <3>1. PICK p \in {"orphans", "settle"}, q \in {"settle", "lock"},
               l \in {loc[Boot], [loc[Boot] EXCEPT !.todo = {}]} : Goto(Boot, p, q, l)
      BY <2>4 DEF ResetOrphans, Settle
    <3>2. l.op = loc[Boot].op /\ l.some = loc[Boot].some  BY <2>0, <3>1 DEF Locals
    <3> HIDE DEF Goto
    <3> QED  BY <2>0, <3>1, <3>2, CourseGoes
  <2> QED  BY <1>6, <2>1, <2>2, <2>3, <2>4
<1>7. ASSUME ExpireLock \/ PassThreshold  PROVE Kept
  <2>1. UNCHANGED <<pc, loc>>  BY <1>7 DEF ExpireLock, PassThreshold
  <2> QED  BY <2>1 DEF Kept, Course, Begun
<1> QED  BY <1>1, <1>2, <1>3, <1>4, <1>5, <1>6, <1>7, EnqueueCourse DEF Next, Recover

LEMMA EnqueueActs ==
  ASSUME NEW f, EnqueuePendingSteps(f)
  PROVE  pc[f] \in Enqueuing
BY DEF EnqueuePendingSteps, AcquireLock, LockBusy, LockFails, ReadEligible, MarkRunning, AddJob, AddFails,
       RollbackFailures, CheckTerminal, CompleteRun, CompareLock, DeleteLock, ReleaseFails, Finish,
       GiveUp, Return, Goto, Enqueuing

\* A fiber that stands idle takes up a job or a request, or stays where it is.
LEMMA IdleActs ==
  ASSUME NEW f, pc[f] = "idle"
  PROVE  /\ ~EnqueuePendingSteps(f) /\ ~ReadStale(f) /\ ~ResetStale(f)
         /\ Process(f) => TakeJob(f)
         /\ f = Boot => ~ReadRun /\ ~ResetOrphans /\ ~Settle
<1>1. ~EnqueuePendingSteps(f)  BY EnqueueActs DEF Enqueuing
<1>2. ~ReadStale(f) /\ ~ResetStale(f)  BY DEF ReadStale, ResetStale, Return, Goto
<1>3. Process(f) => TakeJob(f)
  BY DEF Process, PersistResult, ExecutionFails, StoreContext, StoreFails, Catch, MarkFailed, AssessRun,
         FailRun, Rethrow, Return, Goto
<1>4. f = Boot => ~ReadRun /\ ~ResetOrphans /\ ~Settle
  BY DEF ReadRun, ResetOrphans, Settle, Return, Goto
<1> QED  BY <1>1, <1>2, <1>3, <1>4

\* While f starts the run, the rest of the server has nothing to do.
LEMMA StarterActs ==
  ASSUME Orderly, TypeOK, StartInv, NEW f \in Fibers, Begun(f), Next
  PROVE  EnqueuePendingSteps(f) \/ UndoStart(f) \/ Crash \/ ExpireLock
<1>0. /\ f \in Clients /\ pc[f] \in Enqueuing \cup {"undo"} /\ StartsAlone(f)
      /\ Boot \in Fibers \ {f} /\ Faults \cap {"slow", "rolling", "anyStart"} = {}
      /\ \A c \in Clients : c = f
  BY EngineAssumption DEF StartInv, Course, Begun, Fibers, Orderly, OneRequester
<1>1. pc[f] \notin {"idle", "resume", "reset", "snapshot", "cascade", "resolve"}
  BY <1>0 DEF Enqueuing
<1>2. \A g \in Fibers \ {f} : pc[g] = "idle"  BY <1>0 DEF StartsAlone
<1>3. ASSUME NEW g \in Fibers, EnqueuePendingSteps(g) \/ ReadStale(g) \/ ResetStale(g)
      PROVE  EnqueuePendingSteps(f)
  <2>1. g = f  BY <1>2, <1>3, IdleActs
  <2> QED  BY <1>1, <1>3, <2>1 DEF ReadStale, ResetStale, Return, Goto
<1>4. ASSUME NEW w \in Workers, Process(w)  PROVE FALSE
  <2>1. w \in Fibers \ {f}  BY <1>0, EngineAssumption DEF Fibers
  <2>2. TakeJob(w)  BY <1>2, <1>4, <2>1, IdleActs
  <2>3. \E s \in Steps : Waiting(s)  BY <2>2 DEF TakeJob, Waiting
  <2> QED  BY <1>0, <2>3 DEF StartsAlone, Untouched
<1>5. ASSUME NEW c \in Clients, Request(c)  PROVE UndoStart(f)
  BY <1>0, <1>1, <1>5
  DEF Request, StartRun, RequestResume, Approve, Decline, RequestRerun, ReadCascade, CascadeReset, Replay,
      ResolveEntry, Dismiss, Return, Begin, Goto
<1>6. ~PassThreshold
  BY <1>0 DEF PassThreshold, StartsAlone, Live
<1>7. ~Watchdog
  <2>1. ~Quiet /\ overdue = {}  BY <1>0, <1>1 DEF Quiet, StartsAlone, Untouched
  <2> QED  BY <1>0, <2>1 DEF Watchdog
<1>8. Recover => Crash
  BY <1>0, <1>2, IdleActs DEF Recover, Deploy
<1> QED  BY <1>3, <1>4, <1>5, <1>6, <1>7, <1>8 DEF Next

\* Nobody can do anything with a draft but start it.
LEMMA DraftActs ==
  ASSUME Orderly, TypeOK, StartInv, runStatus = "draft", Next
  PROVE  \/ \E c \in Clients : StartRun(c)
         \/ Crash \/ ExpireLock
         \/ Return(Boot, "boot") /\ UNCHANGED <<database, redis, history>>
<1>0. /\ Untouched /\ \A s \in Steps : status[s] = "pending"
      /\ \A f \in Fibers : pc[f] = "idle" \/ (f = Boot /\ pc[f] = "boot")
      /\ Faults \cap {"slow", "rolling", "anyStart"} = {}
  BY DEF StartInv, DraftUntouched, Orderly
<1>1. ASSUME NEW g \in Fibers  PROVE ~(EnqueuePendingSteps(g) \/ ReadStale(g) \/ ResetStale(g))
  <2>1. CASE pc[g] = "idle"  BY <2>1, IdleActs
  <2>2. CASE pc[g] = "boot"
    <3>1. ~EnqueuePendingSteps(g)  BY <2>2, EnqueueActs DEF Enqueuing
    <3> QED  BY <2>2, <3>1 DEF ReadStale, ResetStale, Return, Goto
  <2> QED  BY <1>0, <2>1, <2>2
<1>2. ASSUME NEW w \in Workers, Process(w)  PROVE FALSE
  <2>1. pc[w] = "idle"  BY <1>0, EngineAssumption DEF Fibers
  <2>2. TakeJob(w)  BY <1>2, <2>1, IdleActs
  <2> QED  BY <1>0, <2>2 DEF TakeJob, Waiting, Untouched
<1>3. ASSUME NEW c \in Clients, Request(c)  PROVE StartRun(c)
  <2>0. pc[c] = "idle"  BY <1>0, EngineAssumption DEF Fibers
  <2>1. ASSUME NEW s \in Steps  PROVE ~Unclaimed(s)
    <3>1. {d \in Clients : pc[d] = "resolve" /\ loc[d].step = s} = {}
      BY <1>0 DEF Fibers
    <3>2. Cardinality({d \in Clients : pc[d] = "resolve" /\ loc[d].step = s}) = 0
      BY <3>1, FS_EmptySet
    <3>3. dlq[s] = 0  BY <1>0 DEF Untouched
    <3> QED  BY <3>2, <3>3 DEF Unclaimed
  <2>2. ~Replay(c) /\ ~Dismiss(c)  BY <2>1 DEF Replay, Dismiss
  <2>3. ~Approve(c) /\ ~Decline(c)
    <3>1. ASSUME NEW s \in Steps  PROVE ~Reviewable(s)
      <4>1. version[s] = 0  BY <1>0 DEF Untouched
      <4> QED  BY <4>1 DEF Reviewable
    <3> QED  BY <3>1 DEF Approve, Decline, Decide
  <2>4. ~RequestRerun(c) /\ ~RequestResume(c)  BY <1>0 DEF RequestRerun, RequestResume
  <2>5. ~UndoStart(c) /\ ~ReadCascade(c) /\ ~CascadeReset(c) /\ ~ResolveEntry(c)
    BY <2>0 DEF UndoStart, ReadCascade, CascadeReset, ResolveEntry, Return, Goto
  <2> QED  BY <1>3, <2>2, <2>3, <2>4, <2>5 DEF Request
<1>4. ~PassThreshold /\ ~Watchdog  BY <1>0 DEF PassThreshold, Watchdog
<1>5. Recover => Crash \/ (Return(Boot, "boot") /\ UNCHANGED <<database, redis, history>>)
  BY <1>0 DEF Recover, Deploy, ReadRun, ResetOrphans, Settle, Return, Goto, Fibers
<1> QED  BY <1>1, <1>2, <1>3, <1>4, <1>5 DEF Next

LEMMA StartGoes ==
  ASSUME TypeOK, NEW f \in Fibers, StartsAlone(f), NEW p, NEW q, NEW l, Goto(f, p, q, l),
         UNCHANGED <<version, dlq, queue>>, overdue' \subseteq overdue,
         runStatus' = runStatus \/ Steps = {},
         q = "complete" => Steps = {}, q = "rollback" => l.todo = {},
         \A s \in Steps : status'[s] # "pending" =>
           status'[s] = "running" /\ q \in {"add", "rollback"} /\ s \in l.todo \cup l.failed
  PROVE  StartsAlone(f)'
<1>1. /\ pc'[f] = q /\ loc'[f] = l /\ \A g \in Fibers \ {f} : pc'[g] = pc[g]
  BY Moves
<1> QED  BY <1>1 DEF StartsAlone, Untouched, Waiting

LEMMA StarterStep ==
  ASSUME TypeOK, StartInv, NEW f \in Fibers, Begun(f), EnqueuePendingSteps(f), Begun(f)'
  PROVE  StartsAlone(f)'
<1>0. /\ StartsAlone(f) /\ loc[f] \in Locals /\ loc[f].op = "start" /\ ~loc[f].some
      /\ status \in [Steps -> StepStatus]
  BY DEF StartInv, TypeOK, Begun
<1>1. \A s \in Steps : pc[f] \notin {"add", "rollback"} => status[s] = "pending"
  BY <1>0 DEF StartsAlone
<1>2. CASE AcquireLock(f) \/ ReadEligible(f) \/ LockBusy(f) \/ CheckTerminal(f) \/ CompleteRun(f)
           \/ CompareLock(f) \/ DeleteLock(f) \/ ReleaseFails(f)
  <2>1. PICK p, q, l :
          /\ Goto(f, p, q, l) /\ p \notin {"add", "rollback"} /\ q \notin {"add", "rollback"}
          /\ q = "complete" => \A s \in Steps : status[s] \notin Active
    BY <1>0, <1>2
    DEF AcquireLock, ReadEligible, LockBusy, CheckTerminal, CompleteRun, CompareLock, DeleteLock,
        ReleaseFails, Finish, GiveUp, Return
  <2>2. UNCHANGED <<version, dlq, queue, overdue, status>>
    BY <1>2 DEF AcquireLock, ReadEligible, LockBusy, CheckTerminal, CompleteRun, CompareLock, DeleteLock,
        ReleaseFails, database, redis
  <2>3. runStatus' = runStatus \/ Steps = {}
    BY <1>0, <1>2
    DEF AcquireLock, ReadEligible, LockBusy, CheckTerminal, CompleteRun, CompareLock, DeleteLock,
        ReleaseFails, database, StartsAlone, Goto
  <2>4. pc[f] = p  BY <2>1, Moves
  <2>5. \A s \in Steps : status[s] = "pending"  BY <1>1, <2>1, <2>4
  <2>6. q = "complete" => Steps = {}  BY <2>1, <2>5 DEF Active
  <2> HIDE DEF Goto
  <2> QED  BY <1>0, <2>1, <2>2, <2>3, <2>5, <2>6, StartGoes
<1>3. CASE LockFails(f)
  <2>1. Goto(f, "lock", "idle", Blank)  BY <1>0, <1>3 DEF LockFails, Return
  <2>2. loc'[f] = Blank  BY <2>1, Moves
  <2> QED  BY <2>2 DEF Begun, Blank
<1>4. CASE AddJob(f)
  <2>0. PICK s \in loc[f].todo : LET l == [loc[f] EXCEPT !.todo = @ \ {s}, !.some = TRUE] IN
          Goto(f, "add", AfterAdd(l), l)
    BY <1>4 DEF AddJob
  <2>1. loc'[f].some
    <3> DEFINE l == [loc[f] EXCEPT !.todo = @ \ {s}, !.some = TRUE]
    <3>1. l.some  BY <1>0 DEF Locals
    <3>2. Goto(f, "add", AfterAdd(l), l)  BY <2>0
    <3> HIDE DEF l, Goto
    <3> QED  BY <3>1, <3>2, Moves
  <2> QED  BY <2>1 DEF Begun
<1>5. CASE MarkRunning(f)
  <2>1. Goto(f, "mark", "add", loc[f]) /\ pc[f] = "mark"  BY <1>5 DEF MarkRunning, Goto
  <2>2. UNCHANGED <<version, dlq, queue, runStatus>> /\ overdue' \subseteq overdue
    BY <1>5 DEF MarkRunning, redis
  <2>3. \A s \in Steps : status'[s] # "pending" => status'[s] = "running" /\ s \in loc[f].todo
    BY <1>1, <1>5, <2>1 DEF MarkRunning, WriteStatus
  <2> HIDE DEF Goto
  <2> QED  BY <1>0, <2>1, <2>2, <2>3, StartGoes
<1>6. CASE AddFails(f)
  <2>0. PICK s \in loc[f].todo : LET l == [loc[f] EXCEPT !.todo = @ \ {s}, !.failed = @ \cup {s}] IN
          Goto(f, "add", AfterAdd(l), l)
    BY <1>6 DEF AddFails
  <2>1. PICK q, l :
          /\ Goto(f, "add", q, l) /\ q \in {"add", "rollback"} /\ (q = "rollback" => l.todo = {})
          /\ loc[f].todo \cup loc[f].failed \subseteq l.todo \cup l.failed
    <3> DEFINE l == [loc[f] EXCEPT !.todo = @ \ {s}, !.failed = @ \cup {s}]
    <3>1. l.todo = loc[f].todo \ {s} /\ l.failed = loc[f].failed \cup {s}  BY <1>0 DEF Locals
    <3>2. AfterAdd(l) \in {"add", "rollback"} /\ (AfterAdd(l) = "rollback" => l.todo = {})
      BY <3>1 DEF AfterAdd
    <3>3. Goto(f, "add", AfterAdd(l), l)  BY <2>0
    <3> HIDE DEF Goto, l
    <3> QED  BY <3>1, <3>2, <3>3
  <2>2. UNCHANGED <<version, dlq, queue, overdue, status, runStatus>>
    BY <1>6 DEF AddFails, database, redis
  <2>3. \A t \in Steps : status'[t] # "pending" => status'[t] = "running" /\ t \in l.todo \cup l.failed
    BY <1>0, <2>1, <2>2 DEF StartsAlone
  <2> HIDE DEF Goto
  <2> QED  BY <1>0, <2>1, <2>2, <2>3, StartGoes
<1>7. CASE RollbackFailures(f)
  <2>1. /\ Goto(f, "rollback", "terminal", [loc[f] EXCEPT !.failed = {}]) /\ pc[f] = "rollback"
    BY <1>0, <1>7 DEF RollbackFailures, Goto
  <2>2. UNCHANGED <<version, dlq, queue, runStatus>> /\ overdue' \subseteq overdue
    BY <1>7 DEF RollbackFailures, redis
  <2>3. \A s \in Steps : status'[s] = "pending"
    BY <1>0, <1>7, <2>1 DEF RollbackFailures, WriteStatus, StartsAlone
  <2>4. PICK l : Goto(f, "rollback", "terminal", l)  BY <2>1
  <2> HIDE DEF Goto
  <2> QED  BY <1>0, <2>2, <2>3, <2>4, StartGoes
<1> QED  BY <1>2, <1>3, <1>4, <1>5, <1>6, <1>7 DEF EnqueuePendingSteps

LEMMA StartInductive ==
  ASSUME Orderly, TypeOK, StartInv, [Next]_vars
  PROVE  StartInv'
<1>1. CASE UNCHANGED vars
  BY <1>1 DEF StartInv, Course, Begun, StartsAlone, DraftUntouched, Untouched, Waiting, vars, database, redis
<1>2. CASE Next
  <2>1. Kept  BY <1>2, CourseStep DEF StartInv
  <2>2. ASSUME NEW g \in Fibers, Begun(g)'  PROVE StartsAlone(g)'
    <3>1. CASE Begun(g)
      <4>1. CASE EnqueuePendingSteps(g)  BY <2>2, <3>1, <4>1, StarterStep
      <4>2. CASE UndoStart(g)
        <5>1. loc'[g] = Blank  BY <4>2, Moves DEF UndoStart, Return
        <5> QED  BY <2>2, <5>1 DEF Begun, Blank
      <4>3. CASE Crash  BY <2>2, <4>3 DEF Crash, Begun, Blank
      <4>4. CASE ExpireLock
        BY <3>1, <4>4 DEF StartInv, ExpireLock, StartsAlone, Untouched, Waiting, database
      <4> QED  BY <1>2, <3>1, <4>1, <4>2, <4>3, <4>4, StarterActs
    <3>2. CASE StartRun(g)
      <4>1. /\ runStatus = "draft" /\ Quiet /\ runStatus' = "running"
            /\ UNCHANGED <<status, overdue, version, dlq, queue>>
        BY <3>2 DEF StartRun, Orderly, redis
      <4>2. PICK l : Goto(g, "idle", "lock", l)  BY <3>2 DEF StartRun, Begin
      <4>3. pc'[g] = "lock" /\ \A f \in Fibers \ {g} : pc'[f] = pc[f]  BY <4>2, Moves
      <4>4. Untouched /\ \A s \in Steps : status[s] = "pending"
        BY <4>1 DEF StartInv, DraftUntouched
      <4>5. Untouched'  BY <4>1, <4>4 DEF Untouched, Waiting
      <4> QED  BY <4>1, <4>3, <4>4, <4>5 DEF StartsAlone, Quiet
    <3> QED  BY <2>1, <2>2, <3>1, <3>2 DEF Kept
  <2>3. ASSUME runStatus' = "draft", runStatus = "draft"  PROVE DraftUntouched'
    <3>0. Untouched /\ \A s \in Steps : status[s] = "pending"  BY <2>3 DEF StartInv, DraftUntouched
    <3>1. ASSUME NEW c \in Clients, StartRun(c)  PROVE FALSE  BY <2>3, <3>1 DEF StartRun
    <3>2. CASE Crash
      BY <3>0, <3>2 DEF Crash, DraftUntouched, Untouched, Waiting, database
    <3>3. CASE ExpireLock
      BY <2>3, <3>3 DEF StartInv, ExpireLock, DraftUntouched, Untouched, Waiting, database
    <3>4. CASE Return(Boot, "boot") /\ UNCHANGED <<database, redis, history>>
      <4>1. Boot \in Fibers  BY DEF Fibers
      <4>2. pc'[Boot] = "idle" /\ \A g \in Fibers \ {Boot} : pc'[g] = pc[g]
        BY <3>4, <4>1, Moves DEF Return
      <4>3. Untouched'  BY <3>0, <3>4 DEF Untouched, Waiting, database, redis
      <4> QED  BY <2>3, <3>0, <3>4, <4>2, <4>3 DEF StartInv, DraftUntouched, database
    <3> QED  BY <1>2, <2>3, <3>1, <3>2, <3>3, <3>4, DraftActs
  <2>4. ASSUME runStatus' = "draft", runStatus # "draft"  PROVE DraftUntouched'
    <3>1. PICK c \in Clients : UndoStart(c)
      BY <1>2, <2>4
      DEF Next, EnqueuePendingSteps, AcquireLock, LockBusy, LockFails, ReadEligible, MarkRunning, AddJob,
          AddFails, RollbackFailures, CheckTerminal, CompleteRun, CompareLock, DeleteLock, ReleaseFails,
          ReadStale, ResetStale, Process, TakeJob, PersistResult, ExecutionFails, StoreContext,
          StoreFails, Catch, MarkFailed, AssessRun, FailRun, Rethrow, Request, StartRun, RequestResume,
          Approve, Decline, Decide, RequestRerun, ReadCascade, CascadeReset, Replay, ResolveEntry, Dismiss,
          ExpireLock, PassThreshold, Watchdog, Recover, Crash, Deploy, ReadRun, ResetOrphans, Settle, database
    <3>2. c \in Fibers /\ Goto(c, "undo", "idle", Blank) /\ UNCHANGED <<status, overdue, version, dlq, queue>>
      BY <3>1 DEF Fibers, UndoStart, Return, redis
    <3>3. pc[c] = "undo" /\ pc'[c] = "idle" /\ \A g \in Fibers \ {c} : pc'[g] = pc[g]
      BY <3>2, Moves
    <3>4. Course(c) /\ (Begun(c) => StartsAlone(c))  BY <3>2 DEF StartInv
    <3>5. StartsAlone(c)  BY <3>3, <3>4 DEF Course, Added, Begun
    <3>6. Untouched'  BY <3>2, <3>5 DEF StartsAlone, Untouched, Waiting
    <3> QED  BY <3>2, <3>3, <3>5, <3>6 DEF StartsAlone, DraftUntouched
  <2> QED  BY <2>1, <2>2, <2>3, <2>4 DEF StartInv, Kept, DraftUntouched
<1> QED  BY <1>1, <1>2

LEMMA StartInit == Init => StartInv
BY EngineAssumption
DEF Init, StartInv, Course, Begun, Blank, DraftUntouched, Untouched, Waiting, Fibers, Enqueuing

LEMMA StartInvariant == Orderly => (Spec => []StartInv)
<1> SUFFICES ASSUME Orderly PROVE Spec => []StartInv
  OBVIOUS
<1>1. StartInv /\ TypeOK /\ [Next]_vars => StartInv'  BY StartInductive
<1> QED  BY <1>1, StartInit, TypeCorrect, PTL DEF Spec

\* A start that is taken back leaves nothing behind, whatever went wrong in it: an execution, Redis,
\* a store, the lock or the server itself (startRun's rollback to draft).
THEOREM DraftStaysIdle == Orderly => (Spec => []DraftIsIdle)
<1>1. StartInv => DraftIsIdle  BY DEF StartInv, DraftUntouched, DraftIsIdle
<1> QED  BY <1>1, StartInvariant, PTL

-----------------------------------------------------------------------------
(* Failing a run, and giving it up.                                        *)

Failed(f) == status[loc[f].step] = "failed"

\* The step whose failure fails the run keeps that status until then.
Fails(f) == pc[f] \in {"assess", "failRun"} => Failed(f)

\* The reconciliation gives a run up for good reason.
DoomStands ==
  pc[Boot] \in {"orphans", "settle"} /\ loc[Boot].op = "doom"
    => NothingActive \/ \E s \in Steps : status[s] = "failed"

LifeInv == (\A f \in Fibers : Fails(f)) /\ DoomStands

\* Nobody else's failed step is taken up again.
OthersFailed(f) == \A g \in Fibers \ {f}, s \in Steps :
  Holds(g, s) /\ status[s] = "failed" => status'[s] = "failed"

\* One fiber moves.
LEMMA LifeGoes ==
  ASSUME Base, CalmInv, LifeInv, NEW f \in Fibers, NEW p, NEW q, NEW l, Goto(f, p, q, l),
         p \notin {"idle", "boot"} \/ ~Recovering,
         OthersFailed(f), Fails(f)', f = Boot => DoomStands'
  PROVE  LifeInv'
<1>0. TypeOK /\ Boot \in Fibers  BY DEF Base, Fibers
<1>1. /\ pc[f] = p /\ pc'[f] = q /\ loc'[f] = l
      /\ \A g \in Fibers \ {f} : pc'[g] = pc[g] /\ loc'[g] = loc[g]
  BY <1>0, Moves
<1>2. ASSUME NEW g \in Fibers \ {f}  PROVE Fails(g)'
  <2>1. pc[g] \in {"assess", "failRun"} => Holds(g, loc[g].step) /\ loc[g].step \in Steps
    BY DEF CalmInv, Minds, Knows, Holds, InJob
  <2> QED  BY <1>1, <2>1 DEF LifeInv, Fails, Failed, OthersFailed
<1>3. DoomStands'
  <2>1. CASE f # Boot
    BY <1>0, <1>1, <2>1 DEF CalmInv, Minds, Recovery, Recovering, DoomStands
  <2> QED  BY <2>1
<1> QED  BY <1>2, <1>3 DEF LifeInv

\* It moves outside of the failure of a run, and changes no status.
LEMMA LifeWalks ==
  ASSUME Base, CalmInv, LifeInv, NEW f \in Fibers, NEW p, NEW q, NEW l, Goto(f, p, q, l),
         p \notin {"idle", "boot"} \/ ~Recovering, status' = status,
         q \in {"assess", "failRun"} => p \in {"assess", "failRun"} /\ l.step = loc[f].step,
         q \notin {"orphans", "settle"}
  PROVE  LifeInv'
<1>0. TypeOK  BY DEF Base
<1>1. pc[f] = p /\ pc'[f] = q /\ loc'[f] = l  BY <1>0, Moves
<1>2. Fails(f)'  BY <1>1 DEF LifeInv, Fails, Failed
<1>3. f = Boot => DoomStands'  BY <1>1 DEF DoomStands
<1>4. OthersFailed(f)  BY DEF OthersFailed
<1> HIDE DEF Goto
<1> QED  BY <1>2, <1>3, <1>4, LifeGoes

\* No fiber moves, and no status changes.
LEMMA LifeStays ==
  ASSUME LifeInv, UNCHANGED <<pc, loc, status>>
  PROVE  LifeInv'
<1>1. \A f \in Fibers : Fails(f)'  BY DEF LifeInv, Fails, Failed
<1>2. DoomStands'  BY DEF LifeInv, DoomStands, NothingActive
<1> QED  BY <1>1, <1>2 DEF LifeInv

LEMMA EnqueueLife ==
  ASSUME Calm, Base, CalmInv, LifeInv, NEW f \in Fibers, EnqueuePendingSteps(f)
  PROVE  LifeInv'
<1>0. TypeOK /\ Knows(f) /\ loc[f] \in Locals /\ "redis" \notin Faults
  BY DEF Base, CalmInv, Minds, TypeOK, Calm
<1>1. CASE MarkRunning(f)
  <2>1. Goto(f, "mark", "add", loc[f]) /\ pc[f] = "mark"  BY <1>1 DEF MarkRunning, Goto
  <2>2. pc'[f] = "add"  BY <1>0, <2>1, Moves
  <2>3. Fails(f)' /\ (f = Boot => DoomStands')  BY <2>2 DEF Fails, DoomStands
  <2>4. OthersFailed(f)
    BY <1>0, <1>1, <2>1 DEF OthersFailed, MarkRunning, WriteStatus, Knows, Eligible
  <2> HIDE DEF Goto
  <2> QED  BY <2>1, <2>3, <2>4, LifeGoes
<1>2. CASE AcquireLock(f) \/ LockBusy(f) \/ ReadEligible(f) \/ CheckTerminal(f) \/ CompleteRun(f)
           \/ CompareLock(f) \/ DeleteLock(f)
  <2>1. PICK p \in {"lock", "read", "terminal", "complete", "unlock", "release"},
             q \in {"idle", "undo", "read", "terminal", "mark", "unlock", "complete", "release"},
             l \in {Blank, loc[f], [loc[f] EXCEPT !.todo = Eligible(Deps, status)]} : Goto(f, p, q, l)
    BY <1>2
    DEF AcquireLock, LockBusy, ReadEligible, CheckTerminal, CompleteRun, CompareLock, DeleteLock, Finish,
        GiveUp, Return
  <2>2. status' = status
    BY <1>2 DEF AcquireLock, LockBusy, ReadEligible, CheckTerminal, CompleteRun, CompareLock, DeleteLock,
        database
  <2> HIDE DEF Goto
  <2> QED  BY <2>1, <2>2, LifeWalks
<1>3. CASE AddJob(f)
  <2>0. PICK s \in loc[f].todo : LET l == [loc[f] EXCEPT !.todo = @ \ {s}, !.some = TRUE] IN
          Goto(f, "add", AfterAdd(l), l)
    BY <1>3 DEF AddJob
  <2>1. PICK q, l : Goto(f, "add", q, l) /\ q \in {"add", "rollback", "unlock"}
    <3> DEFINE l == [loc[f] EXCEPT !.todo = @ \ {s}, !.some = TRUE]
    <3>1. AfterAdd(l) \in {"add", "rollback", "unlock"}  BY DEF AfterAdd
    <3>2. Goto(f, "add", AfterAdd(l), l)  BY <2>0
    <3> HIDE DEF Goto, l
    <3> QED  BY <3>1, <3>2
  <2>2. status' = status  BY <1>3 DEF AddJob, database
  <2> HIDE DEF Goto
  <2> QED  BY <2>1, <2>2, LifeWalks
<1>4. CASE RollbackFailures(f)
  <2>1. PICK q, l : q \in {"unlock", "terminal"} /\ Goto(f, "rollback", q, l)
    BY <1>4 DEF RollbackFailures
  <2>2. status' = status
    BY <1>0, <1>4 DEF RollbackFailures, WriteStatus, Knows, TypeOK
  <2> HIDE DEF Goto
  <2> QED  BY <2>1, <2>2, LifeWalks
<1>5. CASE LockFails(f) \/ AddFails(f) \/ ReleaseFails(f)
  BY <1>0, <1>5 DEF LockFails, AddFails, ReleaseFails
<1> QED  BY <1>1, <1>2, <1>3, <1>4, <1>5 DEF EnqueuePendingSteps

LEMMA ResumeLife ==
  ASSUME Base, CalmInv, LifeInv, NEW f \in Fibers, ReadStale(f) \/ ResetStale(f)
  PROVE  LifeInv'
<1>0. TypeOK /\ Knows(f)  BY DEF Base, CalmInv, Minds
<1>1. CASE ReadStale(f)
  <2>1. PICK q, l : q \in {"idle", "lock", "reset"} /\ Goto(f, "resume", q, l)
    BY <1>1 DEF ReadStale, Return
  <2>2. status' = status  BY <1>1 DEF ReadStale, database
  <2> HIDE DEF Goto
  <2> QED  BY <2>1, <2>2, LifeWalks
<1>2. CASE ResetStale(f)
  <2>1. PICK l : Goto(f, "reset", "lock", l) /\ pc[f] = "reset"  BY <1>2 DEF ResetStale, Goto
  <2>2. pc'[f] = "lock"  BY <1>0, <2>1, Moves
  <2>3. Fails(f)' /\ (f = Boot => DoomStands')  BY <2>2 DEF Fails, DoomStands
  <2>4. OthersFailed(f)
    BY <1>0, <1>2, <2>1 DEF OthersFailed, ResetStale, WriteStatus, Knows, CalmInv, Jobs, Forgotten
  <2> HIDE DEF Goto
  <2> QED  BY <2>1, <2>3, <2>4, LifeGoes
<1> QED  BY <1>1, <1>2

\* Nobody else writes the status of a step that a fiber has the job of.
LEMMA OwnFailure ==
  ASSUME TypeOK, CalmInv, NEW f \in Fibers, NEW s \in Steps, Holds(f, s), NEW v,
         WriteStatus({s}, v)
  PROVE  OthersFailed(f)
<1>1. \A g \in Fibers \ {f} : ~Holds(g, s)  BY DEF CalmInv, Jobs, OneJob, Has
<1> QED  BY <1>1 DEF OthersFailed, WriteStatus

LEMMA ProcessLife ==
  ASSUME Calm, Base, CalmInv, LifeInv, NEW w \in Workers, Process(w)
  PROVE  LifeInv'
<1>0. TypeOK /\ w \in Fibers /\ Knows(w) /\ loc[w] \in Locals /\ "db" \notin Faults
  BY DEF Base, CalmInv, Minds, TypeOK, Calm, Fibers
<1>1. CASE TakeJob(w)
  <2>1. PICK s, l :
          s \in Steps /\ Waiting(s) /\ Goto(w, "idle", "execute", l) /\ status' = status
    BY <1>1 DEF TakeJob, Waiting, database
  <2>2. ~Recovering  BY <2>1 DEF CalmInv, Minds, Recovery
  <2> HIDE DEF Goto
  <2> QED  BY <1>0, <2>1, <2>2, LifeWalks
<1>2. CASE PersistResult(w) \/ MarkFailed(w)
  <2> DEFINE s == loc[w].step
  <2>1. PICK p, q, l, v :
          /\ p \in {"execute", "markFailed"} /\ q \in {"context", "assess"}
          /\ Goto(w, p, q, l) /\ WriteStatus({s}, v) /\ (q = "assess" => v = "failed")
          /\ l.step = s
    BY <1>0, <1>2 DEF PersistResult, MarkFailed, Locals
  <2>2. pc[w] = p /\ pc'[w] = q /\ loc'[w] = l  BY <1>0, <2>1, Moves
  <2>3. s \in Steps /\ Holds(w, s)  BY <1>0, <2>1, <2>2 DEF Knows, Holds, InJob
  <2>4. w = Boot => DoomStands'  BY <2>1, <2>2 DEF DoomStands
  <2>5. Fails(w)'  BY <2>1, <2>2, <2>3 DEF Fails, Failed, WriteStatus
  <2>6. OthersFailed(w)  BY <1>0, <2>1, <2>3, OwnFailure
  <2> HIDE DEF Goto, WriteStatus, s
  <2> QED  BY <1>0, <2>1, <2>4, <2>5, <2>6, LifeGoes
<1>3. CASE ExecutionFails(w) \/ StoreContext(w) \/ Catch(w) \/ AssessRun(w) \/ FailRun(w) \/ Rethrow(w)
  <2>1. status' = status
    BY <1>3 DEF ExecutionFails, StoreContext, Catch, AssessRun, FailRun, Rethrow, database
  <2>2. PICK p, q, l :
          /\ p \in InJob /\ q \in {"catch", "idle", "lock", "markFailed", "failRun", "rethrow"}
          /\ Goto(w, p, q, l) /\ (q = "failRun" => p = "assess" /\ l = loc[w])
    BY <1>3 DEF ExecutionFails, StoreContext, Catch, AssessRun, FailRun, Rethrow, Return, InJob
  <2> HIDE DEF Goto
  <2> QED  BY <1>0, <2>1, <2>2, LifeWalks DEF InJob
<1>4. CASE StoreFails(w)  BY <1>0, <1>4 DEF StoreFails
<1> QED  BY <1>1, <1>2, <1>3, <1>4 DEF Process

LEMMA RequestLife ==
  ASSUME Calm, Base, CalmInv, LifeInv, NEW c \in Clients, Request(c)
  PROVE  LifeInv'
<1>0. TypeOK /\ c \in Fibers \ {Boot} /\ Knows(c)
  BY EngineAssumption DEF Base, CalmInv, Minds, Fibers
<1>1. CASE StartRun(c) \/ RequestResume(c) \/ RequestRerun(c) \/ Replay(c)
  <2>0. PICK q, o, s : q \in {"lock", "resume", "snapshot", "resolve"} /\ Begin(c, q, o, s)
    BY <1>1 DEF StartRun, RequestResume, RequestRerun, Replay
  <2>1. PICK l : Goto(c, "idle", q, l)  BY <2>0 DEF Begin
  <2>2. status' = status /\ ~Recovering
    BY <1>1, <2>0, RequestsWait DEF StartRun, RequestResume, RequestRerun, Replay, database
  <2> HIDE DEF Goto
  <2> QED  BY <1>0, <2>0, <2>1, <2>2, LifeWalks
<1>2. CASE UndoStart(c) \/ ReadCascade(c) \/ ResolveEntry(c)
  <2>1. PICK p, q, l :
          p \in {"undo", "snapshot", "resolve"} /\ q \in {"idle", "cascade"} /\ Goto(c, p, q, l)
    BY <1>2 DEF UndoStart, ReadCascade, ResolveEntry, Return
  <2>2. status' = status  BY <1>2 DEF UndoStart, ReadCascade, ResolveEntry, database
  <2> HIDE DEF Goto
  <2> QED  BY <1>0, <2>1, <2>2, LifeWalks
<1>3. CASE Approve(c)
  <2>1. PICK l : Goto(c, "idle", "lock", l)  BY <1>3 DEF Approve, Begin
  <2>2. pc'[c] = "lock" /\ ~Recovering  BY <1>0, <1>3, <2>1, Moves, RequestsWait DEF Approve
  <2>3. Fails(c)' /\ OthersFailed(c)
    BY <1>3, <2>2 DEF Fails, Approve, Decide, Reviewable, Calm, OthersFailed, WriteStatus
  <2> HIDE DEF Goto
  <2> QED  BY <1>0, <2>1, <2>2, <2>3, LifeGoes
<1>4. CASE Decline(c)
  <2>1. PICK s \in Steps, d \in {"revision_requested", "rejected"} :
          /\ UNCHANGED <<pc, loc>> /\ WriteStatus({s}, d) /\ status[s] = "awaiting_approval"
    BY <1>4 DEF Decline, Decide, Calm
  <2>2. \A t \in Steps : /\ status[t] = "failed" => status'[t] = "failed"
                         /\ status[t] \notin Active => status'[t] \notin Active
    BY <2>1 DEF WriteStatus, Active
  <2>3. ASSUME NEW g \in Fibers  PROVE Fails(g)'
    <3>1. Fails(g) /\ pc'[g] = pc[g] /\ loc'[g] = loc[g]  BY <2>1 DEF LifeInv
    <3>2. pc[g] \in {"assess", "failRun"} => loc[g].step \in Steps
      BY DEF CalmInv, Minds, Knows, InJob
    <3> QED  BY <2>2, <3>1, <3>2 DEF Fails, Failed
  <2>4. DoomStands'
    <3>1. NothingActive => NothingActive'  BY <2>2 DEF NothingActive
    <3>2. (\E t \in Steps : status[t] = "failed") => (\E t \in Steps : status'[t] = "failed")
      BY <2>2
    <3> QED  BY <2>1, <3>1, <3>2 DEF LifeInv, DoomStands
  <2> QED  BY <2>3, <2>4 DEF LifeInv
<1>5. CASE CascadeReset(c)
  <2>1. PICK l : Goto(c, "cascade", "lock", l) /\ pc[c] = "cascade"  BY <1>5 DEF CascadeReset, Goto
  <2>2. pc'[c] = "lock"  BY <1>0, <2>1, Moves
  <2>3. Reruns(c)  BY <1>0, <2>1 DEF Knows
  <2>4. Fails(c)' /\ OthersFailed(c)  BY <2>1, <2>2, <2>3 DEF Fails, OthersFailed, Reruns, Holds, InJob
  <2> HIDE DEF Goto
  <2> QED  BY <1>0, <2>1, <2>4, LifeGoes
<1>6. CASE Dismiss(c)  BY <1>6, LifeStays DEF Dismiss
<1> QED  BY <1>1, <1>2, <1>3, <1>4, <1>5, <1>6 DEF Request

LEMMA WatchdogLife ==
  ASSUME Calm, Base, CalmInv, LifeInv, Watchdog
  PROVE  LifeInv'
<1>0. Cron \in Fibers  BY DEF Fibers
<1>1. PICK q, l : q \in {"read", "resume"} /\ Goto(Cron, "idle", q, l)  BY DEF Watchdog, Begin
<1>2. status' = status /\ ~Recovering  BY DEF Calm, Watchdog, Begin, Recovering, database
<1> HIDE DEF Goto
<1> QED  BY <1>0, <1>1, <1>2, LifeWalks

LEMMA RecoverLife ==
  ASSUME Calm, Base, CalmInv, LifeInv, Recover
  PROVE  LifeInv'
<1>0. TypeOK /\ Boot \in Fibers /\ loc[Boot] \in Locals  BY DEF Base, Fibers, TypeOK
<1>1. CASE Crash
  <2>1. \A g \in Fibers : pc'[g] \in {"idle", "boot"}  BY <1>1 DEF Crash
  <2> QED  BY <1>0, <2>1 DEF LifeInv, Fails, DoomStands
<1>2. CASE Deploy  BY <1>2 DEF Deploy, Calm
<1>3. CASE ReadRun
  <2>1. PICK q, l :
          /\ q \in {"idle", "orphans", "settle"}
          /\ Goto(Boot, "boot", q, l) /\ (q # "idle" => l.op = Verdict)
    <3> DEFINE l == [Blank EXCEPT !.op = Verdict, !.todo = {s \in Steps : status[s] = "running"}]
    <3>1. l.op = Verdict  BY DEF Blank
    <3>2. \/ Goto(Boot, "boot", "idle", Blank)
          \/ Goto(Boot, "boot", "orphans", l) \/ Goto(Boot, "boot", "settle", l)
      BY <1>3 DEF ReadRun, Return
    <3> HIDE DEF Goto, l
    <3> QED  BY <3>1, <3>2
  <2>2. status' = status  BY <1>3 DEF ReadRun, database
  <2>3. /\ pc'[Boot] = q /\ loc'[Boot] = l
        /\ \A g \in Fibers \ {Boot} : pc[g] = "idle" /\ pc'[g] = pc[g]
    BY <1>0, <2>1, Moves DEF CalmInv, Minds, Recovery, Recovering
  <2>4. \A g \in Fibers : Fails(g)'  BY <2>1, <2>3 DEF Fails
  <2>5. Verdict = "doom" => NothingActive \/ \E s \in Steps : status[s] = "failed"
    BY DEF Verdict, NothingActive
  <2>6. DoomStands'  BY <2>1, <2>2, <2>3, <2>5 DEF DoomStands, NothingActive
  <2> QED  BY <2>4, <2>6 DEF LifeInv
<1>4. CASE ResetOrphans
  <2>1. PICK l : Goto(Boot, "orphans", "settle", l) /\ l.op = loc[Boot].op
    BY <1>0, <1>4 DEF ResetOrphans, Locals
  <2>2. /\ pc[Boot] = "orphans" /\ pc'[Boot] = "settle" /\ loc'[Boot] = l
        /\ \A g \in Fibers \ {Boot} : pc[g] = "idle" /\ pc'[g] = pc[g]
    BY <1>0, <2>1, Moves DEF CalmInv, Minds, Recovery, Recovering
  <2>3. \A s \in Steps : /\ status[s] = "failed" => status'[s] = "failed"
                         /\ status[s] \notin Active => status'[s] \notin Active
    BY <1>4, <2>2 DEF ResetOrphans, WriteStatus, CalmInv, Minds, Recovery, Active
  <2>4. \A g \in Fibers : Fails(g)'  BY <2>2 DEF Fails
  <2>5. DoomStands'
    <3>1. ASSUME loc[Boot].op = "doom"  PROVE (NothingActive \/ \E s \in Steps : status[s] = "failed")'
      <4>1. NothingActive \/ \E s \in Steps : status[s] = "failed"
        BY <2>2, <3>1 DEF LifeInv, DoomStands
      <4>2. NothingActive => NothingActive'  BY <2>3 DEF NothingActive
      <4>3. (\E s \in Steps : status[s] = "failed") => (\E s \in Steps : status'[s] = "failed")
        BY <2>3
      <4> QED  BY <4>1, <4>2, <4>3
    <3> QED  BY <2>1, <2>2, <3>1 DEF DoomStands
  <2> QED  BY <2>4, <2>5 DEF LifeInv
<1>5. CASE Settle
  <2>1. PICK q, l : q \in {"idle", "lock"} /\ Goto(Boot, "settle", q, l)  BY <1>5 DEF Settle, Return
  <2>2. status' = status  BY <1>5 DEF Settle
  <2> HIDE DEF Goto
  <2> QED  BY <1>0, <2>1, <2>2, LifeWalks
<1> QED  BY <1>1, <1>2, <1>3, <1>4, <1>5 DEF Recover

LEMMA LifeInductive ==
  ASSUME Calm, Base, CalmInv, LifeInv, [Next]_vars
  PROVE  LifeInv'
<1>1. ASSUME ExpireLock \/ PassThreshold \/ UNCHANGED vars  PROVE LifeInv'
  BY <1>1, LifeStays DEF ExpireLock, PassThreshold, vars, database
<1> QED
  BY <1>1, EnqueueLife, ResumeLife, ProcessLife, RequestLife, WatchdogLife, RecoverLife DEF Next

LEMMA LifeInit == Init => LifeInv
BY DEF Init, LifeInv, Fails, DoomStands, Fibers

LEMMA LifeInvariant ==
  ASSUME Calm
  PROVE  Spec => [](Base /\ CalmInv /\ LifeInv)
<1>1. Base /\ CalmInv /\ LifeInv /\ [Next]_vars => LifeInv'
  BY LifeInductive
<1> QED  BY <1>1, LifeInit, CalmInvariant, PTL DEF Spec

LEMMA CalmIsOrderly == Calm /\ OneRequester => Orderly
BY DEF Calm, Orderly

-----------------------------------------------------------------------------
(* The refinement: every action is one step of the lifecycle, or none.     *)

LEMMA EnqueueRefines ==
  ASSUME Calm, Base, CalmInv, StartInv, NEW f \in Fibers, EnqueuePendingSteps(f)
  PROVE  [Lifecycle!Next]_<<runStatus, status>>
<1>0. TypeOK /\ Knows(f)  BY DEF Base, CalmInv, Minds
<1>1. CASE MarkRunning(f)
  <2>1. pc[f] = "mark" /\ runStatus' = runStatus /\ WriteStatus(loc[f].todo, "running")
    BY <1>1 DEF MarkRunning, Goto
  <2>2. loc[f].todo \in SUBSET Lifecycle!Eligible(Deps, status)
    BY <1>0, <2>1 DEF Knows, Eligible, Lifecycle!Eligible, Satisfied, Lifecycle!Satisfied
  <2>3. runStatus # "draft"  BY <2>1 DEF StartInv, DraftUntouched
  <2>4. Lifecycle!Change(loc[f].todo, "running")
    BY <2>1 DEF Lifecycle!Change, WriteStatus
  <2> QED  BY <2>2, <2>3, <2>4 DEF Lifecycle!Next, Lifecycle!Launch
<1>2. CASE CompleteRun(f)
  BY <1>0, <1>2 DEF CompleteRun, Goto, Knows, NothingActive, Active, Lifecycle!Active,
     Lifecycle!Next, Lifecycle!Complete
<1>3. CASE RollbackFailures(f)
  BY <1>0, <1>3 DEF RollbackFailures, WriteStatus, Knows, TypeOK
<1>4. CASE ~(MarkRunning(f) \/ CompleteRun(f) \/ RollbackFailures(f))
  BY <1>4 DEF EnqueuePendingSteps, AcquireLock, LockBusy, LockFails, ReadEligible, AddJob, AddFails,
     CheckTerminal, CompareLock, DeleteLock, ReleaseFails, database
<1> QED  BY <1>1, <1>2, <1>3, <1>4

LEMMA ResumeRefines ==
  ASSUME Base, CalmInv, NEW f \in Fibers, ReadStale(f) \/ ResetStale(f)
  PROVE  [Lifecycle!Next]_<<runStatus, status>>
<1>0. TypeOK /\ Knows(f) /\ loc[f].todo \in SUBSET Steps
  BY DEF Base, CalmInv, Minds, TypeOK, Locals
<1>1. CASE ReadStale(f)  BY <1>1 DEF ReadStale, database
<1>2. CASE ResetStale(f)
  <2>1. pc[f] = "reset" /\ runStatus' = runStatus /\ WriteStatus(loc[f].todo, "pending")
    BY <1>2 DEF ResetStale, Goto
  <2>2. \A s \in loc[f].todo : status[s] = "running"
    BY <1>0, <2>1 DEF Knows, CalmInv, Jobs, Forgotten
  <2>3. Lifecycle!Change(loc[f].todo, "pending")  BY <2>1 DEF Lifecycle!Change, WriteStatus
  <2> QED  BY <1>0, <2>2, <2>3 DEF Lifecycle!Next, Lifecycle!Requeue
<1> QED  BY <1>1, <1>2

LEMMA ProcessRefines ==
  ASSUME Calm, Base, CalmInv, LifeInv, NEW w \in Workers, Process(w)
  PROVE  [Lifecycle!Next]_<<runStatus, status>>
<1> DEFINE s == loc[w].step
<1>0. TypeOK /\ w \in Fibers /\ Knows(w)  BY DEF Base, CalmInv, Minds, Fibers
<1>1. ASSUME Holds(w, s), pc[w] # "context"
      PROVE  s \in Steps /\ status[s] \in {"running", "failed"}
  BY <1>0, <1>1, OwnStep DEF Knows, Holds, AtWork
<1>2. CASE PersistResult(w)
  <2>1. /\ pc[w] = "execute" /\ runStatus' = runStatus
        /\ WriteStatus({s}, IF s \in NeedsApproval THEN "awaiting_approval" ELSE "completed")
    BY <1>2 DEF PersistResult, Goto
  <2>2. s \in Steps /\ status[s] \in {"running", "failed"}  BY <1>1, <2>1 DEF Holds, InJob
  <2>3. Lifecycle!Change({s}, IF s \in NeedsApproval THEN "awaiting_approval" ELSE "completed")
    BY <2>1 DEF Lifecycle!Change, WriteStatus
  <2> QED  BY <2>2, <2>3 DEF Lifecycle!Next, Lifecycle!Finish
<1>3. CASE MarkFailed(w)
  <2>1. pc[w] = "markFailed" /\ runStatus' = runStatus /\ WriteStatus({s}, "failed")
    BY <1>3 DEF MarkFailed, Goto
  <2>2. s \in Steps /\ status[s] \in {"running", "failed"}  BY <1>1, <2>1 DEF Holds, InJob
  <2>3. Lifecycle!Change({s}, "failed")  BY <2>1 DEF Lifecycle!Change, WriteStatus
  <2> QED  BY <2>2, <2>3 DEF Lifecycle!Next, Lifecycle!Fail
<1>4. CASE FailRun(w)
  <2>1. pc[w] = "failRun" /\ runStatus' = "failed" /\ status' = status
    BY <1>4 DEF FailRun, Goto
  <2>2. s \in Steps /\ status[s] = "failed"
    BY <1>0, <1>1, <2>1 DEF Holds, InJob, LifeInv, Fails, Failed
  <2> QED  BY <2>1, <2>2 DEF Lifecycle!Next, Lifecycle!Abandon
<1>5. CASE ~(PersistResult(w) \/ MarkFailed(w) \/ FailRun(w))
  BY <1>5 DEF Process, TakeJob, ExecutionFails, StoreContext, StoreFails, Catch, AssessRun, Rethrow,
     database
<1> QED  BY <1>2, <1>3, <1>4, <1>5

\* The cascade read by one statement and written by another takes back what it would in one.
LEMMA CascadeRefines ==
  ASSUME Base, CalmInv, NEW c \in Clients, CascadeReset(c)
  PROVE  [Lifecycle!Next]_<<runStatus, status>>
<1> DEFINE s == loc[c].step
           S == {t \in {s} \cup Downstream(Deps, s) : status[t] # "approved"}
<1>1. /\ TypeOK /\ pc[c] = "cascade" /\ Reruns(c) /\ runStatus' = runStatus
      /\ WriteStatus(loc[c].todo, "pending")
  BY DEF Base, CalmInv, Minds, Knows, CascadeReset, Goto, Fibers
<1>2. s \in Steps /\ status[s] \notin Active \cup {"approved"} /\ loc[c].todo = Reset(s)
  BY <1>1 DEF Reruns
<1>3. status' = [t \in Steps |-> IF t \in S THEN "pending" ELSE status[t]]
  BY <1>1, <1>2 DEF WriteStatus, Reset, TypeOK
<1>4. S = {t \in {s} \cup Lifecycle!Downstream(Deps, s) : status[t] # "approved"}
  BY DEF Downstream, Lifecycle!Downstream, Ancestry, Lifecycle!Ancestry, Closed, Lifecycle!Closed
<1>5. Lifecycle!Change({t \in {s} \cup Lifecycle!Downstream(Deps, s) : status[t] # "approved"},
                       "pending")
  BY <1>1, <1>3, <1>4 DEF Lifecycle!Change
<1> QED  BY <1>2, <1>5 DEF Lifecycle!Next, Lifecycle!Rerun, Active, Lifecycle!Active

LEMMA RequestRefines ==
  ASSUME Calm, Steps # {}, Base, CalmInv, StartInv, NEW c \in Clients, Request(c)
  PROVE  [Lifecycle!Next]_<<runStatus, status>>
<1>1. CASE StartRun(c)
  BY <1>1 DEF StartRun, Calm, Lifecycle!Next, Lifecycle!Start, Lifecycle!MoveRun
<1>2. CASE UndoStart(c)
  <2>1. pc[c] = "undo" /\ runStatus' = "draft" /\ status' = status
    BY <1>2 DEF UndoStart, Return, Goto
  <2>2. StartsAlone(c)  BY <2>1 DEF StartInv, Course, Added, Begun, Fibers
  <2> QED  BY <2>1, <2>2 DEF StartsAlone, Lifecycle!Next, Lifecycle!Undo, Lifecycle!MoveRun
<1>3. CASE Approve(c)
  <2>1. PICK s \in Steps : Decide(c, s, "approved")  BY <1>3 DEF Approve
  <2>2. /\ status[s] \in {"awaiting_approval", "completed"}
        /\ WriteStatus({s}, "approved") /\ runStatus' = runStatus
    BY <2>1 DEF Decide, Reviewable, Calm
  <2>3. Lifecycle!Change({s}, "approved")  BY <2>2 DEF Lifecycle!Change, WriteStatus
  <2> QED  BY <2>2, <2>3 DEF Lifecycle!Next, Lifecycle!Approve
<1>4. CASE Decline(c)
  <2>1. PICK s \in Steps, d \in {"revision_requested", "rejected"} :
          status[s] = "awaiting_approval" /\ Decide(c, s, d)
    BY <1>4 DEF Decline, Calm
  <2>2. Lifecycle!Change({s}, d)  BY <2>1 DEF Decide, Lifecycle!Change, WriteStatus
  <2> QED  BY <2>1, <2>2 DEF Lifecycle!Next, Lifecycle!Decline
<1>5. CASE CascadeReset(c)  BY <1>5, CascadeRefines
<1>6. CASE ~(StartRun(c) \/ UndoStart(c) \/ Approve(c) \/ Decline(c) \/ CascadeReset(c))
  BY <1>6 DEF Request, RequestResume, RequestRerun, ReadCascade, Replay, ResolveEntry, Dismiss, database
<1> QED  BY <1>1, <1>2, <1>3, <1>4, <1>5, <1>6

LEMMA RecoverRefines ==
  ASSUME Base, CalmInv, LifeInv, Recover
  PROVE  [Lifecycle!Next]_<<runStatus, status>>
<1>0. TypeOK /\ loc[Boot].todo \in SUBSET Steps  BY DEF Base, TypeOK, Locals, Fibers
<1>1. CASE ResetOrphans
  <2>1. pc[Boot] = "orphans" /\ runStatus' = runStatus /\ WriteStatus(loc[Boot].todo, "pending")
    BY <1>1 DEF ResetOrphans, Goto
  <2>2. \A s \in loc[Boot].todo : status[s] = "running"  BY <2>1 DEF CalmInv, Minds, Recovery
  <2>3. Lifecycle!Change(loc[Boot].todo, "pending")  BY <2>1 DEF Lifecycle!Change, WriteStatus
  <2> QED  BY <1>0, <2>2, <2>3 DEF Lifecycle!Next, Lifecycle!Requeue
<1>2. CASE Settle
  <2>1. /\ pc[Boot] = "settle" /\ status' = status
        /\ runStatus' = IF loc[Boot].op = "doom" THEN "failed" ELSE runStatus
    BY <1>2 DEF Settle, Goto, Return
  <2>2. CASE loc[Boot].op = "doom"
    <3>1. NothingActive \/ \E s \in Steps : status[s] = "failed"
      BY <2>1, <2>2 DEF LifeInv, DoomStands
    <3> QED  BY <2>1, <2>2, <3>1 DEF NothingActive, Active, Lifecycle!Active, Lifecycle!Next, Lifecycle!Abandon
  <2> QED  BY <2>1, <2>2
<1>3. CASE Crash \/ Deploy \/ ReadRun  BY <1>3 DEF Crash, Deploy, ReadRun, database
<1> QED  BY <1>1, <1>2, <1>3 DEF Recover

LEMMA StepRefines ==
  ASSUME Calm, Steps # {}, Base, CalmInv, LifeInv, StartInv, [Next]_vars
  PROVE  [Lifecycle!Next]_<<runStatus, status>>
<1>1. ASSUME ExpireLock \/ PassThreshold \/ Watchdog \/ UNCHANGED vars
      PROVE  UNCHANGED <<runStatus, status>>
  BY <1>1 DEF ExpireLock, PassThreshold, Watchdog, vars, database
<1> QED
  BY <1>1, EnqueueRefines, ResumeRefines, ProcessRefines, RequestRefines, RecoverRefines DEF Next

\* The engine implements RunLifecycle: whatever the order in which its fibers read, commit, fail,
\* crash and recover, each of its actions is one step of that machine, or invisible to it.
THEOREM EngineRefinesLifecycle ==
  Calm /\ OneRequester /\ Steps # {} => (Spec => RefinesLifecycle)
<1> SUFFICES ASSUME Calm, OneRequester, Steps # {}  PROVE Spec => RefinesLifecycle
  OBVIOUS
<1>1. Init => Lifecycle!Init  BY DEF Init, Lifecycle!Init
<1>2. Base /\ CalmInv /\ LifeInv /\ StartInv /\ [Next]_vars => [Lifecycle!Next]_Lifecycle!vars
  BY StepRefines DEF Lifecycle!vars
<1>3. Orderly  BY CalmIsOrderly
<1> QED  BY <1>1, <1>2, <1>3, LifeInvariant, StartInvariant, PTL DEF Spec, RefinesLifecycle, Lifecycle!Spec

-----------------------------------------------------------------------------
(* What RunLifecycle is worth by itself: it keeps the order of the steps.  *)

TypedStatus == status \in [Steps -> StepStatus]

\* A step whose status is not satisfying leaves no dependent running behind.
LEMMA ChangeUnsatisfied ==
  ASSUME TypedStatus, Lifecycle!Ordered, NEW S \in SUBSET Steps, NEW v \in StepStatus \ {"running"},
         Lifecycle!Change(S, v), v \in Satisfied \/ \A s \in S : status[s] \notin Satisfied
  PROVE  TypedStatus' /\ Lifecycle!Ordered'
<1> USE DEF Satisfied, Lifecycle!Satisfied
<1>1. TypedStatus'  BY DEF TypedStatus, Lifecycle!Change
<1>2. ASSUME NEW t \in Steps, status'[t] = "running", NEW d \in Deps[t]
      PROVE  status'[d] \in Satisfied
  <2>1. status[t] = "running" /\ d \in Steps
    BY <1>2, EngineAssumption DEF TypedStatus, Lifecycle!Change
  <2>2. status[d] \in Satisfied  BY <2>1 DEF Lifecycle!Ordered
  <2> QED  BY <2>1, <2>2 DEF TypedStatus, Lifecycle!Change
<1> QED  BY <1>1, <1>2 DEF Lifecycle!Ordered

LEMMA OrderInductive ==
  ASSUME TypedStatus, Lifecycle!Ordered, Lifecycle!Next
  PROVE  TypedStatus' /\ Lifecycle!Ordered'
<1> USE DEF Satisfied, StepStatus
<1>1. CASE Lifecycle!Start \/ Lifecycle!Undo \/ Lifecycle!Complete \/ Lifecycle!Abandon
  BY <1>1 DEF Lifecycle!Start, Lifecycle!Undo, Lifecycle!Complete, Lifecycle!Abandon,
     Lifecycle!MoveRun, TypedStatus, Lifecycle!Ordered
<1>2. CASE Lifecycle!Launch
  <2>1. PICK S \in SUBSET Lifecycle!Eligible(Deps, status) : Lifecycle!Change(S, "running")
    BY <1>2 DEF Lifecycle!Launch
  <2>2. /\ S \subseteq Steps
        /\ \A s \in S : status[s] = "pending" /\ \A d \in Deps[s] : status[d] \in Satisfied
    BY EngineAssumption DEF Lifecycle!Eligible, Lifecycle!Satisfied
  <2>3. TypedStatus'  BY <2>1 DEF Lifecycle!Change, TypedStatus
  <2>4. ASSUME NEW t \in Steps, status'[t] = "running", NEW d \in Deps[t]
        PROVE  status'[d] \in Satisfied
    <3>1. d \in Steps  BY EngineAssumption
    <3>2. status[d] \in Satisfied
      BY <2>1, <2>2, <2>4 DEF Lifecycle!Change, Lifecycle!Ordered, Lifecycle!Satisfied
    <3> QED  BY <2>1, <2>2, <3>1, <3>2 DEF Lifecycle!Change
  <2> QED  BY <2>3, <2>4 DEF Lifecycle!Ordered, Lifecycle!Satisfied
<1>3. CASE Lifecycle!Requeue
  <2>1. PICK S \in SUBSET Steps : (\A s \in S : status[s] = "running") /\ Lifecycle!Change(S, "pending")
    BY <1>3 DEF Lifecycle!Requeue
  <2> QED  BY <2>1, ChangeUnsatisfied
<1>4. CASE Lifecycle!Fail
  <2>1. PICK s \in Steps : status[s] \in {"running", "failed"} /\ Lifecycle!Change({s}, "failed")
    BY <1>4 DEF Lifecycle!Fail
  <2> QED  BY <2>1, ChangeUnsatisfied
<1>5. CASE Lifecycle!Finish
  <2>1. PICK s \in Steps, v \in {"awaiting_approval", "completed"} :
          status[s] \in {"running", "failed"} /\ Lifecycle!Change({s}, v)
    BY <1>5 DEF Lifecycle!Finish
  <2> QED  BY <2>1, ChangeUnsatisfied
<1>6. CASE Lifecycle!Approve
  <2>1. PICK s \in Steps : Lifecycle!Change({s}, "approved")  BY <1>6 DEF Lifecycle!Approve
  <2> QED  BY <2>1, ChangeUnsatisfied
<1>7. CASE Lifecycle!Decline
  <2>1. PICK s \in Steps, d \in {"revision_requested", "rejected"} :
          status[s] = "awaiting_approval" /\ Lifecycle!Change({s}, d)
    BY <1>7 DEF Lifecycle!Decline
  <2> QED  BY <2>1, ChangeUnsatisfied
<1>8. CASE Lifecycle!Rerun
  <2>0. \A s \in Steps : Lifecycle!Downstream(Deps, s) = Downstream(Deps, s)
    BY DEF Downstream, Lifecycle!Downstream, Ancestry, Lifecycle!Ancestry, Closed, Lifecycle!Closed
  <2>1. PICK s \in Steps :
          /\ status[s] \notin Lifecycle!Active \cup {"approved"}
          /\ Lifecycle!Change({t \in {s} \cup Downstream(Deps, s) : status[t] # "approved"}, "pending")
    BY <1>8, <2>0 DEF Lifecycle!Rerun
  <2>2. TypedStatus'  BY <2>1 DEF Lifecycle!Change, TypedStatus
  <2>3. ASSUME NEW t \in Steps, status'[t] = "running", NEW d \in Deps[t]
        PROVE  status'[d] \in Satisfied
    <3>1. status[t] = "running" /\ d \in Steps
      BY <2>1, <2>3, EngineAssumption DEF Lifecycle!Change
    <3>2. status[d] \in Satisfied  BY <3>1 DEF Lifecycle!Ordered, Lifecycle!Satisfied
    <3>3. t \notin {s} \cup Downstream(Deps, s)  BY <2>1, <2>3, <3>1 DEF Lifecycle!Change
    <3>4. d \notin {s} \cup Downstream(Deps, s)
      BY <3>1, <3>3, DownstreamClosed, EngineAssumption
    <3> QED  BY <2>1, <3>1, <3>2, <3>4 DEF Lifecycle!Change
  <2> QED  BY <2>2, <2>3 DEF Lifecycle!Ordered, Lifecycle!Satisfied
<1> QED  BY <1>1, <1>2, <1>3, <1>4, <1>5, <1>6, <1>7, <1>8 DEF Lifecycle!Next

\* In every run that keeps to the lifecycle a step runs only after the steps it depends on, also
\* when a rerun takes some of them back: the cascade reaches every step that could be running.
THEOREM LifecycleOrders == Lifecycle!Spec => []Lifecycle!Ordered
<1>1. Lifecycle!Init => TypedStatus /\ Lifecycle!Ordered
  BY DEF Lifecycle!Init, TypedStatus, Lifecycle!Ordered, StepStatus
<1>2. TypedStatus /\ Lifecycle!Ordered /\ [Lifecycle!Next]_Lifecycle!vars
        => TypedStatus' /\ Lifecycle!Ordered'
  <2>1. CASE UNCHANGED Lifecycle!vars
    BY <2>1 DEF Lifecycle!vars, TypedStatus, Lifecycle!Ordered
  <2> QED  BY <2>1, OrderInductive
<1> QED  BY <1>1, <1>2, PTL DEF Lifecycle!Spec

-----------------------------------------------------------------------------
(* Where the actions lead, and who marks a step running.                   *)

\* f alone moves, and does not take the bootstrap's way.
Flows(f) ==
  /\ pc'[f] \notin {"boot", "orphans", "settle"}
  /\ \A g \in Fibers \ {f} : pc'[g] = pc[g] /\ loc'[g] = loc[g]

LEMMA GotoFlows ==
  ASSUME TypeOK, NEW f \in Fibers, NEW p, NEW q, NEW l, Goto(f, p, q, l),
         q \notin {"boot", "orphans", "settle"}
  PROVE  Flows(f)
BY Moves DEF Flows

LEMMA EndFlows ==
  ASSUME TypeOK, NEW f \in Fibers, NEW p, Return(f, p) \/ GiveUp(f, p) \/ Finish(f, p)
  PROVE  Flows(f)
<1> HIDE DEF Goto
<1> QED  BY GotoFlows DEF Return, GiveUp, Finish

LEMMA EnqueueFlow ==
  ASSUME TypeOK, NEW f \in Fibers, EnqueuePendingSteps(f) \/ ReadStale(f) \/ ResetStale(f)
  PROVE  Flows(f)
<1>1. CASE AddJob(f) \/ AddFails(f)
  <2>1. PICK l : Goto(f, "add", AfterAdd(l), l)  BY <1>1 DEF AddJob, AddFails
  <2>2. AfterAdd(l) \notin {"boot", "orphans", "settle"}  BY DEF AfterAdd
  <2> HIDE DEF Goto
  <2> QED  BY <2>1, <2>2, GotoFlows
<1>2. CASE \/ AcquireLock(f) \/ ReadEligible(f) \/ MarkRunning(f) \/ RollbackFailures(f)
           \/ CheckTerminal(f) \/ CompleteRun(f) \/ ResetStale(f)
  BY <1>2 DEF AcquireLock, ReadEligible, MarkRunning, RollbackFailures, CheckTerminal, CompleteRun,
     ResetStale, Goto, Flows, TypeOK
<1>3. CASE LockBusy(f) \/ DeleteLock(f) \/ ReleaseFails(f)
  BY <1>3, EndFlows DEF LockBusy, DeleteLock, ReleaseFails
<1>4. CASE CompareLock(f) \/ ReadStale(f) \/ LockFails(f)
  <2>1. CASE Finish(f, "unlock") \/ Return(f, "resume") \/ Return(f, "lock")  BY <2>1, EndFlows
  <2>2. CASE ~(Finish(f, "unlock") \/ Return(f, "resume") \/ Return(f, "lock"))
    BY <1>4, <2>2 DEF CompareLock, ReadStale, LockFails, Goto, Flows, TypeOK
  <2> QED  BY <2>1, <2>2
<1> QED  BY <1>1, <1>2, <1>3, <1>4 DEF EnqueuePendingSteps

LEMMA ProcessFlow ==
  ASSUME TypeOK, NEW w \in Workers, Process(w)
  PROVE  w \in Fibers /\ Flows(w)
<1>0. w \in Fibers  BY DEF Fibers
<1>1. CASE TakeJob(w) \/ PersistResult(w) \/ ExecutionFails(w) \/ StoreFails(w)
  BY <1>0, <1>1 DEF TakeJob, PersistResult, ExecutionFails, StoreFails, Goto, Flows, TypeOK
<1>2. CASE Catch(w) \/ MarkFailed(w) \/ AssessRun(w) \/ FailRun(w)
  BY <1>0, <1>2 DEF Catch, MarkFailed, AssessRun, FailRun, Goto, Flows, TypeOK
<1>3. CASE StoreContext(w) \/ Rethrow(w)
  BY <1>0, <1>3 DEF StoreContext, Rethrow, Return, Goto, Flows, TypeOK
<1> QED  BY <1>0, <1>1, <1>2, <1>3 DEF Process

LEMMA RequestFlow ==
  ASSUME TypeOK, NEW c \in Clients, Request(c), ~(Decline(c) \/ Dismiss(c))
  PROVE  c \in Fibers /\ Flows(c) /\ pc[c] \in {"idle", "undo", "snapshot", "cascade", "resolve"}
<1>0. c \in Fibers  BY DEF Fibers
<1>1. CASE StartRun(c) \/ RequestResume(c) \/ Approve(c) \/ RequestRerun(c) \/ Replay(c)
  BY <1>0, <1>1 DEF StartRun, RequestResume, Approve, RequestRerun, Replay, Begin, Goto, Flows, TypeOK
<1>2. CASE UndoStart(c) \/ ReadCascade(c) \/ CascadeReset(c) \/ ResolveEntry(c)
  BY <1>0, <1>2 DEF UndoStart, ReadCascade, CascadeReset, ResolveEntry, Return, Goto, Flows, TypeOK
<1> QED  BY <1>0, <1>1, <1>2 DEF Request

LEMMA WatchdogFlow ==
  ASSUME TypeOK, Watchdog
  PROVE  Cron \in Fibers /\ Flows(Cron) /\ pc[Cron] = "idle"
BY DEF Watchdog, Begin, Goto, Flows, TypeOK, Fibers

\* Only marking steps makes them run.
LEMMA RunningIsMarked ==
  ASSUME TypeOK, Next, NEW s \in Steps, status'[s] = "running", status[s] # "running"
  PROVE  \E f \in Fibers : MarkRunning(f) /\ s \in loc[f].todo
<1>1. ASSUME NEW f \in Fibers, EnqueuePendingSteps(f) \/ ReadStale(f) \/ ResetStale(f)
      PROVE  MarkRunning(f) /\ s \in loc[f].todo
  BY <1>1 DEF EnqueuePendingSteps, AcquireLock, LockBusy, LockFails, ReadEligible, MarkRunning, AddJob,
     AddFails, RollbackFailures, CheckTerminal, CompleteRun, CompareLock, DeleteLock, ReleaseFails,
     ReadStale, ResetStale, WriteStatus, database
<1>2. ASSUME NEW w \in Workers, Process(w)  PROVE FALSE
  BY <1>2 DEF Process, TakeJob, PersistResult, ExecutionFails, StoreContext, StoreFails, Catch,
     MarkFailed, AssessRun, FailRun, Rethrow, WriteStatus, database
<1>3. ASSUME NEW c \in Clients, Request(c)  PROVE FALSE
  BY <1>3 DEF Request, StartRun, UndoStart, RequestResume, Approve, Decline, Decide, RequestRerun,
     ReadCascade, CascadeReset, Replay, ResolveEntry, Dismiss, WriteStatus, database
<1>4. ~(ExpireLock \/ PassThreshold \/ Watchdog \/ Recover)
  BY DEF ExpireLock, PassThreshold, Watchdog, Recover, Crash, Deploy, ReadRun, ResetOrphans, Settle,
     WriteStatus, database
<1> QED  BY <1>1, <1>2, <1>3, <1>4 DEF Next

-----------------------------------------------------------------------------
(* A running step keeps its job.                                           *)

\* f works on the job of s, is about to add it, or could not and is about to say so.
Carries(f, s) == Has(f, s) \/ s \in loc[f].failed

LEMMA JobIsCarried == \A s \in Steps : HasJob(s) <=> Waiting(s) \/ \E f \in Fibers : Carries(f, s)
BY DEF HasJob, Carries, Has, Holds, Adding

\* f passes on what it carries; the others do not move.
LEMMA JobPassed ==
  ASSUME NEW f \in Fibers, Flows(f), NEW s \in Steps, HasJob(s), Waiting(s) => Waiting(s)',
         Carries(f, s) => Carries(f, s)' \/ Waiting(s)'
  PROVE  HasJob(s)'
<1>1. \A g \in Fibers : Carries(g, s) => Carries(g, s)' \/ Waiting(s)'
  BY DEF Flows, Carries, Has, Adding, Holds
<1>2. HasJob(s)' <=> Waiting(s)' \/ \E g \in Fibers : Carries(g, s)'
  BY DEF HasJob, Carries, Has, Holds, Adding
<1> QED  BY <1>1, <1>2, JobIsCarried

LEMMA CarriesNothing ==
  ASSUME RoughInv, NEW f \in Fibers, pc[f] \notin InJob \cup {"add", "rollback"}, NEW s \in Steps
  PROVE  ~Carries(f, s)
BY DEF RoughInv, RoughMinds, Learned, Carries, Has, Adding, Holds

LEMMA QueueGrows ==
  ASSUME TypeOK, NEW t \in Steps, NEW a \in Attempts, AddToQueue(t, a), NEW s \in Steps
  PROVE  (Waiting(s) => Waiting(s)') /\ Waiting(t)'
<1>1. /\ \A u \in Steps \ {t} : queue'[u] = queue[u]
      /\ queue'[t] = [queue[t] EXCEPT ![a] = queue[t][a] + 1] /\ queue[t] \in [Attempts -> Nat]
  BY DEF AddToQueue, TypeOK
<1>2. queue'[t][a] > 0 /\ \A b \in Attempts : queue[t][b] > 0 => queue'[t][b] > 0
  BY <1>1
<1> QED  BY <1>1, <1>2 DEF Waiting

\* What enqueuePendingSteps has marked it adds to the queue, or takes back.
LEMMA EnqueueKeepsJob ==
  ASSUME TypeOK, RoughInv, NEW f \in Fibers, EnqueuePendingSteps(f) \/ ReadStale(f) \/ ResetStale(f),
         NEW s \in Steps, HasJob(s), status'[s] = "running"
  PROVE  HasJob(s)'
<1>0. loc[f] \in Locals /\ 0 \in Attempts /\ Flows(f)
  <2>1. Flows(f)  BY EnqueueFlow
  <2>2. loc[f] \in Locals /\ 0 \in Attempts  BY EngineAssumption DEF TypeOK, Attempts
  <2> QED  BY <2>1, <2>2
<1>1. CASE AddJob(f)
  <2>1. PICK t \in loc[f].todo : LET l == [loc[f] EXCEPT !.todo = @ \ {t}, !.some = TRUE] IN
          Goto(f, "add", AfterAdd(l), l) /\ AddToQueue(t, 0)
    BY <1>1 DEF AddJob
  <2> DEFINE l == [loc[f] EXCEPT !.todo = @ \ {t}, !.some = TRUE]
  <2>2. t \in Steps /\ l.todo = loc[f].todo \ {t} /\ l.failed = loc[f].failed
    BY <1>0 DEF Locals
  <2> HIDE DEF l
  <2>3. Goto(f, "add", AfterAdd(l), l)  BY <2>1 DEF l
  <2>4. pc[f] = "add" /\ pc'[f] = AfterAdd(l) /\ loc'[f] = l  BY <2>3, Moves
  <2>5. (Waiting(s) => Waiting(s)') /\ Waiting(t)'  BY <1>0, <2>1, <2>2, QueueGrows
  <2>6. ASSUME Has(f, s), s # t  PROVE Has(f, s)'
    <3>1. s \in l.todo  BY <2>2, <2>4, <2>6 DEF Has, Adding, Holds, InJob
    <3>2. AfterAdd(l) = "add"
      <4>1. l.todo # {}  BY <3>1
      <4> QED  BY <4>1 DEF AfterAdd
    <3> QED  BY <2>4, <3>1, <3>2 DEF Has, Adding
  <2>7. Carries(f, s) => Carries(f, s)' \/ Waiting(s)'
    BY <2>2, <2>4, <2>5, <2>6 DEF Carries
  <2> QED  BY <1>0, <2>5, <2>7, JobPassed
<1>2. CASE AddFails(f)
  <2>1. PICK t \in loc[f].todo :
          LET l == [loc[f] EXCEPT !.todo = @ \ {t}, !.failed = @ \cup {t}] IN
          Goto(f, "add", AfterAdd(l), l)
    BY <1>2 DEF AddFails
  <2> DEFINE l == [loc[f] EXCEPT !.todo = @ \ {t}, !.failed = @ \cup {t}]
  <2>2. l.todo = loc[f].todo \ {t} /\ l.failed = loc[f].failed \cup {t}  BY <1>0 DEF Locals
  <2> HIDE DEF l
  <2>3. Goto(f, "add", AfterAdd(l), l)  BY <2>1 DEF l
  <2>4. pc[f] = "add" /\ pc'[f] = AfterAdd(l) /\ loc'[f] = l  BY <2>3, Moves
  <2>5. ASSUME Has(f, s)  PROVE Carries(f, s)'
    <3>1. s \in l.todo \cup l.failed  BY <2>2, <2>4, <2>5 DEF Has, Adding, Holds, InJob
    <3>2. s \in l.todo => AfterAdd(l) = "add"
      <4>1. s \in l.todo => l.todo # {}  OBVIOUS
      <4> QED  BY <4>1 DEF AfterAdd
    <3> QED  BY <2>4, <3>1, <3>2 DEF Carries, Has, Adding
  <2>6. Carries(f, s) => Carries(f, s)'  BY <2>2, <2>4, <2>5 DEF Carries
  <2>7. queue' = queue  BY <1>2 DEF AddFails, redis
  <2> QED  BY <1>0, <2>6, <2>7, JobPassed DEF Waiting
<1>3. CASE RollbackFailures(f)
  <2>1. pc[f] = "rollback" /\ queue' = queue /\ s \notin loc[f].failed
    BY <1>3 DEF RollbackFailures, Goto, WriteStatus, redis
  <2>2. ~Carries(f, s)  BY <2>1 DEF Carries, Has, Adding, Holds, InJob
  <2> QED  BY <1>0, <2>1, <2>2, JobPassed DEF Waiting
<1>4. CASE ~(AddJob(f) \/ AddFails(f) \/ RollbackFailures(f))
  <2>1. pc[f] \notin InJob \cup {"add", "rollback"} /\ queue' = queue
    <3>1. CASE \/ AcquireLock(f) \/ ReadEligible(f) \/ MarkRunning(f) \/ CheckTerminal(f)
               \/ CompleteRun(f) \/ ResetStale(f) \/ LockBusy(f) \/ DeleteLock(f)
      BY <3>1 DEF AcquireLock, ReadEligible, MarkRunning, CheckTerminal, CompleteRun, ResetStale,
         LockBusy, DeleteLock, Finish, GiveUp, Return, Goto, InJob, redis
    <3>2. CASE CompareLock(f) \/ ReadStale(f) \/ LockFails(f) \/ ReleaseFails(f)
      BY <3>2 DEF CompareLock, ReadStale, LockFails, ReleaseFails, Finish, GiveUp, Return, Goto, InJob,
         redis
    <3> QED  BY <1>4, <3>1, <3>2 DEF EnqueuePendingSteps
  <2> QED  BY <1>0, <2>1, CarriesNothing, JobPassed DEF Waiting
<1> QED  BY <1>1, <1>2, <1>3, <1>4

\* A worker keeps the job of a step that it leaves running, or puts it back.
LEMMA ProcessKeepsJob ==
  ASSUME TypeOK, RoughInv, NEW w \in Workers, Process(w), NEW s \in Steps, HasJob(s),
         status[s] = "running", status'[s] = "running", ~GivesUp(w, s)
  PROVE  HasJob(s)'
<1>0. w \in Fibers /\ Flows(w) /\ Learned(w) /\ loc[w] \in Locals
  BY ProcessFlow DEF RoughInv, RoughMinds, Fibers, TypeOK
<1>1. CASE TakeJob(w)
  <2>1. PICK t \in Steps, a \in Attempts :
          /\ Goto(w, "idle", "execute", [Blank EXCEPT !.op = "job", !.step = t, !.att = a,
                                                      !.fresh = HasInputs(t)])
          /\ queue' = [queue EXCEPT ![t][a] = @ - 1]
    BY <1>1 DEF TakeJob
  <2> DEFINE l == [Blank EXCEPT !.op = "job", !.step = t, !.att = a, !.fresh = HasInputs(t)]
  <2>2. l.step = t  BY DEF Blank
  <2> HIDE DEF l
  <2>3. Goto(w, "idle", "execute", l)  BY <2>1 DEF l
  <2>4. pc[w] = "idle" /\ pc'[w] = "execute" /\ loc'[w] = l  BY <1>0, <2>3, Moves
  <2>5. CASE s = t  BY <1>0, <2>2, <2>4, <2>5 DEF HasJob, InJob
  <2>6. CASE s # t
    <3>1. Waiting(s) => Waiting(s)'  BY <2>1, <2>6 DEF Waiting, TypeOK
    <3>2. ~Carries(w, s)  BY <1>0, <2>4, CarriesNothing DEF InJob
    <3> QED  BY <1>0, <3>1, <3>2, JobPassed
  <2> QED  BY <2>5, <2>6
<1>2. CASE \/ ExecutionFails(w) \/ StoreFails(w) \/ Catch(w) \/ MarkFailed(w) \/ AssessRun(w)
           \/ FailRun(w)
  <2>1. PICK p \in InJob, q \in InJob : Goto(w, p, q, loc[w])
    BY <1>2 DEF ExecutionFails, StoreFails, Catch, MarkFailed, AssessRun, FailRun, InJob
  <2>2. queue' = queue
    BY <1>2 DEF ExecutionFails, StoreFails, Catch, MarkFailed, AssessRun, FailRun, redis
  <2>3. pc[w] \in InJob /\ pc'[w] \in InJob /\ loc'[w] = loc[w]  BY <1>0, <2>1, Moves
  <2>4. Carries(w, s) => Carries(w, s)'  BY <2>3 DEF Carries, Has, Adding, Holds, InJob
  <2> QED  BY <1>0, <2>2, <2>4, JobPassed DEF Waiting
<1>3. CASE PersistResult(w) \/ StoreContext(w)
  <2>1. ~Carries(w, s)
    <3>1. pc[w] \in {"execute", "context"} /\ loc[w].failed = {}
      BY <1>0, <1>3 DEF PersistResult, StoreContext, Return, Goto, Learned
    <3>2. CASE PersistResult(w)
      <4>1. s # loc[w].step  BY <3>2 DEF PersistResult, WriteStatus
      <4> QED  BY <3>1, <4>1 DEF Carries, Has, Adding, Holds
    <3>3. CASE StoreContext(w)
      <4>1. pc[w] = "context"  BY <3>3 DEF StoreContext, Return, Goto
      <4>2. ~Owns(w, s)  BY <1>0, <4>1 DEF RoughInv, RoughJobs, OwnStatus, OwnedBy, Unmade
      <4> QED  BY <4>2 DEF Carries, Owns
    <3> QED  BY <1>3, <3>2, <3>3
  <2>2. queue' = queue  BY <1>3 DEF PersistResult, StoreContext, redis
  <2> QED  BY <1>0, <2>1, <2>2, JobPassed DEF Waiting
<1>4. CASE Rethrow(w)
  <2>1. pc[w] = "rethrow" /\ loc[w].step \in Steps /\ loc[w].att \in Attempts /\ loc[w].failed = {}
    BY <1>0, <1>4 DEF Rethrow, Return, Goto, Learned, InJob, Locals
  <2>2. CASE loc[w].step = s
    <3>1. loc[w].att + 1 \in Attempts  BY <2>1, <2>2, EngineAssumption DEF GivesUp, Attempts
    <3>2. AddToQueue(s, loc[w].att + 1)  BY <1>4, <2>2, <3>1 DEF Rethrow
    <3>3. Waiting(s)'  BY <3>1, <3>2, QueueGrows
    <3> QED  BY <3>3 DEF HasJob
  <2>3. CASE loc[w].step # s
    <3>1. ~Carries(w, s)  BY <2>1, <2>3 DEF Carries, Has, Adding, Holds
    <3>2. Waiting(s) => Waiting(s)'
      <4>1. CASE queue' = queue  BY <4>1 DEF Waiting
      <4>2. CASE queue' # queue  BY <1>4, <2>1, <4>2, QueueGrows DEF Rethrow
      <4> QED  BY <4>1, <4>2
    <3> QED  BY <1>0, <3>1, <3>2, JobPassed
  <2> QED  BY <2>2, <2>3
<1> QED  BY <1>1, <1>2, <1>3, <1>4 DEF Process

LEMMA RequestKeepsJob ==
  ASSUME TypeOK, RoughInv, NEW c \in Clients, Request(c), NEW s \in Steps, HasJob(s)
  PROVE  HasJob(s)'
<1>1. CASE Decline(c) \/ Dismiss(c)
  BY <1>1 DEF Decline, Decide, Dismiss, redis, HasJob, Waiting
<1>2. CASE ~(Decline(c) \/ Dismiss(c))
  <2>1. c \in Fibers /\ Flows(c) /\ ~Carries(c, s)
    <3>1. c \in Fibers /\ Flows(c) /\ pc[c] \notin InJob \cup {"add", "rollback"}
      BY <1>2, RequestFlow DEF InJob
    <3> QED  BY <3>1, CarriesNothing
  <2>2. Waiting(s) => Waiting(s)'
    <3>1. CASE Replay(c)
      <4>1. PICK t \in Steps : AddToQueue(t, 0)  BY <3>1 DEF Replay
      <4>2. 0 \in Attempts  BY EngineAssumption DEF Attempts
      <4> QED  BY <4>1, <4>2, QueueGrows
    <3>2. CASE ~Replay(c)
      BY <1>2, <3>2 DEF Request, StartRun, UndoStart, RequestResume, Approve, Decide, RequestRerun,
         ReadCascade, CascadeReset, ResolveEntry, redis, Waiting
    <3> QED  BY <3>1, <3>2
  <2> QED  BY <2>1, <2>2, JobPassed
<1> QED  BY <1>1, <1>2

\* While the bootstrap looks at the run, no step has a job.
LEMMA NoJobAtBoot ==
  ASSUME RoughInv, Recovering, NEW s \in Steps
  PROVE  ~HasJob(s)
<1>1. (\A g \in Fibers : pc[g] \in {"idle", "boot", "orphans", "settle"}) /\ ~Waiting(s)
  BY DEF RoughInv, RoughMinds, Recovery, Recovering
<1>2. \A g \in Fibers : ~Carries(g, s)  BY <1>1, CarriesNothing DEF InJob
<1> QED  BY <1>1, <1>2, JobIsCarried

\* No step of the engine but a crash takes the job from a step and leaves it running.
LEMMA JobKept ==
  ASSUME Rough, Base, RoughInv, Next, ~Crash, NEW s \in Steps, ~Stranded(s),
         \A w \in Workers : ~GivesUp(w, s)
  PROVE  ~Stranded(s)'
<1> SUFFICES ASSUME status'[s] = "running"  PROVE HasJob(s)'
  BY DEF Stranded
<1>0. TypeOK  BY DEF Base
<1>1. CASE status[s] # "running"
  <2>1. PICK f \in Fibers : MarkRunning(f) /\ s \in loc[f].todo  BY <1>0, <1>1, RunningIsMarked
  <2>2. pc'[f] = "add" /\ loc'[f] = loc[f]  BY <1>0, <2>1, Moves DEF MarkRunning
  <2> QED  BY <2>1, <2>2 DEF HasJob
<1>2. CASE status[s] = "running"
  <2>0. HasJob(s)  BY <1>2 DEF Stranded
  <2>1. ASSUME ExpireLock \/ PassThreshold  PROVE HasJob(s)'
    BY <2>0, <2>1 DEF ExpireLock, PassThreshold, redis, HasJob, Waiting
  <2>2. ASSUME Watchdog  PROVE HasJob(s)'
    <3>1. Cron \in Fibers /\ Flows(Cron) /\ ~Carries(Cron, s)
      BY <1>0, <2>2, WatchdogFlow, CarriesNothing DEF InJob
    <3>2. queue' = queue  BY <2>2 DEF Watchdog, redis
    <3> QED  BY <2>0, <3>1, <3>2, JobPassed DEF Waiting
  <2>3. ~Recover
    BY <2>0, NoJobAtBoot
       DEF Recover, Deploy, Rough, ReadRun, ResetOrphans, Settle, Return, Goto, Recovering
  <2> QED
    BY <1>0, <1>2, <2>0, <2>1, <2>2, <2>3, EnqueueKeepsJob, ProcessKeepsJob, RequestKeepsJob DEF Next
<1> QED  BY <1>1, <1>2

-----------------------------------------------------------------------------
(* The reconciliation finds every running step.                            *)

Caught ==
  /\ pc[Boot] = "orphans" => \A s \in Steps : status[s] = "running" => s \in loc[Boot].todo
  /\ pc[Boot] = "settle" => \A s \in Steps : status[s] # "running"

\* Until the bootstrap has settled the run, nobody else does anything.
LEMMA BootAlone ==
  ASSUME Rough, TypeOK, RoughInv, Next, Recovering
  PROVE  Crash \/ ReadRun \/ ResetOrphans \/ Settle \/ ExpireLock \/ PassThreshold
<1>0. /\ Boot \in Fibers /\ Boot \notin Workers \cup Clients
      /\ \A f \in Workers \cup Clients : f \in Fibers
      /\ (\A g \in Fibers \ {Boot} : pc[g] = "idle") /\ \A s \in Steps : ~Waiting(s)
  BY EngineAssumption DEF Fibers, RoughInv, RoughMinds, Recovery
<1>1. ASSUME NEW f \in Fibers, EnqueuePendingSteps(f) \/ ReadStale(f) \/ ResetStale(f)
      PROVE  FALSE
  <2>1. pc[f] \in {"idle", "boot", "orphans", "settle"}  BY <1>0 DEF Recovering
  <2>2. CASE \/ AcquireLock(f) \/ LockBusy(f) \/ ReadEligible(f) \/ MarkRunning(f) \/ AddJob(f)
             \/ RollbackFailures(f) \/ CheckTerminal(f) \/ CompleteRun(f) \/ ReadStale(f) \/ ResetStale(f)
    BY <2>1, <2>2 DEF AcquireLock, LockBusy, GiveUp, ReadEligible, MarkRunning, AddJob, RollbackFailures,
       CheckTerminal, CompleteRun, ReadStale, ResetStale, Return, Goto
  <2>3. CASE CompareLock(f) \/ DeleteLock(f) \/ LockFails(f) \/ AddFails(f) \/ ReleaseFails(f)
    BY <2>1, <2>3 DEF CompareLock, DeleteLock, LockFails, AddFails, ReleaseFails, Finish, GiveUp, Return,
       Goto
  <2> QED  BY <1>1, <2>2, <2>3 DEF EnqueuePendingSteps
<1>2. ASSUME NEW w \in Workers, Process(w)  PROVE FALSE
  BY <1>0, <1>2 DEF Process, TakeJob, PersistResult, ExecutionFails, StoreContext, StoreFails, Catch,
     MarkFailed, AssessRun, FailRun, Rethrow, Return, Goto, Waiting
<1>3. ASSUME NEW c \in Clients, Request(c)  PROVE FALSE
  BY <1>0, <1>3, EngineAssumption DEF Request, StartRun, UndoStart, RequestResume, Approve, Decline,
     RequestRerun, ReadCascade, CascadeReset, Replay, ResolveEntry, Dismiss, Begin, Return, Goto,
     Recovering
<1>4. ~Watchdog /\ ~Deploy  BY DEF Watchdog, Begin, Deploy, Recovering, Rough
<1> QED  BY <1>1, <1>2, <1>3, <1>4 DEF Next, Recover

\* Only the bootstrap's own steps take it there.
LEMMA BootOnly ==
  ASSUME Rough, TypeOK, Next, pc'[Boot] \in {"orphans", "settle"}, pc[Boot] \notin {"boot", "orphans"}
  PROVE  pc[Boot] = "settle"
<1>0. Boot \in Fibers  BY DEF Fibers
<1>1. ASSUME NEW f \in Fibers, Flows(f)  PROVE pc[Boot] = "settle"
  BY <1>0, <1>1 DEF Flows
<1>2. ASSUME NEW c \in Clients, Request(c)  PROVE pc[Boot] = "settle"
  <2>1. CASE Decline(c) \/ Dismiss(c)  BY <2>1 DEF Decline, Dismiss
  <2> QED  BY <1>1, <1>2, <2>1, RequestFlow
<1>3. ASSUME ExpireLock \/ PassThreshold  PROVE pc[Boot] = "settle"
  BY <1>3 DEF ExpireLock, PassThreshold
<1>4. ASSUME Recover  PROVE pc[Boot] = "settle"
  BY <1>0, <1>4 DEF Recover, Crash, Deploy, Rough, ReadRun, ResetOrphans, Settle, Return, Goto
<1> QED  BY <1>1, <1>2, <1>3, <1>4, EnqueueFlow, ProcessFlow, WatchdogFlow DEF Next

LEMMA CaughtInductive ==
  ASSUME Rough, TypeOK, RoughInv, Caught, Next
  PROVE  Caught'
<1> SUFFICES ASSUME pc'[Boot] \in {"orphans", "settle"}  PROVE Caught'
  BY DEF Caught
<1>0. Boot \in Fibers /\ Recovering  BY BootOnly DEF Fibers, Recovering
<1>1. CASE ReadRun
  <2>1. ~Return(Boot, "boot") /\ status' = status
    BY <1>0, <1>1 DEF ReadRun, Return, Goto, TypeOK, database
  <2> DEFINE running == {s \in Steps : status[s] = "running"}
             l == [Blank EXCEPT !.op = Verdict, !.todo = running]
  <2>2. Goto(Boot, "boot", IF running = {} THEN "settle" ELSE "orphans", l)
    BY <1>1, <2>1 DEF ReadRun
  <2>3. l.todo = running  BY DEF Blank
  <2> HIDE DEF l
  <2>4. pc'[Boot] = (IF running = {} THEN "settle" ELSE "orphans") /\ loc'[Boot].todo = running
    BY <1>0, <2>2, <2>3, Moves
  <2>5. \A s \in Steps : status'[s] = "running" <=> s \in running  BY <2>1
  <2> HIDE DEF running
  <2> QED  BY <2>4, <2>5 DEF Caught
<1>2. CASE ResetOrphans
  <2>1. /\ pc[Boot] = "orphans" /\ pc'[Boot] = "settle"
        /\ \A s \in Steps : status'[s] = IF s \in loc[Boot].todo THEN "pending" ELSE status[s]
    BY <1>0, <1>2 DEF ResetOrphans, WriteStatus, Goto, TypeOK
  <2> QED  BY <2>1 DEF Caught
<1>3. CASE ExpireLock \/ PassThreshold
  BY <1>3 DEF ExpireLock, PassThreshold, database, Caught
<1>4. ~Crash /\ ~Settle
  BY <1>0 DEF Crash, Settle, Return, Goto, TypeOK
<1> QED  BY <1>0, <1>1, <1>2, <1>3, <1>4, BootAlone

\* Every running step has its job, until a crash or its last attempt takes it: no interleaving of
\* enqueuePendingSteps, the catch blocks, the resets and failing Redis commands forgets a step, and
\* the reconciliation leaves no orphan behind in a running run.
THEOREM NothingStranded == Rough => (Spec => StrandsNothing)
<1> SUFFICES ASSUME Rough  PROVE Spec => StrandsNothing
  OBVIOUS
<1>1. Init => Caught  BY DEF Init, Caught, Fibers
<1>2. Base /\ RoughInv /\ Caught /\ [Next]_vars => Caught'
  <2>1. Base /\ RoughInv /\ Caught /\ Next => Caught'  BY CaughtInductive DEF Base
  <2>2. Caught /\ UNCHANGED vars => Caught'  BY DEF vars, database, Caught
  <2> QED  BY <2>1, <2>2
<1>3. Base /\ RoughInv /\ Caught' /\ [Next]_vars =>
        [/\ Strands => crashes' # crashes
         /\ pc'[Boot] = "settle" => \A s \in Steps : status'[s] # "running"]_vars
  <2> SUFFICES ASSUME Base, RoughInv, Caught', Next
               PROVE  /\ Strands => crashes' # crashes
                      /\ pc'[Boot] = "settle" => \A s \in Steps : status'[s] # "running"
    OBVIOUS
  <2>1. ASSUME Crash  PROVE crashes' # crashes  BY <2>1 DEF Crash, Base, TypeOK
  <2>2. ~Crash => ~Strands  BY JobKept DEF Strands
  <2> QED  BY <2>1, <2>2 DEF Caught
<1> QED  BY <1>1, <1>2, <1>3, RoughInvariant, PTL DEF Spec, StrandsNothing

-----------------------------------------------------------------------------
(* Every artifact is made from the latest inputs.                          *)

\* One server instance, with its one worker, that does not crash between the two writes of a
\* job: the result, and the context that other steps read.  Redis may fail.
Sequential ==
  /\ "db" \notin Faults /\ MaxCrashes = 0
  /\ \A v, w \in Workers : v = w

\* f has persisted a result of s, and its context not yet.
AtDoor(f, s) == pc[f] = "context" /\ loc[f].step = s

Delivered(s) == version[s] > 0 /\ (context[s] = version[s] \/ \E f \in Fibers : AtDoor(f, s))

\* Everything s depends on has delivered.
Fed(s) == \A d \in Deps[s] : Delivered(d)

\* s runs, has run or may run again: only a step whose inputs were there comes to that.
Engaged(s) ==
  status[s] \notin {"pending", "approved"} \/ Waiting(s) \/ \E f \in Fibers : Owns(f, s)

FreshInv ==
  /\ FreshInputs
  /\ ~Recovering
  /\ \A s \in Steps : Engaged(s) => Fed(s)
  /\ \A f \in Fibers : pc[f] = "mark" => \A s \in loc[f].todo : Fed(s)
  /\ \A f \in Fibers : loc[f].op = "job" => f \in Workers
  /\ \A f \in Fibers : pc[f] = "execute" => loc[f].fresh
  /\ \A f \in Fibers, s \in Steps : AtDoor(f, s) => loc[f].out = version[s]
  /\ \A s \in Steps : status[s] \notin Unmade => Delivered(s)

\* f alone moves; it stores no context, begins no recovery, and executes only a job it takes.
\* What it owns afterwards it owned, took from the queue or has just marked.
Marches(f) ==
  /\ \A g \in Fibers \ {f} : pc'[g] = pc[g] /\ loc'[g] = loc[g]
  /\ pc[f] # "context" /\ pc'[f] \notin {"context", "boot", "orphans", "settle"}
  /\ pc'[f] = "execute" => f \in Workers /\ TakeJob(f)
  /\ loc'[f].op = "job" => loc[f].op = "job" \/ f \in Workers
  /\ pc'[f] = "mark" => loc'[f].todo = Eligible(Deps, status)
  /\ \A s \in Steps :
       Owns(f, s)' => Owns(f, s) \/ Waiting(s) \/ (MarkRunning(f) /\ s \in loc[f].todo)

LEMMA GotoMarches ==
  ASSUME TypeOK, NEW f \in Fibers, NEW p, NEW q, NEW l, Goto(f, p, q, l), p # "context",
         q \notin {"execute", "context", "mark", "boot", "orphans", "settle"},
         l.op = "job" => loc[f].op = "job" \/ f \in Workers,
         \A s \in Steps : \/ q = "add" /\ s \in l.todo
                          \/ q \in InJob /\ l.step = s
                          \/ s \in l.failed
                          \/ q = "lock" /\ l.op = "job" /\ l.step = s
                          => Owns(f, s)
  PROVE  Marches(f)
<1>1. /\ pc[f] = p /\ pc'[f] = q /\ loc'[f] = l
      /\ \A g \in Fibers \ {f} : pc'[g] = pc[g] /\ loc'[g] = loc[g]
  BY Moves
<1>2. \A s \in Steps : Owns(f, s)' => Owns(f, s)
  <2> SUFFICES ASSUME NEW s \in Steps, Owns(f, s)'  PROVE Owns(f, s)
    OBVIOUS
  <2> HIDE DEF Goto
  <2>1. \/ q = "add" /\ s \in l.todo
        \/ q \in InJob /\ l.step = s
        \/ s \in l.failed
        \/ q = "lock" /\ l.op = "job" /\ l.step = s
    BY <1>1 DEF Owns, Has, Adding, Holds, Retriable
  <2> QED  BY <2>1
<1> HIDE DEF Goto
<1> QED  BY <1>1, <1>2 DEF Marches

\* f puts its work down, or goes where it owns nothing by being there.
LEMMA EasyMarches ==
  ASSUME TypeOK, NEW f \in Fibers, NEW p, NEW q, NEW l, Goto(f, p, q, l), p # "context",
         q \notin InJob \cup {"add", "lock", "mark", "boot", "orphans", "settle"},
         l.op \in {"none", loc[f].op}, l.failed \subseteq loc[f].failed
  PROVE  Marches(f)
<1>1. q # "execute" /\ q # "context"  BY DEF InJob
<1>2. \A s \in l.failed : Owns(f, s)  BY DEF Owns
<1> HIDE DEF Goto
<1> QED  BY <1>1, <1>2, GotoMarches

LEMMA EndMarches ==
  ASSUME TypeOK, NEW f \in Fibers, NEW p, Return(f, p) \/ GiveUp(f, p) \/ Finish(f, p),
         p # "context"
  PROVE  Marches(f)
<1>1. "idle" \notin InJob /\ "undo" \notin InJob /\ Blank.op = "none" /\ Blank.failed = {}
  BY DEF InJob, Blank
<1> HIDE DEF Goto, Blank
<1> QED  BY <1>1, EasyMarches DEF Return, GiveUp, Finish

LEMMA EnqueueMarches ==
  ASSUME TypeOK, RoughInv, NEW f \in Fibers,
         EnqueuePendingSteps(f) \/ ReadStale(f) \/ ResetStale(f)
  PROVE  Marches(f)
<1>0. loc[f] \in Locals /\ Learned(f)  BY DEF TypeOK, RoughInv, RoughMinds
<1>1. CASE AddJob(f)
  <2>1. PICK s \in loc[f].todo : LET l == [loc[f] EXCEPT !.todo = @ \ {s}, !.some = TRUE] IN
          Goto(f, "add", AfterAdd(l), l)
    BY <1>1 DEF AddJob
  <2> DEFINE l == [loc[f] EXCEPT !.todo = @ \ {s}, !.some = TRUE]
  <2>2. AfterAdd(l) \in {"add", "rollback", "unlock"}  BY DEF AfterAdd
  <2>3. /\ l.op = loc[f].op /\ l.failed = loc[f].failed /\ l.todo \subseteq loc[f].todo
        /\ pc[f] = "add"
    BY <1>0, <2>1 DEF Locals, Goto
  <2>4. Goto(f, "add", AfterAdd(l), l)  BY <2>1
  <2> HIDE DEF l, Goto
  <2> QED  BY <2>2, <2>3, <2>4, GotoMarches DEF Owns, Has, Adding, InJob
<1>2. CASE AddFails(f)
  <2>1. PICK s \in loc[f].todo : LET l == [loc[f] EXCEPT !.todo = @ \ {s}, !.failed = @ \cup {s}] IN
          Goto(f, "add", AfterAdd(l), l)
    BY <1>2 DEF AddFails
  <2> DEFINE l == [loc[f] EXCEPT !.todo = @ \ {s}, !.failed = @ \cup {s}]
  <2>2. AfterAdd(l) \in {"add", "rollback", "unlock"}  BY DEF AfterAdd
  <2>3. /\ l.op = loc[f].op /\ l.failed = loc[f].failed \cup {s} /\ l.todo \subseteq loc[f].todo
        /\ pc[f] = "add"
    BY <1>0, <2>1 DEF Locals, Goto
  <2>4. Goto(f, "add", AfterAdd(l), l)  BY <2>1
  <2> HIDE DEF l, Goto
  <2> QED  BY <2>2, <2>3, <2>4, GotoMarches DEF Owns, Has, Adding, InJob
<1>3. CASE LockFails(f)
  <2>1. CASE loc[f].op = "job" /\ Goto(f, "lock", "catch", loc[f])
    <3>1. pc[f] = "lock"  BY <2>1 DEF Goto
    <3>2. \A s \in Steps : s = loc[f].step \/ s \in loc[f].failed => Owns(f, s)
      BY <2>1, <3>1 DEF Owns, Retriable
    <3> HIDE DEF Goto
    <3> QED  BY <2>1, <3>2, GotoMarches
  <2>2. CASE Return(f, "lock")  BY <2>2, EndMarches
  <2> QED  BY <1>3, <2>1, <2>2 DEF LockFails
<1>4. CASE MarkRunning(f)
  BY <1>0, <1>4, Moves DEF Marches, Owns, Has, Adding, Holds, Retriable, InJob, MarkRunning
<1>5. CASE ReadEligible(f)
  <2>1. /\ pc[f] = "read" /\ pc'[f] \in {"terminal", "mark"}
        /\ loc'[f].todo = Eligible(Deps, status)
        /\ loc'[f].op = loc[f].op /\ loc'[f].failed = loc[f].failed
        /\ \A g \in Fibers \ {f} : pc'[g] = pc[g] /\ loc'[g] = loc[g]
    BY <1>0, <1>5 DEF ReadEligible, Goto, TypeOK, Locals
  <2> QED  BY <2>1 DEF Marches, Owns, Has, Adding, Holds, Retriable, InJob
<1>6. CASE AcquireLock(f) \/ CheckTerminal(f) \/ CompleteRun(f)
  <2>1. PICK p \in {"lock", "terminal", "complete"}, q \in {"read", "unlock", "complete"} :
          Goto(f, p, q, loc[f])
    BY <1>6 DEF AcquireLock, CheckTerminal, CompleteRun
  <2> HIDE DEF Goto
  <2> QED  BY <2>1, EasyMarches DEF InJob
<1>7. CASE RollbackFailures(f)
  <2> DEFINE l == [loc[f] EXCEPT !.failed = {}]
  <2>1. PICK q \in {"unlock", "terminal"} : Goto(f, "rollback", q, l)
    BY <1>7 DEF RollbackFailures
  <2>2. l.op = loc[f].op /\ l.failed = {}  BY <1>0 DEF Locals
  <2> HIDE DEF Goto, l
  <2> QED  BY <2>1, <2>2, EasyMarches DEF InJob
<1>8. CASE ResetStale(f) \/ (ReadStale(f) /\ ~Return(f, "resume"))
  <2>1. pc[f] \in {"resume", "reset"} /\ pc'[f] \in {"lock", "reset"}
        /\ loc'[f].op = loc[f].op /\ loc'[f].failed = loc[f].failed
        /\ \A g \in Fibers \ {f} : pc'[g] = pc[g] /\ loc'[g] = loc[g]
    BY <1>0, <1>8 DEF ResetStale, ReadStale, Goto, TypeOK, Locals
  <2>2. loc[f].op = "resume"  BY <1>0, <2>1 DEF Learned
  <2> QED  BY <2>1, <2>2 DEF Marches, Owns, Has, Adding, Holds, Retriable, InJob
<1>9. CASE LockBusy(f) \/ DeleteLock(f) \/ ReleaseFails(f) \/ (ReadStale(f) /\ Return(f, "resume"))
  BY <1>9, EndMarches DEF LockBusy, DeleteLock, ReleaseFails
<1>10. CASE CompareLock(f)
  <2>1. CASE Goto(f, "unlock", "release", loc[f])
    <3> HIDE DEF Goto
    <3> QED  BY <2>1, EasyMarches DEF InJob
  <2>2. CASE Finish(f, "unlock")  BY <2>2, EndMarches
  <2> QED  BY <1>10, <2>1, <2>2 DEF CompareLock
<1> QED
  BY <1>1, <1>2, <1>3, <1>4, <1>5, <1>6, <1>7, <1>8, <1>9, <1>10 DEF EnqueuePendingSteps

\* Who writes results, and the context, and takes a step out of the unmade ones.
LEMMA ResultIsPersisted ==
  ASSUME "anyReview" \notin Faults, Next, \A w \in Workers : ~PersistResult(w)
  PROVE  /\ UNCHANGED <<version, blind>>
         /\ \A s \in Steps : status[s] \in Unmade => status'[s] \in Unmade
         /\ \/ context' = context
            \/ \E w \in Workers : StoreContext(w)
            \/ \E c \in Clients : CascadeReset(c)
<1> USE DEF Unmade, WriteStatus, database, history
<1>1. ASSUME NEW f \in Fibers, EnqueuePendingSteps(f) \/ ReadStale(f) \/ ResetStale(f)
      PROVE  /\ UNCHANGED <<version, blind, context>>
             /\ \A s \in Steps : status[s] \in Unmade => status'[s] \in Unmade
  BY <1>1 DEF EnqueuePendingSteps, AcquireLock, LockBusy, LockFails, ReadEligible, MarkRunning, AddJob,
     AddFails, RollbackFailures, CheckTerminal, CompleteRun, CompareLock, DeleteLock, ReleaseFails,
     ReadStale, ResetStale
<1>2. ASSUME NEW w \in Workers, Process(w)
      PROVE  /\ UNCHANGED <<version, blind>> /\ (context' = context \/ StoreContext(w))
             /\ \A s \in Steps : status[s] \in Unmade => status'[s] \in Unmade
  BY <1>2 DEF Process, TakeJob, ExecutionFails, StoreContext, StoreFails, Catch, MarkFailed,
     AssessRun, FailRun, Rethrow
<1>3. ASSUME NEW c \in Clients, Request(c)
      PROVE  /\ UNCHANGED <<version, blind>> /\ (context' = context \/ CascadeReset(c))
             /\ \A s \in Steps : status[s] \in Unmade => status'[s] \in Unmade
  <2>1. CASE Approve(c) \/ Decline(c)
    <3>1. PICK s, v : s \in Steps /\ Decide(c, s, v)  BY <2>1 DEF Approve, Decline
    <3>2. status[s] \notin Unmade  BY <3>1 DEF Decide, Reviewable
    <3> QED  BY <3>1, <3>2 DEF Decide
  <2> QED
    BY <1>3, <2>1 DEF Request, StartRun, UndoStart, RequestResume, RequestRerun, ReadCascade,
       CascadeReset, Replay, ResolveEntry, Dismiss
<1>4. ASSUME ExpireLock \/ PassThreshold \/ Watchdog \/ Recover
      PROVE  /\ UNCHANGED <<version, blind, context>>
             /\ \A s \in Steps : status[s] \in Unmade => status'[s] \in Unmade
  BY <1>4 DEF ExpireLock, PassThreshold, Watchdog, Recover, Crash, Deploy, ReadRun, ResetOrphans, Settle
<1> QED  BY <1>1, <1>2, <1>3, <1>4 DEF Next

LEMMA ProcessMarches ==
  ASSUME "db" \notin Faults, TypeOK, RoughInv, NEW w \in Workers, Process(w),
         ~PersistResult(w), ~StoreContext(w)
  PROVE  Marches(w)
<1>0. w \in Fibers /\ loc[w] \in Locals  BY DEF TypeOK, Fibers
<1>1. CASE TakeJob(w)
  <2>1. PICK s \in Steps, a \in Attempts :
          /\ Goto(w, "idle", "execute", [Blank EXCEPT !.op = "job", !.step = s, !.att = a,
                                                      !.fresh = HasInputs(s)])
          /\ queue[s][a] > 0
    BY <1>1 DEF TakeJob
  <2>2. /\ pc[w] = "idle" /\ pc'[w] = "execute" /\ loc'[w].step = s /\ loc'[w].failed = {}
        /\ \A g \in Fibers \ {w} : pc'[g] = pc[g] /\ loc'[g] = loc[g]
    BY <1>0, <2>1 DEF Goto, TypeOK, Blank
  <2>3. Waiting(s)  BY <2>1 DEF Waiting
  <2> QED  BY <1>1, <2>2, <2>3 DEF Marches, Owns, Has, Adding, Holds, Retriable
<1>2. CASE ExecutionFails(w) \/ Catch(w) \/ MarkFailed(w) \/ AssessRun(w) \/ FailRun(w)
  <2>1. PICK p \in InJob \ {"context"}, q \in InJob \ {"execute", "context"} :
          Goto(w, p, q, loc[w])
    BY <1>2 DEF ExecutionFails, Catch, MarkFailed, AssessRun, FailRun, InJob
  <2>2. pc[w] = p  BY <2>1 DEF Goto
  <2>3. \A s \in Steps : s = loc[w].step \/ s \in loc[w].failed => Owns(w, s)
    BY <2>1, <2>2 DEF Owns, Has, Holds
  <2>4. q \notin {"add", "mark", "lock", "boot", "orphans", "settle"}  BY <2>1 DEF InJob
  <2> HIDE DEF Goto
  <2> QED  BY <1>0, <2>1, <2>3, <2>4, GotoMarches
<1>3. CASE Rethrow(w)  BY <1>0, <1>3, EndMarches DEF Rethrow
<1> QED  BY <1>1, <1>2, <1>3 DEF Process, StoreFails

LEMMA RequestMarches ==
  ASSUME TypeOK, RoughInv, NEW c \in Clients, Request(c)
  PROVE  Marches(c) \/ UNCHANGED <<pc, loc>>
<1>0. c \in Fibers /\ loc[c] \in Locals /\ Learned(c)
  BY DEF TypeOK, Fibers, RoughInv, RoughMinds
<1>1. CASE StartRun(c) \/ RequestResume(c) \/ Approve(c) \/ RequestRerun(c) \/ Replay(c)
  <2>1. PICK q \in {"lock", "resume", "snapshot", "resolve"},
             o \in {"start", "resume", "review", "rerun", "replay"},
             s \in Steps \cup {NoStep} : Begin(c, q, o, s)
    BY <1>1 DEF StartRun, RequestResume, Approve, RequestRerun, Replay
  <2>2. /\ pc[c] = "idle" /\ pc'[c] = q /\ loc'[c].op = o /\ loc'[c].failed = {}
        /\ \A g \in Fibers \ {c} : pc'[g] = pc[g] /\ loc'[g] = loc[g]
    BY <1>0, <2>1 DEF Begin, Goto, TypeOK, Blank
  <2>3. o # "job" /\ q \notin InJob \cup {"add", "mark", "boot", "orphans", "settle"}
    BY <2>1 DEF InJob
  <2>4. pc'[c] \notin {"execute", "context"}  BY <2>2, <2>3 DEF InJob
  <2> QED  BY <2>2, <2>3, <2>4 DEF Marches, Owns, Has, Adding, Holds, Retriable
<1>2. CASE ReadCascade(c) \/ CascadeReset(c)
  <2>1. /\ pc[c] \in {"snapshot", "cascade"} /\ pc'[c] \in {"cascade", "lock"}
        /\ loc'[c].op = loc[c].op /\ loc'[c].failed = loc[c].failed
        /\ \A g \in Fibers \ {c} : pc'[g] = pc[g] /\ loc'[g] = loc[g]
    BY <1>0, <1>2 DEF ReadCascade, CascadeReset, Goto, TypeOK, Locals
  <2>2. loc[c].op = "rerun"  BY <1>0, <2>1 DEF Learned, Reruns
  <2> QED  BY <2>1, <2>2 DEF Marches, Owns, Has, Adding, Holds, Retriable, InJob
<1>3. CASE UndoStart(c) \/ ResolveEntry(c)
  BY <1>0, <1>3, EndMarches DEF UndoStart, ResolveEntry
<1>4. CASE Decline(c) \/ Dismiss(c)  BY <1>4 DEF Decline, Dismiss
<1> QED  BY <1>1, <1>2, <1>3, <1>4 DEF Request

LEMMA StepMarches ==
  ASSUME Rough, Sequential, TypeOK, RoughInv, FreshInv, Next,
         \A w \in Workers : ~PersistResult(w) /\ ~StoreContext(w)
  PROVE  UNCHANGED <<pc, loc>> \/ \E f \in Fibers : Marches(f)
<1>0. \A f \in Workers \cup Clients \cup {Cron, Boot} : f \in Fibers  BY DEF Fibers
<1>1. ~Recover
  <2>1. ~Crash /\ ~Deploy  BY DEF Crash, Deploy, Sequential, TypeOK
  <2>2. ~ReadRun /\ ~ResetOrphans /\ ~Settle
    BY DEF ReadRun, ResetOrphans, Settle, Return, Goto, FreshInv, Recovering
  <2> QED  BY <2>1, <2>2 DEF Recover
<1>2. CASE Watchdog
  <2>1. PICK q \in {"read", "resume"}, o \in {"enqueue", "resume"} : Begin(Cron, q, o, NoStep)
    BY <1>2 DEF Watchdog
  <2>2. /\ pc[Cron] = "idle" /\ pc'[Cron] = q /\ loc'[Cron].op = o /\ loc'[Cron].failed = {}
        /\ \A g \in Fibers \ {Cron} : pc'[g] = pc[g] /\ loc'[g] = loc[g]
    BY <1>0, <2>1 DEF Begin, Goto, TypeOK, Blank
  <2>3. Marches(Cron)  BY <2>2 DEF Marches, Owns, Has, Adding, Holds, Retriable, InJob
  <2> QED  BY <1>0, <2>3
<1>3. CASE ExpireLock \/ PassThreshold  BY <1>3 DEF ExpireLock, PassThreshold
<1>4. CASE \E f \in Fibers : EnqueuePendingSteps(f) \/ ReadStale(f) \/ ResetStale(f)
  BY <1>4, EnqueueMarches
<1>5. CASE \E w \in Workers : Process(w)  BY <1>0, <1>5, ProcessMarches DEF Sequential
<1>6. CASE \E c \in Clients : Request(c)  BY <1>0, <1>6, RequestMarches
<1> QED  BY <1>1, <1>2, <1>3, <1>4, <1>5, <1>6 DEF Next

Marked(s) == \E f \in Fibers : MarkRunning(f) /\ s \in loc[f].todo

LEMMA StatusEngages ==
  ASSUME Rough, TypeOK, RoughInv, Next, NEW s \in Steps, status'[s] \notin {"pending", "approved"}
  PROVE  Engaged(s) \/ Marked(s)
<1>1. ASSUME NEW f \in Fibers, EnqueuePendingSteps(f) \/ ReadStale(f) \/ ResetStale(f)
      PROVE  status'[s] = status[s] \/ (MarkRunning(f) /\ s \in loc[f].todo)
  <2>1. MarkRunning(f) \/ RollbackFailures(f) \/ ResetStale(f) \/ UNCHANGED status
    BY <1>1 DEF EnqueuePendingSteps, AcquireLock, LockBusy, LockFails, ReadEligible, AddJob, AddFails,
       CheckTerminal, CompleteRun, CompareLock, DeleteLock, ReleaseFails, ReadStale, database
  <2>2. CASE MarkRunning(f)  BY <2>2 DEF MarkRunning, WriteStatus
  <2>3. CASE RollbackFailures(f) \/ ResetStale(f)
    BY <2>3 DEF RollbackFailures, ResetStale, WriteStatus
  <2> QED  BY <2>1, <2>2, <2>3
<1>2. ASSUME NEW w \in Workers, Process(w)  PROVE status'[s] = status[s] \/ Holds(w, s)
  <2>1. PersistResult(w) \/ MarkFailed(w) \/ UNCHANGED status
    BY <1>2 DEF Process, TakeJob, ExecutionFails, StoreContext, StoreFails, Catch, AssessRun, FailRun,
       Rethrow, database
  <2>2. CASE PersistResult(w) \/ MarkFailed(w)
    <3>1. pc[w] \in InJob  BY <2>2 DEF PersistResult, MarkFailed, Goto, InJob
    <3>2. status'[s] = status[s] \/ s = loc[w].step
      BY <2>2 DEF PersistResult, MarkFailed, WriteStatus
    <3> QED  BY <3>1, <3>2 DEF Holds
  <2> QED  BY <2>1, <2>2
<1>3. ASSUME NEW c \in Clients, Request(c)
      PROVE  status'[s] = status[s] \/ status[s] \notin {"pending", "approved"}
  <2>1. Approve(c) \/ Decline(c) \/ CascadeReset(c) \/ UNCHANGED status
    BY <1>3 DEF Request, StartRun, UndoStart, RequestResume, RequestRerun, ReadCascade, Replay,
       ResolveEntry, Dismiss, database
  <2>2. CASE Approve(c) \/ CascadeReset(c)
    BY <2>2 DEF Approve, CascadeReset, Decide, WriteStatus
  <2>3. CASE Decline(c)
    <3>1. "anyReview" \notin Faults  BY DEF Rough
    <3> QED  BY <2>3, <3>1 DEF Decline, Decide, WriteStatus
  <2> QED  BY <2>1, <2>2, <2>3
<1>4. ASSUME ExpireLock \/ PassThreshold \/ Watchdog \/ Recover  PROVE status'[s] = status[s]
  <2>1. ResetOrphans \/ UNCHANGED status
    BY <1>4 DEF ExpireLock, PassThreshold, Watchdog, Recover, Crash, Deploy, ReadRun, Settle, database
  <2> QED  BY <2>1 DEF ResetOrphans, WriteStatus
<1>5. \A w \in Workers : Holds(w, s) => Engaged(s)
  BY DEF Engaged, Owns, Has, Fibers
<1> QED  BY <1>1, <1>2, <1>3, <1>4, <1>5 DEF Next, Engaged, Marked

LEMMA QueueEngages ==
  ASSUME Rough, TypeOK, RoughInv, Next, NEW s \in Steps, Waiting(s)'
  PROVE  Engaged(s)
<1>1. ASSUME NEW t \in Steps, NEW a \in Attempts, AddToQueue(t, a), Engaged(t)  PROVE Engaged(s)
  <2>1. t = s \/ queue'[s] = queue[s]  BY <1>1 DEF AddToQueue, TypeOK
  <2> QED  BY <1>1, <2>1 DEF Engaged, Waiting
<1>2. ASSUME queue' = queue  PROVE Engaged(s)
  BY <1>2 DEF Engaged, Waiting
<1>3. ASSUME NEW f \in Fibers, EnqueuePendingSteps(f) \/ ReadStale(f) \/ ResetStale(f)
      PROVE  Engaged(s)
  <2>1. CASE AddJob(f)
    <3>1. PICK t \in loc[f].todo : AddToQueue(t, 0) /\ pc[f] = "add"
      BY <2>1 DEF AddJob, Goto
    <3>2. t \in Steps /\ 0 \in Attempts  BY <3>1, EngineAssumption DEF TypeOK, Locals, Attempts
    <3>3. Engaged(t)  BY <3>1, <3>2 DEF Engaged, Owns, Has, Adding
    <3> QED  BY <1>1, <3>1, <3>2, <3>3
  <2>2. AddJob(f) \/ queue' = queue
    BY <1>3 DEF EnqueuePendingSteps, AcquireLock, LockBusy, LockFails, ReadEligible, MarkRunning,
       AddFails, RollbackFailures, CheckTerminal, CompleteRun, CompareLock, DeleteLock, ReleaseFails,
       ReadStale, ResetStale, redis
  <2> QED  BY <1>2, <2>1, <2>2
<1>4. ASSUME NEW w \in Workers, Process(w)  PROVE Engaged(s)
  <2>1. CASE TakeJob(w)
    <3>1. PICK t \in Steps, a \in Attempts : queue' = [queue EXCEPT ![t][a] = @ - 1]
      BY <2>1 DEF TakeJob
    <3>2. \A b \in Attempts : queue'[s][b] > 0 => queue[s][b] > 0
      <4>1. queue \in [Steps -> [Attempts -> Nat]]  BY DEF TypeOK
      <4>2. CASE s = t  BY <3>1, <4>1, <4>2
      <4>3. CASE s # t  BY <3>1, <4>1, <4>3
      <4> QED  BY <4>2, <4>3
    <3> QED  BY <3>2 DEF Engaged, Waiting
  <2>2. CASE Rethrow(w)
    <3>1. pc[w] = "rethrow" /\ w \in Fibers  BY <2>2 DEF Rethrow, Return, Goto, Fibers
    <3>2. loc[w].step \in Steps  BY <3>1 DEF RoughInv, RoughMinds, Learned, InJob
    <3>3. Engaged(loc[w].step)  BY <3>1, <3>2 DEF Engaged, Owns, Has, Holds, InJob
    <3> QED  BY <1>1, <1>2, <2>2, <3>2, <3>3 DEF Rethrow
  <2>3. TakeJob(w) \/ Rethrow(w) \/ queue' = queue
    BY <1>4 DEF Process, PersistResult, ExecutionFails, StoreContext, StoreFails, Catch, MarkFailed,
       AssessRun, FailRun, redis
  <2> QED  BY <1>2, <2>1, <2>2, <2>3
<1>5. ASSUME NEW c \in Clients, Request(c)  PROVE Engaged(s)
  <2>1. CASE Replay(c)
    <3>1. "lateReplay" \notin Faults /\ 0 \in Attempts  BY EngineAssumption DEF Rough, Attempts
    <3>2. PICK t \in Steps : AddToQueue(t, 0) /\ status[t] = "failed"  BY <2>1, <3>1 DEF Replay
    <3> QED  BY <1>1, <3>1, <3>2 DEF Engaged
  <2>2. Replay(c) \/ queue' = queue
    BY <1>5 DEF Request, StartRun, UndoStart, RequestResume, Approve, Decline, Decide, RequestRerun,
       ReadCascade, CascadeReset, ResolveEntry, Dismiss, redis
  <2> QED  BY <1>2, <2>1, <2>2
<1>6. ASSUME ExpireLock \/ PassThreshold \/ Watchdog \/ Recover  PROVE queue' = queue
  BY <1>6 DEF ExpireLock, PassThreshold, Watchdog, Recover, Crash, Deploy, ReadRun, ResetOrphans,
     Settle, redis
<1> QED  BY <1>2, <1>3, <1>4, <1>5, <1>6 DEF Next

LEMMA EngagedBefore ==
  ASSUME Rough, TypeOK, RoughInv, Next, NEW s \in Steps, Engaged(s)',
         \A g \in Fibers : Owns(g, s)' => Owns(g, s) \/ Waiting(s) \/ Marked(s)
  PROVE  Engaged(s) \/ Marked(s)
<1>1. CASE status'[s] \notin {"pending", "approved"}  BY <1>1, StatusEngages
<1>2. CASE Waiting(s)'  BY <1>2, QueueEngages
<1>3. CASE \E f \in Fibers : Owns(f, s)'  BY <1>3 DEF Engaged
<1> QED  BY <1>1, <1>2, <1>3 DEF Engaged

\* What has been delivered stays so: then who was fed stays fed, and who is marked was fed.
LEMMA FedStays ==
  ASSUME FreshInv, \A s \in Steps : Delivered(s) => Delivered(s)',
         \A s \in Steps : Engaged(s)' => Engaged(s) \/ Marked(s),
         \A f \in Fibers : pc'[f] = "mark" => \/ pc[f] = "mark" /\ loc'[f] = loc[f]
                                              \/ loc'[f].todo = Eligible(Deps, status)
  PROVE  /\ \A s \in Steps : Engaged(s)' => Fed(s)'
         /\ \A f \in Fibers : pc'[f] = "mark" => \A s \in loc'[f].todo \cap Steps : Fed(s)'
<1>1. \A s \in Steps : Deps[s] \subseteq Steps /\ DOMAIN Deps = Steps  BY EngineAssumption
<1>2. \A s \in Steps : Fed(s) => Fed(s)'  BY <1>1 DEF Fed
<1>3. \A s \in Steps : Marked(s) => Fed(s)
  BY DEF Marked, MarkRunning, Goto, FreshInv
<1>4. \A s \in Steps : s \in Eligible(Deps, status) => Fed(s)
  BY <1>1 DEF Eligible, Fed, Satisfied, Unmade, FreshInv
<1>5. \A s \in Steps : Engaged(s)' => Fed(s)'  BY <1>2, <1>3 DEF FreshInv
<1>6. \A f \in Fibers : pc'[f] = "mark" => \A s \in loc'[f].todo \cap Steps : Fed(s)'
  BY <1>2, <1>4 DEF FreshInv
<1> QED  BY <1>5, <1>6

LEMMA FreshStays ==
  ASSUME Rough, Sequential, TypeOK, TypeOK', RoughInv, RoughInv', FreshInv, Next,
         UNCHANGED <<version, context, blind>>,
         UNCHANGED <<pc, loc>> \/ \E f \in Fibers : Marches(f),
         \A s \in Steps : status[s] \in Unmade => status'[s] \in Unmade
  PROVE  FreshInv'
<1>0. Boot \in Fibers  BY DEF Fibers
<1>1. \A g \in Fibers, s \in Steps :
        (AtDoor(g, s) <=> AtDoor(g, s)') /\ (AtDoor(g, s) => loc'[g] = loc[g])
  BY DEF Marches, AtDoor
<1>2. \A s \in Steps : Delivered(s) => Delivered(s)'  BY <1>1 DEF Delivered
<1>3. \A s \in Steps : Engaged(s)' => Engaged(s) \/ Marked(s)
  <2> SUFFICES ASSUME NEW s \in Steps, Engaged(s)'  PROVE Engaged(s) \/ Marked(s)
    OBVIOUS
  <2>1. \A g \in Fibers : Owns(g, s)' => Owns(g, s) \/ Waiting(s) \/ Marked(s)
    <3>1. CASE UNCHANGED <<pc, loc>>
      BY <3>1 DEF Owns, Has, Adding, Holds, Retriable
    <3>2. ASSUME NEW f \in Fibers, Marches(f), NEW g \in Fibers, Owns(g, s)'
          PROVE  Owns(g, s) \/ Waiting(s) \/ Marked(s)
      <4>1. CASE g = f  BY <3>2, <4>1 DEF Marches, Marked
      <4>2. CASE g # f
        BY <3>2, <4>2 DEF Marches, Owns, Has, Adding, Holds, Retriable
      <4> QED  BY <4>1, <4>2
    <3> QED  BY <3>1, <3>2
  <2> QED  BY <2>1, EngagedBefore
<1>4. \A f \in Fibers : pc'[f] = "mark" => \/ pc[f] = "mark" /\ loc'[f] = loc[f]
                                           \/ loc'[f].todo = Eligible(Deps, status)
  BY DEF Marches
<1>5. /\ \A s \in Steps : Engaged(s)' => Fed(s)'
      /\ \A f \in Fibers : pc'[f] = "mark" => \A s \in loc'[f].todo : Fed(s)'
  <2>1. \A f \in Fibers : loc'[f].todo \subseteq Steps  BY DEF TypeOK, Locals
  <2> QED  BY <1>2, <1>3, <1>4, <2>1, FedStays
<1>6. ~Recovering'  BY <1>0 DEF FreshInv, Recovering, Marches
<1>7. \A f \in Fibers : loc'[f].op = "job" => f \in Workers
  BY DEF FreshInv, Marches
<1>8. ASSUME NEW f \in Fibers, pc'[f] = "execute"  PROVE loc'[f].fresh
  <2>1. CASE pc[f] = pc'[f] /\ loc[f] = loc'[f]  BY <1>8, <2>1 DEF FreshInv
  <2>2. CASE f \in Workers /\ TakeJob(f)
    <3>1. PICK s \in Steps, a \in Attempts :
            /\ Goto(f, "idle", "execute", [Blank EXCEPT !.op = "job", !.step = s, !.att = a,
                                                        !.fresh = HasInputs(s)])
            /\ queue[s][a] > 0
      BY <2>2 DEF TakeJob
    <3>2. pc[f] = "idle" /\ loc'[f].fresh = HasInputs(s)
      BY <3>1 DEF Goto, TypeOK, Blank
    <3>3. Fed(s)  BY <3>1 DEF Waiting, Engaged, FreshInv
    <3>4. \A g \in Fibers, d \in Steps : ~AtDoor(g, d)
      <4>1. \A g \in Fibers : pc[g] = "context" => g \in Workers
        BY DEF FreshInv, RoughInv, RoughMinds, Learned, InJob
      <4> QED  BY <2>2, <3>2, <4>1 DEF AtDoor, Sequential
    <3>5. \A d \in Deps[s] : d \in Steps  BY EngineAssumption
    <3>6. HasInputs(s)  BY <3>3, <3>4, <3>5 DEF HasInputs, Fed, Delivered
    <3> QED  BY <3>2, <3>6
  <2> QED  BY <1>8, <2>1, <2>2 DEF Marches
<1>9. \A s \in Steps : status'[s] \notin Unmade => Delivered(s)'  BY <1>2 DEF FreshInv
<1>10. FreshInputs'  BY DEF FreshInv, FreshInputs
<1>11. \A g \in Fibers, s \in Steps : AtDoor(g, s)' => loc'[g].out = version'[s]
  BY <1>1 DEF FreshInv
<1> QED  BY <1>5, <1>6, <1>7, <1>8, <1>9, <1>10, <1>11 DEF FreshInv

LEMMA PersistFresh ==
  ASSUME Rough, TypeOK, TypeOK', RoughInv, FreshInv, Next, NEW w \in Workers, PersistResult(w)
  PROVE  FreshInv'
<1> DEFINE s == loc[w].step
           l == [loc[w] EXCEPT !.out = version[s] + 1]
<1>0. w \in Fibers /\ Boot \in Fibers \ {w}  BY EngineAssumption DEF Fibers
<1>1. /\ pc[w] = "execute" /\ pc'[w] = "context" /\ loc'[w] = l
      /\ \A g \in Fibers \ {w} : pc'[g] = pc[g] /\ loc'[g] = loc[g]
      /\ version' = [version EXCEPT ![s] = @ + 1] /\ context' = context
      /\ blind' = (IF loc[w].fresh THEN blind \ {s} ELSE blind \cup {s})
      /\ \A t \in Steps \ {s} : status'[t] = status[t]
  BY <1>0 DEF PersistResult, Goto, TypeOK, WriteStatus
<1>2. s \in Steps /\ Owns(w, s) /\ version[s] \in Nat
  BY <1>0, <1>1 DEF RoughInv, RoughMinds, Learned, Owns, Has, Holds, InJob, TypeOK
<1>3. l.step = s /\ l.out = version[s] + 1 /\ l.op = loc[w].op /\ l.failed = loc[w].failed
  BY <1>0 DEF TypeOK, Locals
<1>4. /\ version'[s] = version[s] + 1 /\ \A t \in Steps \ {s} : version'[t] = version[t]
  BY <1>1, <1>2 DEF TypeOK
<1>5. \A g \in Fibers \ {w} : ~Owns(g, s)
  BY <1>0, <1>1, <1>2 DEF RoughInv, RoughJobs, OwnJob
<1>6. FreshInputs'  BY <1>0, <1>1 DEF FreshInv, FreshInputs
<1>7. ~Recovering'  BY <1>0, <1>1 DEF FreshInv, Recovering
<1>8. \A g \in Fibers : /\ loc'[g].op = "job" => g \in Workers
                        /\ pc'[g] = "execute" => loc'[g].fresh
  BY <1>1, <1>3 DEF FreshInv
<1>9. ASSUME NEW g \in Fibers, NEW t \in Steps, AtDoor(g, t)'  PROVE loc'[g].out = version'[t]
  <2>1. CASE g = w  BY <1>1, <1>3, <1>4, <1>9, <2>1 DEF AtDoor
  <2>2. CASE g # w
    <3>1. AtDoor(g, t)  BY <1>1, <1>9, <2>2 DEF AtDoor
    <3>2. t # s  BY <1>5, <2>2, <3>1 DEF AtDoor, Owns, Has, Holds, InJob
    <3> QED  BY <1>1, <1>4, <2>2, <3>1, <3>2 DEF FreshInv
  <2> QED  BY <2>1, <2>2
<1>10. ASSUME NEW t \in Steps, t = s  PROVE Delivered(t)'
  <2>1. AtDoor(w, t)'  BY <1>1, <1>3, <1>10 DEF AtDoor
  <2>2. version'[t] > 0  BY <1>2, <1>4, <1>10
  <2> QED  BY <1>0, <2>1, <2>2 DEF Delivered
<1>11. ASSUME NEW t \in Steps, Delivered(t)  PROVE Delivered(t)'
  <2>1. CASE t # s
    <3>1. \A g \in Fibers : AtDoor(g, t) => AtDoor(g, t)'
      BY <1>1, <1>3 DEF AtDoor
    <3> QED  BY <1>1, <1>4, <1>11, <2>1, <3>1 DEF Delivered
  <2> QED  BY <1>10, <2>1
<1>12. \A t \in Steps : status'[t] \notin Unmade => Delivered(t)'
  BY <1>1, <1>10, <1>11 DEF FreshInv
<1>13. \A t \in Steps : Engaged(t)' => Engaged(t) \/ Marked(t)
  <2>1. \A g \in Fibers, t \in Steps : Owns(g, t)' => Owns(g, t)
    BY <1>1, <1>2, <1>3 DEF Owns, Has, Adding, Holds, Retriable, InJob
  <2> QED  BY <2>1, EngagedBefore
<1>14. /\ \A t \in Steps : Engaged(t)' => Fed(t)'
       /\ \A f \in Fibers : pc'[f] = "mark" => \A t \in loc'[f].todo : Fed(t)'
  <2>1. \A f \in Fibers : pc'[f] = "mark" => pc[f] = "mark" /\ loc'[f] = loc[f]
    BY <1>1
  <2>2. \A f \in Fibers : loc'[f].todo \subseteq Steps  BY DEF TypeOK, Locals
  <2> QED  BY <1>11, <1>13, <2>1, <2>2, FedStays
<1> QED  BY <1>6, <1>7, <1>8, <1>9, <1>12, <1>14 DEF FreshInv

LEMMA StoreFresh ==
  ASSUME Rough, TypeOK, TypeOK', RoughInv, FreshInv, Next, NEW w \in Workers, StoreContext(w)
  PROVE  FreshInv'
<1> DEFINE s == loc[w].step
<1>0. w \in Fibers /\ Boot \in Fibers \ {w}  BY EngineAssumption DEF Fibers
<1>1. /\ pc[w] = "context" /\ pc'[w] \in {"idle", "lock"} /\ loc'[w] \in {Blank, loc[w]}
      /\ \A g \in Fibers \ {w} : pc'[g] = pc[g] /\ loc'[g] = loc[g]
      /\ context' = [context EXCEPT ![s] = loc[w].out] /\ UNCHANGED <<version, status, blind>>
  BY <1>0 DEF StoreContext, Return, Goto, TypeOK, history, Rough
<1>2. s \in Steps /\ loc[w].out = version[s]
  BY <1>0, <1>1 DEF RoughInv, RoughMinds, Learned, AtDoor, InJob, FreshInv
<1>3. /\ context'[s] = version[s] /\ \A t \in Steps \ {s} : context'[t] = context[t]
  BY <1>1, <1>2 DEF TypeOK
<1>4. \A g \in Fibers, t \in Steps : AtDoor(g, t)' => AtDoor(g, t) /\ g # w
  BY <1>1 DEF AtDoor
<1>5. ASSUME NEW t \in Steps, Delivered(t)  PROVE Delivered(t)'
  <2>1. CASE t = s  BY <1>1, <1>3, <1>5, <2>1 DEF Delivered
  <2>2. CASE t # s
    <3>1. \A g \in Fibers : AtDoor(g, t) => AtDoor(g, t)'  BY <1>1, <2>2 DEF AtDoor
    <3> QED  BY <1>1, <1>3, <1>5, <2>2, <3>1 DEF Delivered
  <2> QED  BY <2>1, <2>2
<1>6. ~Recovering'  BY <1>0, <1>1 DEF FreshInv, Recovering
<1>7. \A g \in Fibers : /\ loc'[g].op = "job" => g \in Workers
                        /\ pc'[g] = "execute" => loc'[g].fresh
  BY <1>1 DEF FreshInv
<1>8. \A g \in Fibers, t \in Steps : AtDoor(g, t)' => loc'[g].out = version'[t]
  BY <1>1, <1>4 DEF FreshInv
<1>9. \A t \in Steps : Engaged(t)' => Engaged(t) \/ Marked(t)
  <2>1. \A g \in Fibers, t \in Steps : Owns(g, t)' => Owns(g, t)
    BY <1>1 DEF Owns, Has, Adding, Holds, Retriable, InJob, Blank
  <2> QED  BY <2>1, EngagedBefore
<1>10. /\ \A t \in Steps : Engaged(t)' => Fed(t)'
       /\ \A f \in Fibers : pc'[f] = "mark" => \A t \in loc'[f].todo : Fed(t)'
  <2>1. \A f \in Fibers : pc'[f] = "mark" => pc[f] = "mark" /\ loc'[f] = loc[f]
    BY <1>1
  <2>2. \A f \in Fibers : loc'[f].todo \subseteq Steps  BY DEF TypeOK, Locals
  <2> QED  BY <1>5, <1>9, <2>1, <2>2, FedStays
<1> QED  BY <1>1, <1>5, <1>6, <1>7, <1>8, <1>10 DEF FreshInv, FreshInputs

\* A rerun takes back everything that stands on what it takes back.
LEMMA CascadeFresh ==
  ASSUME TypeOK, RoughInv, FreshInv, NEW c \in Clients, CascadeReset(c)
  PROVE  FreshInv'
<1> DEFINE r == loc[c].step
<1>0. c \in Fibers /\ Boot \in Fibers /\ Boot # c /\ loc[c] \in Locals
  BY EngineAssumption DEF Fibers, TypeOK
<1>1. /\ pc[c] = "cascade" /\ pc'[c] = "lock"
      /\ loc'[c].op = loc[c].op /\ loc'[c].failed = loc[c].failed
      /\ \A g \in Fibers \ {c} : pc'[g] = pc[g] /\ loc'[g] = loc[g]
      /\ \A t \in Steps : /\ status'[t] = IF t \in loc[c].todo THEN "pending" ELSE status[t]
                          /\ context'[t] = IF t \in loc[c].todo THEN 0 ELSE context[t]
      /\ UNCHANGED <<version, blind, queue>>
  BY <1>0 DEF CascadeReset, Goto, WriteStatus, TypeOK, Locals, redis
<1>2. /\ r \in Steps /\ loc[c].todo = Reset(r) /\ loc[c].op = "rerun" /\ loc[c].failed = {}
      /\ status[r] \notin Active \cup {"approved"}
      /\ \A g \in Fibers \ {c} : pc[g] = "idle" /\ loc[g].failed = {}
      /\ \A t \in Steps : ~Waiting(t)
  BY <1>0, <1>1 DEF RoughInv, RoughMinds, Learned, Reruns
<1>3. \A g \in Fibers, t \in Steps : ~AtDoor(g, t) /\ ~AtDoor(g, t)'
  BY <1>1, <1>2 DEF AtDoor
<1>4. ASSUME NEW t \in Steps, t \notin loc[c].todo, Delivered(t)  PROVE Delivered(t)'
  BY <1>1, <1>3, <1>4 DEF Delivered
<1>5. ASSUME NEW t \in Steps, Engaged(t)'  PROVE Fed(t)'
  <2>1. \A g \in Fibers : ~Owns(g, t)'
    BY <1>1, <1>2 DEF Owns, Has, Adding, Holds, Retriable, InJob
  <2>2. ~Waiting(t)'  BY <1>1, <1>2 DEF Waiting
  <2>3. t \notin loc[c].todo /\ status[t] \notin {"pending", "approved"}
    BY <1>1, <1>5, <2>1, <2>2 DEF Engaged
  <2>4. t \notin {r} \cup Downstream(Deps, r)  BY <1>2, <2>3 DEF Reset
  <2>5. Fed(t)  BY <2>3 DEF Engaged, FreshInv
  <2>6. ASSUME NEW d \in Deps[t]  PROVE Delivered(d)'
    <3>1. d \in Steps  BY EngineAssumption
    <3>2. d \notin {r} \cup Downstream(Deps, r)
      BY <1>2, <2>4, DownstreamClosed, EngineAssumption
    <3> QED  BY <1>2, <1>4, <2>5, <3>1, <3>2 DEF Reset, Fed
  <2> QED  BY <2>6 DEF Fed
<1>6. \A f \in Fibers : pc'[f] \notin {"mark", "execute"}
  BY <1>1, <1>2
<1>7. \A t \in Steps : status'[t] \notin Unmade => Delivered(t)'
  BY <1>1, <1>4 DEF FreshInv, Unmade
<1>8. ~Recovering' /\ FreshInputs' /\ \A f \in Fibers : loc'[f].op = "job" => f \in Workers
  BY <1>0, <1>1, <1>2 DEF FreshInv, Recovering, FreshInputs
<1> QED  BY <1>3, <1>5, <1>6, <1>7, <1>8 DEF FreshInv

LEMMA FreshInductive ==
  ASSUME Rough, Sequential, TypeOK, TypeOK', RoughInv, RoughInv', FreshInv, Next
  PROVE  FreshInv'
<1>1. CASE \E w \in Workers : PersistResult(w)  BY <1>1, PersistFresh
<1>2. CASE \E w \in Workers : StoreContext(w)  BY <1>2, StoreFresh
<1>3. CASE \E c \in Clients : CascadeReset(c)  BY <1>3, CascadeFresh
<1>4. CASE /\ \A w \in Workers : ~PersistResult(w) /\ ~StoreContext(w)
           /\ \A c \in Clients : ~CascadeReset(c)
  <2>1. "anyReview" \notin Faults  BY DEF Rough
  <2>2. /\ UNCHANGED <<version, blind, context>>
        /\ \A s \in Steps : status[s] \in Unmade => status'[s] \in Unmade
    BY <1>4, <2>1, ResultIsPersisted
  <2>3. UNCHANGED <<pc, loc>> \/ \E f \in Fibers : Marches(f)
    BY <1>4, StepMarches
  <2> QED  BY <2>2, <2>3, FreshStays
<1> QED  BY <1>1, <1>2, <1>3, <1>4

\* The latest artifact of a step was made from the latest outputs of all it depends on, although
\* a result is committed before the context that others read, jobs read the context long after
\* they were launched, and Redis may fail at any command: in the one worker nothing comes between
\* the two, and a job that is put back, because the lock could not be had, runs a step whose
\* inputs are still there.
THEOREM InputsAreFresh == Rough /\ Sequential => (Spec => []FreshInputs)
<1> SUFFICES ASSUME Rough, Sequential  PROVE Spec => []FreshInputs
  OBVIOUS
<1>1. Init => FreshInv
  BY DEF Init, FreshInv, FreshInputs, Recovering, AtDoor, Unmade, Fibers, Blank, Engaged, Waiting,
     Owns, Has, Adding, Holds, Retriable, InJob
<1>2. Base /\ RoughInv /\ Base' /\ RoughInv' /\ FreshInv /\ [Next]_vars => FreshInv'
  <2>1. Base /\ RoughInv /\ Base' /\ RoughInv' /\ FreshInv /\ Next => FreshInv'
    BY FreshInductive DEF Base
  <2>2. FreshInv /\ UNCHANGED vars => FreshInv'
    BY DEF vars, database, redis, history, FreshInv, FreshInputs, Recovering, Engaged, Fed, Waiting,
       Delivered, AtDoor, Owns, Has, Adding, Holds, Retriable
  <2> QED  BY <2>1, <2>2
<1>3. FreshInv => FreshInputs  BY DEF FreshInv
<1> QED  BY <1>1, <1>2, <1>3, RoughInvariant, PTL DEF Spec

=============================================================================
