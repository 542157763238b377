# Verification of the organiq server

Pulse OS (`organiq-v2`) is a NestJS server with a Next.js frontend. Its core is a workflow engine:
a *run* is a fixed graph of *steps* (`STEP_DEFINITIONS`), each executed by a BullMQ worker as a data
pipeline, an agent, or both, and some reviewed by a person before the steps that depend on them
start. Around it stand the credits that executions are paid with, the webhooks that grant them, the
agents that users and schedules run, the members and their grants, and the tables that approved
results are promoted to. This directory holds TLA+ models of these, their TLC configurations and
TLAPS proofs.

## 1. Inventory

| Component | State | Operations | What makes it correct |
|---|---|---|---|
| `WorkflowService` | `workflow_runs.status`, `workflow_steps.status` and `started_at`, `workflow_context`, the Redis lock `wf:enq:<run>` | startRun, enqueuePendingSteps, resumeRun, workflowWatchdog, reconcileOrphanedRuns, handleApproval, rerunStep, updateArtifact, deleteRun | a step runs after its dependencies, once, and on their latest output; approved steps stay so; no step or run hangs |
| `WorkflowProcessor` | the jobs in Redis; `step_artifacts`, `dlq_failed_steps` | process (persist, debit, store context, enqueue downstream; catch: DLQ, fail step, fail run, rethrow) | a result is stored and debited once; what fails for good is marked and captured |
| `WorkflowController`, `DlqController` | none | start, resume, approve, revise, reject, rerun; replay, dismiss | a request meets any state the engine can be in |
| Graph walks | `STEP_DEFINITIONS` | validateStepDefinitions, getDownstreamSteps, isBlocked | they compute acyclicity, reachability, a failed ancestor |
| Materializer | `keywords`, `topical_maps` and pages, `content_pieces`, `content_images` | materialize (five kinds of steps), backfillProject | a backfill repairs whatever failed or was deleted; one map per run; images leave the artifact only for the table |
| Credits | `organizations.credits_balance`, `credit_ledger`, `workspace_credit_limits` | debit, credit, setLimit, removeLimit, the monthly cron | the balance is the sum of the ledger and not negative; a workspace stays within its cap |
| Billing | `subscriptions`, `purchases`, the plan | the Stripe webhook and its handlers, plan limits | one grant per payment, however often it is delivered |
| Invitations, access grants | `invitations`, `org_members`, `access_grants` | create, accept, expire, revoke; replaceGrants, removeMember | accepted once; a replacement of grants is whole |
| Auth | `processedWebhooks` in memory | the Clerk webhook; access guard and lists | a redelivered event grants nothing more; lists and guards agree |
| On-demand agents, scheduled workflows | `agent_runs`; `scheduled_workflows`, `workflow_run_history` | run; tick: due, run, deliver, record | one charge per completed run; one run per due time, and none forgotten |
| Agent runtime, Anthropic client, verification | the conversation, the retries, the timer of a job | the tool loop, requests with retries and an abort signal, verification and its retries | every job ends; the model gets conversations it accepts; what is stored comes from one round |
| Gateway and run page | the rooms of the sockets; what the page shows, its requests under way | authenticate, join, emit; fetch, poll, show | the page comes to show what is so, although announcements get lost and responses overtake each other |
| The rest (projects, content, audits, reports, integrations, frontend) | own tables | mostly CRUD and HTTP clients | not concurrent in an interesting way |

How they interact: a request, a worker, the watchdog cron and the bootstrap hook all end in
`enqueuePendingSteps`, which marks eligible steps as running in Postgres and adds their jobs to
Redis. A worker takes a job, reads the context its dependencies left, executes, commits artifact,
debit and status together, then stores the context and calls `enqueuePendingSteps` for the steps
downstream. Steps with `requires_approval` stop there until the approve request, which calls
`materialize` and then makes that call. The persist transaction, the agents and the Stripe webhook share the
balance through `debit` and `credit`; the scheduler is a caller of the agents; an acceptance of an
invitation, the Clerk webhook and `replaceGrants` write the grants that the guards and lists read.
Within a job, the processor runs the pipeline and the agent of the step; the agent converses with the
model until it has an output, under a timer of 30 minutes. The gateway announces what the processor and the
requests do to the pages that have joined the run's room, and a page fetches the run again for each announcement.

What is hard: these callers interleave at every `await`, Postgres runs at READ COMMITTED and the
code reads before it writes, Redis and Postgres fail separately, a crash loses the jobs in
execution, BullMQ retries, and the limits of 5 seconds, 5 minutes and 35 minutes can pass at the
wrong time. Stripe and Clerk redeliver, `debit` overwrites a balance that it read without a lock,
schedules move on after the work, materialization swallows its errors. The model may never answer, or answer after the
timer; sockets drop and what is announced meanwhile is gone. `PROJECT.json` lists each hazard at its line.

## 2. Modules

| Module | What it is |
|---|---|
| `StepGraph` | graph operators: eligible steps, ancestry, downstream, blocked, acyclic |
| `StepDefinitions` | the three graph walks of the source as loops, checked and proved against `StepGraph` |
| `RunLifecycle` | the abstract specification: statuses only, one change at a time, no queue or lock |
| `WorkflowEngine` | the engine: database, Redis and fibers, one action per await; refines `RunLifecycle` |
| `MCWorkflowEngine` | graphs of two and three steps for TLC |
| `Credits` | debit and credit, a statement at a time, and the cap of a workspace; refines `Budget` |
| `Budget` | the abstract specification of the cap: what is charged in a month fits it |
| `Billing` | the Stripe webhooks over `Credits` |
| `Agents`, `MCAgents` | agents on demand and on schedule, over `Credits` |
| `Membership`, `MCMembership` | invitations, the Clerk webhook, grants, and what members may see |
| `Materializer`, `MCMaterializer` | approved artifacts becoming rows |
| `StepExecution` | one job: pipeline, conversation with the model, tools, verification, retries, timer |
| `LiveView`, `MCLiveView` | the page of a run beside the run: announcements, socket, fetches, polling |
| `WorkflowEngineProofs`, `StepDefinitionsProofs`, `StepExecutionProofs`, `CreditsProofs`, `BillingProofs`, `AgentsProofs`, `MembershipProofs`, `MaterializerProofs` | TLAPS proofs |

`Billing` and `Agents` extend `Credits`: each of their fibers, when it calls `debit` or `credit`, goes
through the statements of `Credits` and comes back as `"paid"` or `"threw"`. `Credits` has a
specification of its own, in which callers do anything outside the statements; every step of
`Billing` and `Agents` is one of it, so that what is proved of it holds in both. The engine keeps its
debit as a part of its persist transaction, since only its number matters there.

`StepExecution` opens up what `WorkflowEngine` takes for one action: the part of `process` between taking the job and the
persist transaction. Each ends where the other one goes on: an execution that ends in `Persist` is the engine's
`PersistResult`, one that throws its `ExecutionFails`; after the transaction the engine's actions take over. `LiveView`
composes the page with `RunLifecycle`: each of its actions on the run is one of that module's (`Run!Start` and so on), with what the
code announces of it.

### How `WorkflowEngine` corresponds to the code

A *fiber* is a worker slot, a request, the cron, or the bootstrap. `pc[f]` names the operation it is
about to do, `loc[f]` holds its local variables. Every database transaction, Redis command and job
operation is one action, so all other fibers may move in between. The reads of a transaction and
its commit are two actions where its writes do not depend on the status they find (`ReadEligible`
and `MarkRunning`, `ReadCascade` and `CascadeReset`).

| Code | Actions |
|---|---|
| `enqueuePendingSteps` | `AcquireLock`, `LockBusy`, `LockFails`; `ReadEligible`, `MarkRunning`, `AddJob`, `AddFails`, `RollbackFailures`; `CheckTerminal`, `CompleteRun`; `CompareLock`, `DeleteLock`, `ReleaseFails`; `ExpireLock` for the TTL |
| `process` | `TakeJob`, `PersistResult`, `ExecutionFails`, `StoreContext`, `StoreFails`, `Catch`, `MarkFailed`, `AssessRun`, `FailRun`, `Rethrow` |
| `startRun`, `resumeRun`, `workflowWatchdog` | `StartRun`, `UndoStart`; `RequestResume`, `ReadStale`, `ResetStale`; `Watchdog` |
| review and rerun | `Approve`, `Decline`, `RequestRerun`, `ReadCascade`, `CascadeReset` |
| DLQ | `Replay`, `ResolveEntry`, `Dismiss` |
| `reconcileOrphanedRuns` | `ReadRun`, `ResetOrphans`, `Settle`; `Crash` and `Deploy` lead to it |

Data is abstracted: an artifact is its version number, the context of a step is the version it
holds, a job is its step and attempt. `overdue` stands for "`started_at` is more than 35 minutes
ago". Four history variables record what a property needs: `allowed` (executions asked for), `blind` (steps
made without the latest input), and the counters `reruns` and `crashes`, which also bound the model. The
job's read of the context is part of `TakeJob`; the pre-flight reads and checks of
credits (which throw) are part of `ExecutionFails`; the materializer catches its own errors and
touches no step, so it leaves no action.

Faults are a constant. An instance names the ones that can happen, and properties that the code
cannot keep under a fault are checked without it, which the hazards say. `FaultKinds` explains each.
Some are assumptions on people or on time: without `slow`, only a step nobody works on any more grows 35 minutes old;
without `busyRerun` a rerun is asked for while nothing is under way, and no recovery starts before it has written; without `lateReplay` a dead job
is replayed only while its step is failed; without `overlap` one recovery runs at a time (with it, the cron also
ticks while the reconciliation of a restart is still under way, which nothing in the code prevents);
without `backlog` no job waits in Redis when the server crashes. With `null`, an output may be null, and is then not stored in the context.

`RunLifecycle` says what the API promises: steps are launched when eligible, in a run that is under
way; a running step is requeued, fails or finishes; decisions are taken where the buttons offer
them; a rerun takes everything downstream with it except what is approved; a run completes when
nothing is pending or running, and is abandoned when that is so or some step of it has failed. The
engine refines it by the identity on `runStatus` and `status`: what the code decided on
an earlier read must still be allowed when it is written.

### How the other modules correspond to the code

Everywhere a fiber is a request, a webhook, or a workflow of the scheduler's batch, and an action is a
statement that commits by itself (or, within a transaction, one after which others can be seen).

| Code | Actions |
|---|---|
| `CreditsService.debit`, `credit` | `ReadToDebit`, `Insufficient`; `LockLimit`, `OverLimit`, `Uncapped`; `ReadToCredit`; `Post` (update, ledger, commit); `Rollback` |
| `WorkspaceCreditLimitService` | `SetLimit`, `RemoveLimit`, `ResetExpiredPeriods` |
| `BillingService.handleWebhook` | `Deliver`; `RecordPurchase`, `PurchaseExists`; `RecordSubscription`, `SubscriptionExists`, `UpdatePlan`; `InvoicePaid`, `SubscriptionUpdated`, `SubscriptionDeleted`, `Downgrade`, `Unknown`; `Answer` |
| `OnDemandAgentsService.run` | `Ask`, `Refuse`, `Begin`, `AgentRuns`, `Complete`, the debit, `Paid` or `Unpaid`, `FailRun` |
| `WorkflowSchedulerProcessor.process`, `recordRun` | `Tick`, `StartBatch`, `EndBatch`; `Record`, `Find`, `Reschedule`, `Deleted`, `RecordFails` |
| `InvitationService` | `Invite`, `InsertInvite`; `ReadInvite`, `Accept`, `AcceptRefused`, `Expire`, `AddToClerk`; `ReadToRevoke`, `Revoke` |
| `AuthController`, `AuthService` | `OrgCreated`; `Deliver`, `NoSuchOrg`, `CreateMember`, `MemberExists`, `FindMember`, `GrantOrg`, `GrantRefused`; `Forget` |
| `AccessGrantService` | `Replace`, `LockMember`, `MemberGone`, `DeleteGrants`, `InsertGrants`, `InsertRefused`; `RemoveMember` |
| `AccessService`, `AccessGuard` | `AccessibleProjects`, `AccessibleWorkspaces`; `ProjectAllowed`, `WorkspaceAllowed` |
| `materialize` | `NextStep`, then `UpsertKeywords`; `SkipMap` or `FindMap`, `CreateMap` or `UpdateMap`, `SyncPages`; `FindLinks`, `SaveBrief`, `ReadStatus`, `Advance`, `LinkPage`; `FindBrief`, `SaveArticle`; `FindArticle`, `SaveImages`, `ReadImages`, `Strip`; `Throw`, `SaveRefused` for its catch |
| `approveStep`, `backfillProject` | `Approve`; `Backfill`, `Finish` |
| `WorkflowProcessor.process`, before the transaction | `Load`, `PipelineOnly`, `PipelineThenAgent`; `Check` (schema, verification and its retries); `Persist`; `Retry`; `TimerFires` for the abort timer |
| `AgentRuntime.execute` | `Converse`, `FinalAnswer`, `ToolAnswer`, `RunTool` with `Answer` |
| `AnthropicService.chat` | `ApiFails`, `Wake`, `AbortCall` |
| `WorkflowGateway` | `Authenticate`, `Reject`, `HandleSubscribe`; `Emits` for each `emit...`, `Chatter` for the announcements of attempts that fail |
| `useWorkflowWs`, `WorkflowShell` | `Connect`, `Drop`, `GiveUp`; `Mount`, `Receive`, `Poll`, `Respond` (each a fetch), `Serves`, `Shows`, `Fails`; `RequestFails` for a request that throws after its commit |

The data kept: in `Credits` the numbers themselves, a calendar of months, one organization and one
workspace. In `Agents` time is the number of ticks a cron expression can tell apart, and a cron
expression its period. In `Membership` one user, the grants as the number of rows per scope (the table has no
unique index). In `Materializer` one keyword, one brief, one article, and the images as the version of
the artifact they come from; of a keyword's statuses the three that `advanceKeywordStatus` tells apart. An artifact has, or lacks, the parts that the materializer looks
for (`Parts`): keywords, pillars, pages under them, and in a brief a target that is a keyword of the project, and one that is a page of the map.
`given` holds those of the approved artifacts, `rich` the maps whose pillars hold a page. Without its part a materialization warns, or says
nothing, and links nothing. The user's edits, the deletions with their cascades, and the crash of the
server are actions beside the fibers.

In `StepExecution` an output is the round it is of, whether it satisfies the verification rules and whether it fits
`content-brief`'s schema; a message is its role and the ids of the tools it asks for or answers. A tool call may be of any
tool, allowed or not: the sandbox answers each of them. The definition of the step is chosen once, from all combinations
that can be loaded. In `LiveView` what the page shows is the status of the run and of its steps; `owed` holds what has been committed and is
still to be announced, `bell` says that announcements are on the way (each is a request to fetch, whatever it says), and `lost`
records that one of them, or the order of responses, went wrong. Changes of the run that nobody announces are actions without `owed`:
a start, a completion of the run, a failure (announced before it is written), what the recoveries reset. `RequestFails` is the approval or
rerun whose `enqueuePendingSteps` throws after the commit: what it owes is dropped (`lost`), and the page whose request it was catches the error
without a fetch; `Respond` without a fetch is a response that got lost.

Postgres' locks appear where they matter: the row of `workspace_credit_limits` (`lock` in
`Credits`), the member's row FOR UPDATE (`lock` in `Membership`, for which inserts of grants wait through their
foreign key), deleted rows that a cascade waits for. The foreign keys and unique indexes make the actions
named `...Exists`, `...Refused` and `Deleted`.

## 3. Runs

Graph `Join` (two steps and one that waits for both) is the shape the lock was written for;
`Pair` is the smallest chain. Three steps are enough for a failed, a running and a blocked step at
once, or two completions that race and the step both unblock; two workers for any pair of
executions; one client for requests that interleave with the engine, though not with each other.
Two attempts make a first, a retried and a last one.

| Run | Bounds | Checks |
|---|---|---|
| `engine_recovery` | 2 workers, throws, early reviews, rejections, 1 rerun, 1 crash with or without the lock left behind | `LockExcludes`, `DependencyOrder`, `ChargedOnce`, `CompletedIsTerminal`, `RefinesLifecycle`, `StrandsNothing` |
| `engine_serial` | 1 worker, throws, failing Redis, early reviews, 1 rerun, 3 versions; fairness | `FreshInputs`, `DraftIsIdle`, `OneJobPerStep`, `StrandsNothing`, `WatchdogRescues` |
| `engine_anything` | 2 steps, 1 worker, 1 version, 1 attempt, counted from 1; rolling deployment, failing stores, null outputs, expiring lock, overlapping recoveries, reviews at any time | `TypeOK`, `ReviewedHasArtifact` |
| `final_attempt` | 1 worker, throws | `LastFailureMarked`, violated |
| `billing` | 2 fibers, 1 pack, amounts of 2, caps of 2 or 3, 2 months, 2 deliveries, 2 debits, 1 crash or rollback | `NeverNegative`, `SerialBalance`, `GrantedOnce`, `RefinesBudget`, `PurchaseGranted` |
| `agents` | 2 workflows (every tick, every other), 1 user, batches of 1, 2 ticks, 2 upsets | `OnlyCompletedCharged`, `CompletedIsCharged`, `SuccessIsPaid`, `OncePerDue`, `DueIsServed` |
| `membership` | 2 requests, 2 workspaces, 1 project, 2 invitations, 4 upsets | `AcceptedOnce`, `SerialInvitations`, `ListsAgree`, `ReplacedWhole` |
| `content` | 2 fibers, 3 rows, 2 upsets, missing parts among them | `OneMap`, `BackfillRepairs` |
| `lost_images` | as `content` | `ImagesSafe`, violated |
| `step_execution` | 3 iterations, 2 verification retries, 1 retry of a request, 3 attempts, 2 tools at once | `AllAnswered`, `OfLastRound`, `TimeoutStops`, `Ends` |
| `live_view` | 1 step that needs approval, 2 fetches under way, 2 changes and 1 upset while the page is open | `ActiveViewConverges`, `HeardConverges` |
| `step_definitions` | all 65536 graphs of 4 steps, every start and every set of failed steps | `ValidIffAcyclic`, `FindsDownstream`, `FindsBlocked` |

`FirstAttempt` is what `job.attemptsMade` is during the first attempt. BullMQ 5, which the server
installs, counts from 0, and then `isFinalAttempt` never holds: the runs set it to 0, and `final_attempt` shows what follows. Only `engine_anything` sets it to
1, the numbering the comparison is written for, so that the branch of the final attempt, the DLQ and its replays are walked at all; its two
properties claim nothing about failures. The theorems hold for either numbering.

With 0, a job that throws in each attempt leaves its step running for nobody. `StrandsNothing` says that this, and a crash, are the only ways to it, and
that the reconciliation takes the step back; `WatchdogRescues` that the watchdog does so while the run is running, after 35 minutes.

`CHECK_DEADLOCK FALSE` everywhere: a run that has ended, or waits for its reviewer, really stops, and so do a job that is done and a
page on which nothing happens any more.

What an approval never undoes needs no property of its own: in `RunLifecycle` no action takes an approval back, so
`RefinesLifecycle` says it. One worker (`engine_serial`) is a single instance of the server, since BullMQ's concurrency is 1 per worker
unless it is set; two workers are two instances.

Two runs end in a violation of what comments and docs say. In `final_attempt` a job throws in all of its attempts, none of which is the final one for
`workflow.processor.ts:556`, and is given up while its step stays running: there is no DLQ entry, and neither the step nor the run is marked failed, although
the step is to be marked "on the FINAL BullMQ retry attempt" (`:576`). In `lost_images`, the images step is approved while the article's row
is missing (its upsert failed and was caught, or it was deleted). Nothing is saved, nothing thrown, and the artifact loses its images,
although they are stripped "AFTER images are safely in content_images".

More disagreements are known for which no run is kept. Of the engine, each shows in an edited configuration:

| Setting | What happens |
|---|---|
| that a running run ends, under `FairSpec`, even without any fault | a and b complete together; b's enqueue finds the lock of a's, which has read the steps before b was completed; c is eligible and nobody enqueues it, though the comment (`workflow.service.ts:571-572`) says that the holder will pick it up; the watchdog looks for steps that are all pending or too long running, and does not see it; resume does |
| `FreshInputs` with two workers | b is marked completed; a's enqueue starts c; c reads the context before b's output is stored, although it is stored "so downstream steps can read it" |
| a crash while the last step awaits approval, or before `CompleteRun` | the reconciliation marks the run failed though no step failed |
| `Abandon` of `RunLifecycle` only when nothing pending or running can still run, with two workers, `throw` and attempts counted from 1 | b and c fail; w1 finds that nothing can run any more; b is replayed and completes, so that what depends on it could run; w1 marks the run failed all the same (`workflow.processor.ts:594-626`) |
| that no step is running for nobody after a reconciliation, with reruns, or replays (attempts counted from 1), beside crashes | a failed run's dead job is replayed, or a step of a completed run is rerun; the server crashes; the reconciliation and the watchdog look at running runs only, and the step stays running |
| `OneJobPerStep` with `overlap` and crashes | the cron ticks while the reconciliation is under way; both reset and enqueue, one of them perhaps without the lock (`workflow.service.ts:89`, `:124`) |
| `FreshInputs` with `null` | a null output is not stored (`workflow.processor.ts:187`, `:520`), and the step's dependents run on the context of its earlier version, or without |
| `ChargedOnce` with failing stores | the result is committed, the enqueue after it fails, the retry executes and debits again |

Of the other modules, they can be read off the models:

- The grant of the membership event is not idempotent: the comment "Uses ON CONFLICT DO NOTHING — idempotent on webhook retries" (`auth.service.ts:86`) and
  "Replayed webhooks after process restart are silently ignored" (`docs/features/auth.md:125`) would need a unique index that `access_grants` does not have.
  After a `Forget` (a restart, or five minutes) `GrantOrg` inserts a second row.
- A brief whose target matches no keyword (`workflow-materializer.service.ts:500`) or no page (`:336`) stays unlinked without an error, and a backfill does not change that; so do keywords and
  maps whose artifact has none (`:207`, `:246`). `BackfillRepairs` claims links only as far as the artifacts give them.
- A pipeline, or a tool, that calls a model without a signal (`ai-intelligence.pipeline.ts:173`, `tool.bootstrap.ts:266`) is under no timer. If it never returns, neither does the job:
  `Ends` names that exception, and no other.
- An approval or rerun that throws after its commit is not announced, and its page does not fetch (`RequestFails`): a page on which nothing is active, as after
  the rerun of a completed run while Redis is down, stays stale until something else makes it fetch.
- The timer stops the conversation only: pipelines and tools go on, and a second attempt starts a new timer under the `started_at`
  of the first (`PipelineOnly`, `RunTool` and `Retry` do not look at `aborted`). The recovery's comment calls anything beyond it "an orphaned job"
  (`workflow.service.ts:533-534`).
- Output that failed every verification is stored and debited (`Check` in the last round). The docs say "Only verified
  success debits" (`docs/decisions/architecture-decisions-v3.md:18`, also `docs/architecture/backend-architecture.md:123`).
- A pipeline-only step is never verified (`PipelineOnly` goes to `persist`), though `docs/features/workflows.md:167-175` lists the rules of one.
- What a verification retry delivers is not validated against the schema again, and the feedback of the second retry quotes the
  errors of the first output (`workflow.processor.ts:371`, `:393`).
- The comment "Polling fallback" (`workflow-shell.tsx:107`) promises a fresh page without a socket, but `Poll` depends on what is shown: a
  page that shows a draft or a finished run stays as it is, which is why `ActiveViewConverges` is about active views.

The properties of the other modules state what the code does keep, and name what it does not:
`SerialBalance`, that every entry of the ledger continues the one before and the last is the balance, speaks of operations that do
not overlap (overlapping ones lose updates),
`PurchaseGranted` of handlers that do not crash (the redelivery after a crash meets the unique index and the
credits never come), `CompletedIsCharged` and `OncePerDue` of runs without a fault, `SerialInvitations` of
invitations on which no two requests worked at once (a revocation may overwrite an acceptance),
`CompletedIsTerminal` of runs of which no step was rerun, `OneMap` of
materializations that do not overlap.

### Fairness

`Fairness` gives weak fairness to what the runtime schedules by itself: a fiber whose promise is
settled goes on, BullMQ hands jobs to idle workers, the cron ticks, TTLs and thresholds pass. No
fairness is put on requests or faults, so no user helps. Two conditions are strong: BullMQ's queue is first in, first out, so no waiting job is passed over for ever
by a worker that is idle again and again (one condition per step), and the cron ticks every five minutes, so it does not miss for ever a run that is stuck again and again.
The threshold of 35 minutes passes for each step by itself. `WatchdogRescues` holds under this `FairSpec`. That every run ends does not, as
the table above says: a lost wakeup beside finished steps waits for somebody to resume the run, and the frontend shows the button only
for a run without any output.

`BillingSpec` has weak fairness for each handler that is under way, for none of the deliveries, debits
and failures: `PurchaseGranted` is about what a handler does once it began. `AgentsSpec` has it for the
fibers and for the scheduler, whose repeatable job keeps coming; not for time, users or faults.
`Membership` and `Materializer` state safety only and no fairness: whether a backfill is ever asked
for is up to an administrator.

In `StepExecution` the server's own steps are weakly fair: its promises settle, the timer fires, the
queue delivers. The model's answers, right or wrong, are not, and neither are pipelines and tools (`Elsewhere`), some of which wait for a model themselves: `Ends` has to
come from the timer, except for a job that is in one pipeline or one tool for ever. In `LiveView`, what is committed is
announced or its request fails, requests are served and shown or fail, and the page's interval ticks; nobody owes a change of the run, a connection or a
subscription, so the convergence cannot come from the socket alone.

### Bounds

`MaxVersion` bounds the artifact versions of a step, `MaxJobs` the waiting jobs of one step when a
threshold passes early, `MaxReruns` and `MaxCrashes` the requests and crashes, `MaxAttempts` the attempts of a job. They stand in
the guards of `PersistResult`, `PassThreshold`, `RequestRerun`, `Crash`, `Deploy` and `Rethrow`. Wherever
`ChargedOnce` or `FreshInputs` is checked, `MaxVersion` is one more than a step reaches when it is executed
as often as it is asked to, so that a second, illegitimate execution has room to happen.

In `billing`, `MaxDeliveries`, `MaxDebits` and `MaxCrashes` bound what comes from outside (`Deliver`,
`Use`, `Fail` and `Crash`). Two fibers are enough for each pair of statements to overlap, two deliveries for a
duplicate, an event out of order, or a grant beside a debit; amounts of 2 under caps of 2 and 3 leave a cap spent to the
unit, one with a rest that is too small, and an overrun by the second debit; the second month is the rollover.
In `agents`, `MaxUpsets` bounds requests, edits and faults together, `MaxTime` the ticks, `MaxRuns`
the rows. The code's batches of 3 are batches of 1 of 2 due workflows, so that a batch is followed by another one
that was listed earlier. `MaxInvites` and `MaxUpsets` in `membership` allow two invitations, or a
duplicate delivery beside a replacement and a deletion. In `content`, `MaxRows` bounds the keywords and maps ever
inserted, `MaxUpsets` backfills, edits, reruns, failing statements, crashes and parts that an artifact lacks: two are a
failure, or a missing part, and the backfill after it.

In `step_execution`, 3 iterations, 2 verification retries and 3 attempts are the code's own numbers. Its 3 retries of a request are 1,
which tells a first, a repeated and an exhausted request apart (with 3 retries and 2 attempts the properties hold too); of the tools
in one response, 2 are a `return_output` before or after another tool. In `live_view`, two fetches under way can overtake
each other, and two changes while the page is open are one that is announced and one that is not, in either order; before the page is
opened the run may change without bound, so that it opens on any state. The properties were also checked for a chain of
two steps, with one change and one upset, and with two changes and none. Each of these bounds stands in the guard of the action it counts.

## 4. Proofs

### The engine

These proofs hold for any graph (a function from steps to sets of steps), any workers, clients and
bounds, under `EngineAssumption`.

- `TypeCorrect`: `Spec => []TypeOK`. `TypeOK` is not inductive: the writes of `execute` and `snapshot`
  index by `loc[f].step`, so the invariant also says that a fiber there has a step (`StepIsGiven`).
  One lemma per operation group shows that its actions preserve the types.
- `ArtifactFirst`: `Spec => []ReviewedHasArtifact`, for every set of faults. Versions never decrease,
  and only `PersistResult` and `Decide` write a status that needs an artifact: one makes it, the other
  asks for it.
- `Exclusion`: `"ttl" \notin Faults => (Spec => []LockExcludes)`. The inductive invariant `LockInv` says that every fiber in
  the section holds the lock. Acquisition needs a free lock; only its holder's release, the expiry of a `Ghost` lock, a crash (which ends all
  sections) or a failed release (which ends its own) takes it away.
- `ChargedAtMostOnce`, `OrderKept`, `CompletedStays`: `ChargedOnce`, `DependencyOrder` and `CompletedIsTerminal`, under `Calm`: executions throw, servers crash and
  restart, reviewers decide as they like, but limits of time are kept and Redis and the database lose nothing. Steps are rerun where there is
  one requester (`OneRequester`): two reruns at once, or a replay beside one, reset what the other has just launched. `CompletedIsTerminal` is
  about runs of which no step was rerun yet, since rerunning a step of a completed run makes it active again.
  The inductive invariant is `CalmInv`. `Jobs` ties jobs to statuses:
  a step's job waits in the queue or one fiber has it (`OneJob`), it is then running or failed, or already persisted by
  that fiber (`JobStatus`), and a step over the 35 minutes has nobody (`Forgotten`). `Minds` says of what each fiber
  read earlier that it is still true when it writes: whoever marks steps marks eligible ones, whoever resets stale
  ones resets steps that are forgotten, whoever completes the run found nothing active, a rerun still resets exactly what it read
  (`Reruns`), and the watchdog without the lock is alone.
  None of the three properties is inductive by itself.
- `JobsAreSingle`: `Rough => (Spec => []OneJobPerStep)`. `Rough` is `Calm` and, besides, Redis commands and the storing of contexts that fail at any
  point. Then a step that is persisted may be put back and run again, so that its job no longer tells its status, and `CalmInv` does not hold.
  `RoughInv` says less of statuses and more of jobs: a fiber also owns a step whose job it has failed to add and will set back, or,
  at the lock, one whose job is put back should the lock fail (`Owns`); a step has one owner or one waiting job (`OwnJob`). Whoever marks steps finds
  pending ones, and a pending step has neither job nor owner (`OwnStatus`): that is what remains of the order of commit and `add`.

Of the run as a whole:

- `DraftStaysIdle`: `Orderly => (Spec => []DraftIsIdle)`. `Orderly` leaves Redis, stores, executions, the lock's TTL and the server free to fail;
  it asks for one requester and one server, the limits of time, and that only a draft is started. The inductive invariant `StartInv` says that as
  long as the start has got no job into the queue the rest of the server has nothing to do (`StartsAlone`, `StarterActs`): every step is pending, or about
  to get its job or be set back. With a second requester it is false, as the hazards say.
- `EngineRefinesLifecycle`: `Calm /\ OneRequester /\ Steps # {} => (Spec => RefinesLifecycle)`. Each action maps to one step of `RunLifecycle` or
  to none. `CalmInv` gives the decisions that were taken on earlier reads, `StartInv` the undone start, and `LifeInv` the two ways of giving up: the step
  whose failure fails the run is still failed (`Fails`), and a reconciliation's verdict still has its reason (`DoomStands`).
- `LifecycleOrders`: `RunLifecycle` itself keeps `Ordered`, no step before its dependencies. A rerun needs that the
  downstream set of a step is closed: `DownstreamClosed`, from the definition of ancestry as the least closed set.
- `NothingStranded`: `Rough => (Spec => StrandsNothing)`, with crashes, failures, reruns and either numbering of attempts. `JobKept` says of each action but the crash
  that a running step with a job keeps one, by `RoughInv`: the fiber that ends its work on it has added it, put it back, or taken its status back; only
  the last attempt drops it. `Caught` says that a reconciliation that is about to reset has every running step in its list; nobody else moves until it has
  (`BootAlone`).
- `InputsAreFresh`: `Rough /\ Sequential => (Spec => []FreshInputs)`, `Sequential` being one worker, no crash and no context that cannot be stored; Redis
  may fail. `FreshInv` says that a step with a result has its latest output in the context unless the one worker is about to store it (`Delivered`), and
  that everything behind a step that runs, has run, has a job or an owner is delivered (`Engaged`, `Fed`). With failing Redis a step that others stand on may
  itself run again and even fail, so the invariant is about outputs and not about the status of dependencies; only a rerun takes outputs back, and
  with them (`DownstreamClosed`) every step that stands on them.

### The graph walks

For any number of steps and any dependencies between them, cyclic ones included (`SizeAssumption`). Each loop has an invariant, and the
invariant says what the loop has computed when its queue is empty:

- `StartsIffAcyclic`: `Spec => []ValidIffAcyclic`. The steps counted so far are a set `V` (`Counted`): with a step it holds what the step depends on,
  no step of it is on a cycle, the in-degrees count the dependencies outside of it, and the queue lists, each once, the steps outside that depend on nothing outside.
  When the queue is empty and something is left, each step left depends on one that is left: a step with the fewest ancestors among them
  depends on one that has it for an ancestor, a cycle (`WaitingIsCyclic`).
- `RerunFindsDownstream`: `Spec => []FindsDownstream`. `WalkInv` says that what is seen or queued is downstream of the step asked for, and
  that whatever depends on a step seen is seen or queued; with an empty queue that is a closed set, and downstream is the least one.
- `SearchFindsBlocked`: `Spec => []FindsBlocked`. `SearchInv` says the same of ancestors, and that no step seen has failed.

### The execution of a step

For any bounds (`BoundsAssumption`):

- `ConversationComplete`: `Spec => []AllAnswered`. `TalkInv` says what is in a conversation beside the tools still to answer: turns alternate and each
  assistant turn but the last is answered in full (`Turns`); while tools are answered, the answers given and those still owed are what the last one asked for, in order (`Owed`).
- `StoredOfLastRound`: `Spec => []OfLastRound`. `RoundInv` says that an output captured, a tool call noted and a result are of the current round; a
  new round, attempt or conversation starts with none.

### Credits and their callers

Under `CreditsAssumption` (amounts are positive, caps are numbers, months are numbered from 1) and that of the caller,
for any number of fibers:

- `CreditsProofs` proves `IInv` of `Credits!Spec`: the types, `NeverNegative`, what a fiber in a
  statement has found out (`FiberInv`: the balance it read covers the debit), and what the lock's holder
  and the row say (`LockInv`, `RowInv`: the usage of the row is what the month was charged, and later
  months are not charged yet). `NeverNegative` needs `FiberInv` only: the balance is overwritten
  with the difference that was checked, however old. The refinement of `Budget` needs the rest: the usage
  that `Post` writes was computed while the row was locked and fits the cap, which cannot have changed.
- `BillingTypes`, `NoOverdraft`, `CapHolds` in `BillingProofs` carry that over: each step of `Billing` is
  one of `Credits` (`BillingStep`), so `BillingSpec => Spec` (`UsesCredits`).
- `LedgerExplainsBalance`: `BillingSpec => []SerialBalance`. `SerialInv` says that as long as nothing overlapped, one fiber at most is between
  its read of the balance and its write, and that the balance is still what it read.
- `OneGrant`: `BillingSpec => []GrantedOnce`. `OnceInv` says that a fiber that owes a payment's grant is the only one, that
  the payment is recorded, and that the ledger has no entry of it yet; `JobInv` that a handler is
  about the event it was delivered.
- `AgentsNoOverdraft`, `ChargesAreEarned` (`[]OnlyCompletedCharged`) and `CompletionsAreCharged`
  (`[]CompletedIsCharged`) in `AgentsProofs`, from `AInv`: each fiber has a run of its own (`OwnRuns`), which
  is completed and not charged while the fiber is in the debit, and charged after it (`RunInv`).
- `SuccessesArePaid`: `AgentsSpec => []SuccessIsPaid`. The scheduler may record a run twice, since what fails after the insert is caught and recorded again, as failed.
  `TellInv` says that a run in the history belongs to no fiber any more, so no fiber can report it once more, and `ChargedStays` that a charge is never undone.
- `RunsOncePerDue`: `AgentsSpec => []OncePerDue`. `ServedInv` says that a workflow that is only listed, or
  that no fiber works on, has its schedule past its last run as long as there was no fault.

### Membership

Under `MembershipAssumption` (a hierarchy of scopes), for any requests at once and any redeliveries:

- `AcceptOnce`: `AcceptedOnce` is not inductive, since nothing in it keeps an accepted invitation from being pending
  again; `AcceptInv` adds that a pending one was never accepted.
- `SerialDecisions`: `SerialInv` says that while an invitation is not raced, whoever is about to decide it finds it
  pending, and that no invitation is pending while another one is about to be inserted.
- `ReplacementIsWhole`: `LockInv` says that a fiber between delete and insert holds the member's row, and that the rows it
  deleted are still all there are.
- `ListsMatchGuards`: `AliveInv` says that a grant's scope is alive (the cascade), and a project's workspace with it.

### Materializer

For any fibers, of which `Nobody` is not one (`MaterializerAssumption`):

- `SingleMap`: `MapInv` says that as long as nothing overlapped, a fiber that is about to insert a map does so in a run
  without one.
- `BackfillCompletes`: `LoneInv` says, for each statement of a backfill that is alone, what it has found out
  (`Found`: its links are the rows that are there now, or none where its artifact tells none) and that the rows of the steps before its step are there.
  The steps are done in an order in which nothing is before what it needs (`FirstIsNext`), and the approved steps are
  closed under it (`Closed`), which is why nothing is missed.

### Model-checked only

Liveness (`WatchdogRescues`, `PurchaseGranted`, `DueIsServed`, `TimeoutStops`, `Ends`, the convergence of `LiveView`): liveness under
fairness and ENABLED are out of the prover's reach.

## 5. Plan

Done: the engine, its abstract specification, the graph walks; credits with billing, agents and
schedules; membership; the materializer; the execution of a step; the page; a theorem for each safety property.

1. Artifact edits and concurrent requesters in the engine (`updateArtifact`, `deleteRun`, two clients).
2. The plan limits, with the features they count.

## 6. Not modelled

- What pipelines, prompts, verification rules, integrations and the crawler compute: functions of external data and HTTP clients. For
  `StepExecution` each returns one of the values it tells apart, or throws.
- Audits, reports, visibility, traffic, notifications, API usage, and the rest of the CRUD of organizations, workspaces, projects,
  content and keywords: single statements over tables of their own, with no one to interleave with.
- Authentication (delegated to Clerk), mails, Stripe's and Clerk's own state: outside the repository.
- The queue listener: it logs.
- The frontend apart from the run page: rendering. The conditions under which it offers its buttons are the guards of the engine's requests.

These make up most of the repository's lines, which is why the models cover a small share of them; the parts in which
several actors change shared state are the ones above.
