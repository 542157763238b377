------------------------------- MODULE Agents -------------------------------
(***************************************************************************)
(* OnDemandAgentsService and the scheduled workflows that call it, over    *)
(* Credits.  A fiber is a user's request or, during a tick of the          *)
(* scheduler, a due workflow of the batch; an agent run is its number.     *)
(* Time is counted in the ticks a schedule can tell apart: a cron          *)
(* expression is its period.                                               *)
(***************************************************************************)
EXTENDS Credits, FiniteSets

CONSTANTS
  Flows, Users,   \* the scheduled workflows, the callers of the agents' endpoint
  Crons, Cron,    \* the periods a schedule may have, and those the workflows are created with
  BatchSize,
  MaxRuns, MaxTime,
  MaxUpsets       \* bound on requests, edits and faults together

Runs == 1..MaxRuns

AgentPlaces == {"idle", "ask", "execute", "complete", "fail", "record", "find", "move"} \cup Outcomes

ASSUME AgentsAssumption ==
  /\ Fibers = Flows \cup Users /\ Flows \cap Users = {}
  /\ Places = AgentPlaces /\ Causes = Runs
  /\ MaxRuns \in Nat \ {0} /\ Crons \subseteq Nat \ {0} /\ Cron \in [Flows -> Crons] /\ BatchSize \in Nat \ {0}

VARIABLES
  now,
  flow,      \* scheduled_workflows: per workflow whether it exists, is_active, schedule_cron, next_run_at
  due, batch,\* of the tick under way: the workflows still to do, those being done
  runs,      \* agent_runs.status, in the order of creation
  mine,      \* per fiber: its run (0: none), the outcome it records, the cron it has read
  told,      \* workflow_run_history: per workflow, the runs whose response its entries hold
  served,    \* history: per workflow, when its last run began (0: never)
  asks, edits, faults   \* for the bounds

schedule == <<now, flow, told>>
tick     == <<due, batch>>
counters == <<asks, edits, faults>>
allVars  == <<vars, schedule, tick, runs, mine, served, counters>>

\* computeNextRunAt: the next time of the schedule after now.
NextRunAt(c) == c * (now \div c + 1)

Upset == asks + edits + faults < MaxUpsets

NoRun == [run |-> 0, outcome |-> "success", cron |-> 1]

AgentsInit ==
  /\ Init /\ now = 0
  /\ flow = [w \in Flows |-> [exists |-> TRUE, active |-> TRUE, cron |-> Cron[w], next |-> Cron[w]]]
  /\ due = {} /\ batch = {} /\ runs = << >>
  /\ mine = [f \in Fibers |-> NoRun]
  /\ told = [w \in Flows |-> << >>] /\ served = [w \in Flows |-> 0]
  /\ asks = 0 /\ edits = 0 /\ faults = 0

-----------------------------------------------------------------------------
(* The processor of 'scheduled-workflows', with one job at a time.         *)

IsDue(w) == flow[w].exists /\ flow[w].active /\ flow[w].next <= now

\* findDueWorkflows; the list is not looked at again.
Tick ==
  /\ due = {} /\ batch = {} /\ \E w \in Flows : IsDue(w)
  /\ due' = {w \in Flows : IsDue(w)}
  /\ UNCHANGED <<vars, schedule, batch, runs, mine, served, counters>>

StartBatch == \E B \in SUBSET due :
  /\ batch = {} /\ B # {}
  /\ Cardinality(B) = IF Cardinality(due) < BatchSize THEN Cardinality(due) ELSE BatchSize
  /\ batch' = B /\ due' = due \ B
  /\ pc' = [f \in Fibers |-> IF f \in B THEN "ask" ELSE pc[f]]
  /\ served' = [w \in Flows |-> IF w \in B THEN now ELSE served[w]]
  /\ UNCHANGED <<loc, Accounts, schedule, runs, mine, counters>>

\* Promise.allSettled
EndBatch ==
  /\ batch # {} /\ \A w \in batch : pc[w] = "idle"
  /\ batch' = {}
  /\ UNCHANGED <<vars, schedule, due, runs, mine, served, counters>>

-----------------------------------------------------------------------------
(* OnDemandAgentsService.run                                               *)

Ask(u) ==
  /\ u \in Users /\ pc[u] = "idle" /\ Upset /\ asks' = asks + 1
  /\ GoTo(u, "ask")
  /\ UNCHANGED <<loc, Accounts, schedule, tick, runs, mine, served, edits, faults>>

Move(f, from, to) ==
  /\ pc[f] = from /\ GoTo(f, to)
  /\ UNCHANGED <<loc, Accounts, tick, served, counters>>

SetRun(f, status) == runs' = [runs EXCEPT ![mine[f].run] = status]

\* Where a run that threw leaves its caller: the user has an answer, the workflow a failure to record.
AfterThrow(f) == IF f \in Users THEN "idle" ELSE "record"
Failing(f)    == mine' = [mine EXCEPT ![f] = [NoRun EXCEPT !.outcome = "failed"]]

\* Mutant: a refusal ends the call and is not recorded.
RefuseUnrecorded(f) == \E n \in Amounts :
  /\ balance < n /\ Move(f, "ask", "idle") /\ mine' = [mine EXCEPT ![f] = NoRun]
  /\ UNCHANGED <<schedule, runs>>

\* hasCredits says no: nothing is recorded of the run.
Refuse(f) == \E n \in Amounts :
  /\ balance < n /\ Move(f, "ask", AfterThrow(f)) /\ Failing(f)
  /\ UNCHANGED <<schedule, runs>>

Begin(f) == \E n \in Amounts :
  /\ balance >= n /\ Len(runs) < MaxRuns /\ Move(f, "ask", "execute")
  /\ runs' = Append(runs, "running") /\ mine' = [mine EXCEPT ![f].run = Len(runs) + 1]
  /\ UNCHANGED schedule

\* The agent answers, or it fails or is aborted after five minutes.
AgentRuns(f) == \E to \in {"complete", "fail"} :
  Move(f, "execute", to) /\ UNCHANGED <<schedule, runs, mine>>

Complete(f) == \E n \in Amounts :
  /\ pc[f] = "complete" /\ SetRun(f, "completed") /\ Debit(f, n, mine[f].run, FALSE)
  /\ UNCHANGED <<schedule, tick, mine, served, counters>>

\* Mutant: the error of the debit leaves the run as it is.
UnpaidCompleted(f) ==
  /\ Move(f, "threw", AfterThrow(f)) /\ Failing(f) /\ UNCHANGED <<schedule, runs>>

\* The debit throws: insufficient credits by now, or the transaction failed.
Unpaid(f) == Move(f, "threw", "fail") /\ UNCHANGED <<schedule, runs, mine>>

\* Mutant: the error is swallowed.
FailRunSilently(f) ==
  /\ Move(f, "fail", AfterThrow(f)) /\ SetRun(f, "failed") /\ UNCHANGED <<mine, schedule>>

FailRun(f) ==
  /\ Move(f, "fail", AfterThrow(f)) /\ SetRun(f, "failed") /\ Failing(f)
  /\ UNCHANGED schedule

\* Mutant: a failing write to the intelligence store fails the run.
PaidThenFails(f) == \E to \in {"idle", "fail"} :
  /\ Move(f, "paid", IF to = "fail" \/ f \in Users THEN to ELSE "record")
  /\ UNCHANGED <<mine, schedule, runs>>

\* A failing write to the intelligence store or delivery is caught on the way, and changes nothing.
Paid(f) ==
  /\ Move(f, "paid", IF f \in Users THEN "idle" ELSE "record")
  /\ mine' = [mine EXCEPT ![f] = IF f \in Users THEN NoRun ELSE @] /\ UNCHANGED <<schedule, runs>>

-----------------------------------------------------------------------------
(* recordRun: insert, find, update.  The insert needs the workflow (its    *)
(* foreign key), the update takes the cron that was found.                 *)

Record(f) ==
  /\ flow[f].exists /\ Move(f, "record", "find")
  /\ told' = [told EXCEPT ![f] = IF mine[f].outcome = "success" THEN Append(@, mine[f].run) ELSE @]
  /\ mine' = [mine EXCEPT ![f].run = 0]
  /\ UNCHANGED <<now, flow, runs>>

Find(f) ==
  /\ Move(f, "find", IF flow[f].exists THEN "move" ELSE "idle")
  /\ mine' = [mine EXCEPT ![f] = IF flow[f].exists THEN [@ EXCEPT !.cron = flow[f].cron] ELSE NoRun]
  /\ UNCHANGED <<schedule, runs>>

\* Mutant: the next time is counted from the one that was due.
RescheduleFromDue(f) ==
  /\ Move(f, "move", "idle")
  /\ flow' = [flow EXCEPT ![f].next = IF flow[f].exists THEN @ + mine[f].cron ELSE @]
  /\ mine' = [mine EXCEPT ![f] = NoRun]
  /\ UNCHANGED <<now, told, runs>>

Reschedule(f) ==
  /\ Move(f, "move", "idle")
  /\ flow' = [flow EXCEPT ![f].next = IF flow[f].exists THEN NextRunAt(mine[f].cron) ELSE @]
  /\ mine' = [mine EXCEPT ![f] = NoRun]
  /\ UNCHANGED <<now, told, runs>>

\* recordRun throws: after a success a failure is recorded instead, after a failure nothing.
RecordAgain(f) == LET again == mine[f].outcome = "success" IN
  /\ GoTo(f, IF again THEN "record" ELSE "idle")
  /\ mine' = [mine EXCEPT ![f] = IF again THEN [NoRun EXCEPT !.outcome = "failed"] ELSE NoRun]

Deleted(f) ==
  /\ pc[f] = "record" /\ ~flow[f].exists /\ RecordAgain(f)
  /\ UNCHANGED <<loc, Accounts, schedule, tick, runs, served, counters>>

-----------------------------------------------------------------------------
(* The users' edits, time, and faults.                                     *)

Edit(w, v) ==
  /\ flow[w].exists /\ flow[w] # v /\ Upset /\ edits' = edits + 1
  /\ flow' = [flow EXCEPT ![w] = v]
  /\ UNCHANGED <<vars, now, tick, runs, mine, served, asks, faults>>

Update(w) ==
  /\ \/ \E c \in Crons : Edit(w, [flow[w] EXCEPT !.cron = c, !.next = NextRunAt(c)])
     \/ Edit(w, [flow[w] EXCEPT !.active = ~@])
  /\ UNCHANGED told

\* Its history goes with it (onDelete: 'cascade').
Delete(w) ==
  /\ Edit(w, [flow[w] EXCEPT !.exists = FALSE, !.active = FALSE])
  /\ told' = [told EXCEPT ![w] = << >>]

Clock ==
  /\ now < MaxTime /\ now' = now + 1
  /\ UNCHANGED <<vars, flow, told, tick, runs, mine, served, counters>>

Charge(f) == Execute(f) /\ UNCHANGED <<schedule, tick, runs, mine, served, counters>>

DebitFails(f) ==
  /\ Upset /\ faults' = faults + 1
  /\ Rollback(f) /\ UNCHANGED <<schedule, tick, runs, mine, served, asks, edits>>

RecordFails(f) == \E from \in {"record", "find", "move"} :
  /\ pc[f] = from /\ Upset /\ faults' = faults + 1
  /\ RecordAgain(f) /\ UNCHANGED <<loc, Accounts, schedule, tick, runs, served, asks, edits>>

\* The repeatable job is registered again at the start, and the next tick looks at what is due.
Crash ==
  /\ Upset /\ faults' = faults + 1
  /\ Halt /\ due' = {} /\ batch' = {} /\ mine' = [f \in Fibers |-> NoRun]
  /\ UNCHANGED <<schedule, runs, served, asks, edits>>

Agent(f) ==
  \/ Refuse(f) \/ Begin(f) \/ AgentRuns(f) \/ Complete(f) \/ Unpaid(f) \/ FailRun(f) \/ Paid(f)
  \/ Charge(f)
  \/ f \in Flows /\ (Record(f) \/ Find(f) \/ Reschedule(f) \/ Deleted(f))

Scheduler == Tick \/ StartBatch \/ EndBatch

AgentsNext ==
  \/ Scheduler
  \/ \E f \in Fibers : Ask(f) \/ Agent(f) \/ DebitFails(f)
  \/ \E w \in Flows : RecordFails(w) \/ Update(w) \/ Delete(w)
  \/ Clock \/ Crash

\* The queue's repeatable job keeps coming, and a fiber whose promise is settled goes on.
AgentsSpec ==
  /\ AgentsInit /\ [][AgentsNext]_allVars
  /\ WF_allVars(Scheduler) /\ \A f \in Fibers : WF_allVars(Agent(f))

-----------------------------------------------------------------------------
(* Only completed runs are charged, and once ("no credit charge per AD-8"):*)
(* whatever fails after the debit leaves the run completed.                *)
OnlyCompletedCharged == \A i, j \in DOMAIN ledger :
  /\ runs[ledger[i].for] = "completed"
  /\ ledger[i].for = ledger[j].for => i = j

Charged(r) == \E i \in DOMAIN ledger : ledger[i].for = r

(* A completed run is charged, or its fiber is about to charge it or to    *)
(* take the completion back, unless the server crashed in between.         *)
CompletedIsCharged == \A r \in DOMAIN runs :
  runs[r] = "completed" =>
    \/ Charged(r) \/ faults > 0
    \/ \E f \in Fibers : mine[f].run = r /\ pc[f] \in Statements \cup {"threw", "fail"}

(* The history of the workflows shows no response that was not paid for,   *)
(* and none twice, although recordRun may throw after its insert and is    *)
(* then called again.                                                      *)
SuccessIsPaid == \A w \in Flows : \A i \in DOMAIN told[w] :
  /\ Charged(told[w][i])
  /\ \A v \in Flows : \A j \in DOMAIN told[v] : told[v][j] = told[w][i] => v = w /\ j = i

(* A workflow runs once per due time: a run begins only when the schedule  *)
(* has moved past the beginning of the one before, also after failures,    *)
(* refusals and edits.  A crash or a database error before the schedule is *)
(* moved on breaks it.                                                     *)
OncePerDue == [][
  \A w \in batch' \ batch : faults = 0 /\ served[w] > 0 => flow[w].next > served[w]]_allVars

(* What is due is run, or switched off, whatever fails.                    *)
DueIsServed == \A w \in Flows : IsDue(w) ~> ~IsDue(w)

=============================================================================
