---------------------------- MODULE AgentsProofs ----------------------------
(***************************************************************************)
(* Theorems about Agents, a caller of Credits: no overdraft, what a charge *)
(* says of an agent run and a run of its charge, the history of a          *)
(* scheduled workflow, and one run per due time.                           *)
(***************************************************************************)
EXTENDS Agents, CreditsProofs, SequenceTheorems

Idling == {"idle", "ask", "record", "find", "move"}

RunRecords == [run : Nat, outcome : {"success", "failed"}, cron : Nat \ {0}]
FlowRows   == [exists : BOOLEAN, active : BOOLEAN, cron : Crons, next : Nat]

AgentsTyped ==
  /\ now \in Nat /\ due \subseteq Flows /\ flow \in [Flows -> FlowRows] /\ faults \in Nat
  /\ mine \in [Fibers -> RunRecords]
  /\ runs \in Seq({"running", "completed", "failed"}) /\ Len(runs) <= MaxRuns

\* What a fiber knows of its run, which is its own, depends on where it is.
RunInv(f) == LET r == mine[f].run IN
  /\ r # 0 => r \in DOMAIN runs
  /\ pc[f] \in Idling \ {"record"} => r = 0
  /\ pc[f] = "record" => (mine[f].outcome = "success" => r # 0) /\ (r # 0 => Charged(r))
  /\ pc[f] \notin Idling => r \in DOMAIN runs
  /\ pc[f] \in Statements \cup {"threw", "paid"} => runs[r] = "completed"
  /\ pc[f] \in Statements => loc[f].for = r
  /\ pc[f] \notin Idling \cup {"paid"} => ~Charged(r)
  /\ pc[f] = "paid" => Charged(r)

OwnRuns == \A f, g \in Fibers : mine[f].run = mine[g].run /\ mine[f].run # 0 => f = g

\* A workflow that is not of the batch does nothing.
Resting == \A w \in Flows \ batch : pc[w] = "idle"

AInv ==
  /\ AgentsTyped /\ OwnRuns /\ Resting
  /\ \A f \in Fibers : RunInv(f)
  /\ \A i \in DOMAIN ledger : ledger[i].for \in DOMAIN runs
  /\ OnlyCompletedCharged /\ CompletedIsCharged

USE CreditsAssumption, AgentsAssumption

LEMMA NextRunTyped == ASSUME now \in Nat, NEW c \in Nat \ {0} PROVE NextRunAt(c) \in Nat
<1>1. now \div c \in Nat
  OBVIOUS
<1>2. QED
  BY <1>1 DEF NextRunAt

(* Each step of Agents is one that Credits allows its callers.             *)
LEMMA AgentsStep ==
  ASSUME TypeOK, AInv, [AgentsNext]_allVars
  PROVE  [Next]_vars
<1>1. ASSUME NEW f \in Fibers, NEW p \in Places,
             pc[f] \notin Statements, GoTo(f, p), UNCHANGED <<loc, Accounts>>
      PROVE  Next
  BY <1>1 DEF Next, GoOn, GoTo, Elsewhere, TypeOK
<1>2. ASSUME NEW f \in Fibers, Agent(f) PROVE Next
  <2>1. CASE Charge(f)
    BY <2>1 DEF Charge, Next
  <2>2. CASE Complete(f)
    <3>1. PICK n \in Amounts : pc[f] = "complete" /\ Debit(f, n, mine[f].run, FALSE)
      BY <2>2 DEF Complete
    <3>2. mine[f].run \in Causes
      BY <3>1 DEF AInv, AgentsTyped, RunInv, Idling, Runs
    <3>3. QED
      BY <3>1, <3>2 DEF Next, UseCredits, Elsewhere, Statements
  <2>3. CASE ~Charge(f) /\ ~Complete(f)
    <3>1. PICK p \in AgentPlaces : GoTo(f, p)
      BY <1>2, <2>3 DEF Agent, Refuse, Begin, AgentRuns, Unpaid, FailRun, Paid, Move, AfterThrow,
         Record, Find, Reschedule, Deleted, RecordAgain, AgentPlaces, Outcomes
    <3>2. pc[f] \notin Statements /\ UNCHANGED <<loc, Accounts>>
      BY <1>2, <2>3 DEF Agent, Refuse, Begin, AgentRuns, Unpaid, FailRun, Paid, Move,
         Record, Find, Reschedule, Deleted, Statements
    <3>3. QED
      BY <1>1, <3>1, <3>2
  <2>4. QED
    BY <2>1, <2>2, <2>3
<1>3. ASSUME NEW f \in Fibers, Ask(f) PROVE Next
  BY <1>1, <1>3 DEF Ask, AgentPlaces, Statements
<1>4. ASSUME NEW f \in Fibers, DebitFails(f) PROVE Next
  BY <1>4 DEF DebitFails, Next
<1>5. ASSUME NEW f \in Flows, RecordFails(f) PROVE Next
  <2>1. PICK p \in AgentPlaces : GoTo(f, p)
    BY <1>5 DEF RecordFails, RecordAgain, AgentPlaces
  <2>2. pc[f] \notin Statements /\ UNCHANGED <<loc, Accounts>>
    BY <1>5 DEF RecordFails, Statements
  <2>3. QED
    BY <1>1, <2>1, <2>2
<1>6. CASE StartBatch
  <2>1. PICK B \in SUBSET due :
          /\ batch = {} /\ pc' = [f \in Fibers |-> IF f \in B THEN "ask" ELSE pc[f]]
          /\ UNCHANGED <<loc, Accounts>>
    BY <1>6 DEF StartBatch
  <2>2. \A f \in B \cap Fibers : f \in Flows /\ pc[f] = "idle"
    BY <2>1 DEF AInv, AgentsTyped, Resting
  <2>3. QED
    BY <2>1, <2>2 DEF Next, GoOn, Elsewhere, Statements, TypeOK, AgentPlaces
<1>7. CASE Crash
  BY <1>7 DEF Crash, Next
<1>8. CASE Tick \/ EndBatch \/ Clock \/ UNCHANGED allVars \/ \E w \in Flows : Update(w) \/ Delete(w)
  BY <1>8 DEF Tick, EndBatch, Clock, Update, Delete, Edit, allVars, vars
<1>9. QED
  BY <1>2, <1>3, <1>4, <1>5, <1>6, <1>7, <1>8 DEF AgentsNext, Scheduler

-----------------------------------------------------------------------------
(* The steps of a fiber, by what they do to its run.                       *)

\* The fiber f, active, goes to p.
Goes(f, p) ==
  /\ GoTo(f, p) /\ (f \in Users \/ pc[f] # "idle")
  /\ batch' = batch /\ (faults > 0 => faults' > 0)
  /\ \A g \in Fibers \ {f} : loc'[g] = loc[g]

(* A fiber without a run goes on without one, or lets go of a settled one, *)
(* or goes to record it.                                                   *)
LEMMA IdleInv ==
  ASSUME TypeOK, AInv, AgentsTyped', NEW f \in Fibers, NEW p \in Idling, Goes(f, p),
         NEW m \in RunRecords, mine' = [mine EXCEPT ![f] = m],
         \/ m.run = 0 /\ (p = "record" => m.outcome = "failed")
         \/ m = mine[f] /\ p = "record" /\ pc[f] = "paid",
         pc[f] \in Idling \cup {"paid"}, UNCHANGED <<ledger, runs>>
  PROVE  AInv'
<1> USE DEF AInv
<1>1. /\ \A g \in Fibers : pc'[g] = IF g = f THEN p ELSE pc[g]
      /\ \A g \in Fibers : mine'[g] = IF g = f THEN m ELSE mine[g]
  BY DEF Goes, GoTo, TypeOK, AgentsTyped
<1>2. \A g \in Fibers : RunInv(g)'
  <2>1. \A q : Charged(q)' <=> Charged(q)
    BY DEF Charged
  <2>2. RunInv(f)'
    <3>1. pc'[f] = p /\ mine'[f] = m
      BY <1>1
    <3>2. CASE m.run = 0 /\ (p = "record" => m.outcome = "failed")
      BY <3>1, <3>2 DEF RunInv, Idling, Statements
    <3>3. CASE m = mine[f] /\ p = "record" /\ pc[f] = "paid"
      <4>1. PICK r : r = mine[f].run
        OBVIOUS
      <4>2. r \in DOMAIN runs /\ Charged(r) /\ r # 0
        BY <3>3, <4>1 DEF RunInv, Idling, AgentsTyped
      <4>3. QED
        BY <2>1, <3>1, <3>3, <4>1, <4>2 DEF RunInv, Idling, Statements
    <3>4. QED
      BY <3>2, <3>3
  <2>3. ASSUME NEW g \in Fibers, g # f PROVE RunInv(g)'
    <3>1. pc'[g] = pc[g] /\ mine'[g] = mine[g] /\ loc'[g] = loc[g]
      BY <1>1, <2>3 DEF Goes
    <3>2. PICK r : r = mine[g].run
      OBVIOUS
    <3>3. QED
      BY <2>1, <3>1, <3>2 DEF RunInv
  <2>4. QED
    BY <2>2, <2>3
<1>3. OwnRuns' /\ Resting'
  BY <1>1 DEF OwnRuns, Resting, Goes
<1>4. CompletedIsCharged'
  BY <1>1 DEF CompletedIsCharged, Charged, Goes, Idling, Statements
<1>5. QED
  BY <1>2, <1>3, <1>4 DEF OnlyCompletedCharged

(* A fiber goes on with its run.                                           *)
LEMMA OnwardInv ==
  ASSUME TypeOK, AInv, AgentsTyped', NEW f \in Fibers, NEW p, Goes(f, p),
         UNCHANGED <<mine, ledger, runs>>, pc[f] \notin Idling \cup {"paid"},
         p \in Statements \cup {"complete", "threw", "fail"},
         p \in Statements => pc[f] \in Statements /\ loc'[f].for = loc[f].for,
         p = "threw" => pc[f] \in Statements, p = "complete" => pc[f] = "execute"
  PROVE  AInv'
<1> USE DEF AInv
<1>1. \A g \in Fibers : pc'[g] = IF g = f THEN p ELSE pc[g]
  BY DEF Goes, GoTo, TypeOK
<1>2. \A g \in Fibers : RunInv(g)'
  BY <1>1 DEF RunInv, Goes, Charged, Idling, Statements
<1>3. OwnRuns' /\ Resting'
  BY <1>1 DEF OwnRuns, Resting, Goes
<1>4. CompletedIsCharged'
  BY <1>1 DEF CompletedIsCharged, Charged, Goes, Statements
<1>5. QED
  BY <1>2, <1>3, <1>4 DEF OnlyCompletedCharged

(* A fiber settles the status of its run: it was not charged before.       *)
LEMMA SettleInv ==
  ASSUME TypeOK, AInv, AgentsTyped', NEW f \in Fibers, NEW p, Goes(f, p),
         NEW m \in RunRecords, mine' = [mine EXCEPT ![f] = m], ledger' = ledger,
         NEW status \in {"completed", "failed"}, SetRun(f, status), pc[f] \in {"complete", "fail"},
         \/ status = "completed" /\ p = "debit" /\ m = mine[f] /\ loc'[f].for = m.run
         \/ status = "failed" /\ p \in Idling /\ m.run = 0 /\ m.outcome = "failed"
  PROVE  AInv'
<1> USE DEF AInv
<1>1. PICK r \in DOMAIN runs : r = mine[f].run /\ ~Charged(r)
  BY DEF RunInv, Idling
<1>2. /\ \A g \in Fibers : pc'[g] = IF g = f THEN p ELSE pc[g]
      /\ \A g \in Fibers : mine'[g] = IF g = f THEN m ELSE mine[g]
      /\ \A g \in Fibers \ {f} : mine[g].run # r
      /\ DOMAIN runs' = DOMAIN runs /\ \A q \in DOMAIN runs : runs'[q] = IF q = r THEN status ELSE runs[q]
  <2>1. r # 0
    BY DEF AgentsTyped
  <2>2. QED
    BY <1>1, <2>1 DEF Goes, GoTo, TypeOK, AgentsTyped, SetRun, OwnRuns
<1>3. \A g \in Fibers : RunInv(g)'
  BY <1>1, <1>2 DEF RunInv, Goes, Charged, Idling, Statements
<1>4. OwnRuns' /\ Resting'
  BY <1>2 DEF OwnRuns, Resting, Goes
<1>5. OnlyCompletedCharged' /\ \A i \in DOMAIN ledger' : ledger'[i].for \in DOMAIN runs'
  BY <1>1, <1>2 DEF OnlyCompletedCharged, Charged
<1>6. CompletedIsCharged'
  <2> SUFFICES ASSUME NEW q \in DOMAIN runs, runs'[q] = "completed"
               PROVE  \/ Charged(q)' \/ faults' > 0
                      \/ \E g \in Fibers : mine'[g].run = q /\ pc'[g] \in Statements \cup {"threw", "fail"}
    BY <1>2 DEF CompletedIsCharged
  <2>1. CASE q = r
    BY <1>1, <1>2, <2>1 DEF Statements
  <2>2. CASE q # r
    BY <1>1, <1>2, <2>2 DEF CompletedIsCharged, Charged, Goes
  <2>3. QED
    BY <2>1, <2>2
<1>7. QED
  BY <1>3, <1>4, <1>5, <1>6

(* A fiber begins a run: its number is new.                                *)
LEMMA BeginInv ==
  ASSUME TypeOK, AInv, AgentsTyped', NEW f \in Fibers, Begin(f)
  PROVE  AInv'
<1> USE DEF AInv
<1> DEFINE r == Len(runs) + 1
<1>1. /\ \A g \in Fibers : pc'[g] = IF g = f THEN "execute" ELSE pc[g]
      /\ pc[f] = "ask" /\ UNCHANGED <<loc, ledger, batch, faults>>
  BY DEF Begin, Move, GoTo, TypeOK, Accounts, tick, counters
<1>2. /\ \A g \in Fibers \ {f} : mine'[g] = mine[g]
      /\ mine'[f].run = r
  BY DEF Begin, AgentsTyped, RunRecords
<1>3. /\ DOMAIN runs' = DOMAIN runs \cup {r} /\ r \notin DOMAIN runs /\ r \in Nat \ {0}
      /\ \A q \in DOMAIN runs : runs'[q] = runs[q]
      /\ runs'[r] = "running"
  <2>1. runs' = Append(runs, "running") /\ runs \in Seq({"running", "completed", "failed"})
    BY DEF Begin, AgentsTyped
  <2>2. QED
    BY <2>1
<1> HIDE DEF r
<1>4. ~Charged(r)
  BY <1>3 DEF Charged
<1>5. \A g \in Fibers : mine[g].run # r
  BY <1>3 DEF RunInv
<1>6. \A g \in Fibers : RunInv(g)'
  BY <1>1, <1>2, <1>3, <1>4 DEF RunInv, Charged, Idling, Statements
<1>7. OwnRuns' /\ Resting'
  BY <1>1, <1>2, <1>3, <1>5 DEF OwnRuns, Resting
<1>8. OnlyCompletedCharged' /\ \A i \in DOMAIN ledger' : ledger'[i].for \in DOMAIN runs'
  BY <1>1, <1>3 DEF OnlyCompletedCharged
<1>9. CompletedIsCharged'
  <2> SUFFICES ASSUME NEW q \in DOMAIN runs, runs[q] = "completed"
               PROVE  \/ Charged(q)' \/ faults' > 0
                      \/ \E g \in Fibers : mine'[g].run = q /\ pc'[g] \in Statements \cup {"threw", "fail"}
    BY <1>3 DEF CompletedIsCharged
  <2>1. QED
    BY <1>1, <1>2 DEF CompletedIsCharged, Charged, Statements
<1>10. QED
  BY <1>6, <1>7, <1>8, <1>9

(* The commit of a charge: the run was completed and not charged.          *)
LEMMA ChargeInv ==
  ASSUME TypeOK, AInv, AgentsTyped', NEW f \in Fibers, Post(f), UNCHANGED <<mine, runs, tick, counters>>
  PROVE  AInv'
<1> USE DEF AInv
<1> DEFINE l == loc[f]
           entry == [amount |-> l.amount, after |-> l.read + l.amount, for |-> l.for]
<1>1. PICK r \in DOMAIN runs :
        /\ r = mine[f].run /\ r = loc[f].for /\ runs[r] = "completed" /\ ~Charged(r)
        /\ \A g \in Fibers \ {f} : mine[g].run # r
  <2>1. pc[f] = "post"
    BY DEF Post
  <2>2. 0 \notin DOMAIN runs
    BY DEF AgentsTyped
  <2>3. QED
    BY <2>1, <2>2 DEF RunInv, Idling, Statements, OwnRuns
<1>2. /\ \A g \in Fibers : pc'[g] = IF g = f THEN "paid" ELSE pc[g]
      /\ \A g \in Fibers \ {f} : loc'[g] = loc[g]
      /\ pc[f] = "post"
  BY DEF Post, Return, GoTo, TypeOK
<1>3. /\ DOMAIN ledger' = DOMAIN ledger \cup {Len(ledger) + 1}
      /\ \A i \in DOMAIN ledger : ledger'[i] = ledger[i]
      /\ ledger'[Len(ledger) + 1].for = r
  <2>1. ledger' = Append(ledger, entry) /\ ledger \in Seq(Entries) /\ entry.for = r
    BY <1>1 DEF Post, TypeOK
  <2> HIDE DEF entry
  <2>2. QED
    BY <2>1
<1>4. Charged(r)' /\ \A q : q # r => (Charged(q)' <=> Charged(q))
  BY <1>3 DEF Charged
<1>5. \A g \in Fibers : RunInv(g)'
  <2>1. RunInv(f)'
    BY <1>1, <1>2, <1>4 DEF RunInv, Idling, Statements
  <2>2. ASSUME NEW g \in Fibers, g # f PROVE RunInv(g)'
    <3>1. PICK q : q = mine[g].run /\ q # r
      BY <1>1, <2>2
    <3>2. Charged(q)' <=> Charged(q)
      BY <1>4, <3>1
    <3>3. QED
      BY <1>2, <2>2, <3>1, <3>2 DEF RunInv
  <2>3. QED
    BY <2>1, <2>2
<1>6. OwnRuns' /\ Resting'
  BY <1>2 DEF OwnRuns, Resting, tick
<1>7. OnlyCompletedCharged' /\ \A i \in DOMAIN ledger' : ledger'[i].for \in DOMAIN runs'
  BY <1>1, <1>3 DEF OnlyCompletedCharged, Charged
<1>8. CompletedIsCharged'
  <2> SUFFICES ASSUME NEW q \in DOMAIN runs, runs[q] = "completed", q # r, faults = 0 \/ ~(faults > 0)
               PROVE  \/ Charged(q)'
                      \/ \E g \in Fibers : mine[g].run = q /\ pc'[g] \in Statements \cup {"threw", "fail"}
    BY <1>4 DEF CompletedIsCharged, counters
  <2>1. \/ Charged(q)
        \/ \E g \in Fibers : mine[g].run = q /\ pc[g] \in Statements \cup {"threw", "fail"}
    BY DEF CompletedIsCharged
  <2>2. QED
    BY <1>1, <1>2, <1>4, <2>1
<1>9. QED
  BY <1>5, <1>6, <1>7, <1>8

-----------------------------------------------------------------------------
(* Every step                                                              *)

(* What a fiber may remember of a run.                                     *)
LEMMA NoRunTyped ==
  /\ NoRun \in RunRecords /\ NoRun.run = 0
  /\ [NoRun EXCEPT !.outcome = "failed"] \in RunRecords /\ [NoRun EXCEPT !.outcome = "failed"].run = 0
  /\ [NoRun EXCEPT !.outcome = "failed"].outcome = "failed"
  BY DEF NoRun, RunRecords

LEMMA RunTyped ==
  ASSUME NEW m \in RunRecords
  PROVE  /\ \A n \in Nat : [m EXCEPT !.run = n] \in RunRecords
         /\ \A c \in Crons : [m EXCEPT !.cron = c] \in RunRecords
  BY DEF RunRecords

LEMMA RowTyped ==
  ASSUME NEW v \in FlowRows
  PROVE  /\ \A c \in Crons, n \in Nat : [v EXCEPT !.cron = c, !.next = n] \in FlowRows
         /\ [v EXCEPT !.active = ~@] \in FlowRows
         /\ [v EXCEPT !.exists = FALSE, !.active = FALSE] \in FlowRows
  BY DEF FlowRows

(* The agents' own variables keep their types.                             *)
LEMMA TypedStep ==
  ASSUME TypeOK, AInv, [AgentsNext]_allVars
  PROVE  AgentsTyped'
<1> USE NoRunTyped DEF AInv, AgentsTyped
<1>1. ASSUME NEW f \in Fibers, Agent(f) PROVE AgentsTyped'
  <2>1. CASE Begin(f)
    <3>1. runs' = Append(runs, "running") /\ Len(runs) < MaxRuns
      BY <2>1 DEF Begin
    <3>2. runs' \in Seq({"running", "completed", "failed"}) /\ Len(runs') <= MaxRuns
      BY <3>1
    <3>3. mine' \in [Fibers -> RunRecords]
      <4>1. [mine[f] EXCEPT !.run = Len(runs) + 1] \in RunRecords
        <5>1. mine[f] \in RunRecords /\ Len(runs) + 1 \in Nat
          OBVIOUS
        <5>2. QED
          BY <5>1, RunTyped
      <4>2. QED
        BY <2>1, <4>1 DEF Begin
    <3>4. QED
      BY <2>1, <3>2, <3>3 DEF Begin, Move, schedule, tick, counters
  <2>2. CASE Complete(f) \/ FailRun(f)
    <3>1. PICK status \in {"completed", "failed"} : SetRun(f, status)
      BY <2>2 DEF Complete, FailRun
    <3>2. runs' \in Seq({"running", "completed", "failed"}) /\ Len(runs') = Len(runs)
      <4>1. mine[f].run \in 1..Len(runs)
        <5>1. pc[f] \in {"complete", "fail"}
          BY <2>2 DEF Complete, FailRun, Move
        <5>2. RunInv(f) /\ DOMAIN runs = 1..Len(runs)
          OBVIOUS
        <5>3. QED
          BY <5>1, <5>2 DEF RunInv, Idling
      <4>2. QED
        BY <3>1, <4>1, ExceptSeq DEF SetRun
    <3>3. mine' \in [Fibers -> RunRecords]
      BY <2>2 DEF Complete, FailRun, Failing
    <3>4. QED
      BY <2>2, <3>2, <3>3 DEF Complete, FailRun, Move, schedule, tick, counters
  <2>3. CASE \/ Refuse(f) \/ AgentRuns(f) \/ Unpaid(f) \/ Paid(f) \/ Charge(f)
             \/ f \in Flows /\ (Record(f) \/ Deleted(f))
    <3>1. mine' \in [Fibers -> RunRecords]
      <4>1. CASE Record(f)
        BY <4>1, RunTyped DEF Record
      <4>2. CASE ~Record(f)
        BY <2>3, <4>2 DEF Refuse, AgentRuns, Unpaid, Paid, Charge, Deleted, RecordAgain, Failing
      <4>3. QED
        BY <4>1, <4>2
    <3>2. UNCHANGED <<now, flow, tick, runs, faults>>
      BY <2>3 DEF Refuse, AgentRuns, Unpaid, Paid, Charge, Record, Deleted, Move, schedule, counters
    <3>3. QED
      BY <3>1, <3>2 DEF tick
  <2>4. CASE f \in Flows /\ Find(f)
    <3>1. flow[f].cron \in Crons
      BY <2>4 DEF FlowRows
    <3>2. mine' \in [Fibers -> RunRecords]
      BY <2>4, <3>1, RunTyped DEF Find
    <3>3. QED
      BY <2>4, <3>2 DEF Find, Move, schedule, tick, counters
  <2>5. CASE f \in Flows /\ Reschedule(f)
    <3>1. flow' \in [Flows -> FlowRows]
      <4>1. PICK n : flow' = [flow EXCEPT ![f].next = n] /\ n \in Nat
        <5>1. CASE ~flow[f].exists
          BY <2>5, <5>1 DEF Reschedule, FlowRows
        <5>2. CASE flow[f].exists
          BY <2>5, <5>2, NextRunTyped DEF Reschedule, RunRecords
        <5>3. QED
          BY <5>1, <5>2
      <4>2. QED
        BY <4>1 DEF FlowRows
    <3>2. mine' \in [Fibers -> RunRecords]
      BY <2>5 DEF Reschedule
    <3>3. QED
      BY <2>5, <3>1, <3>2 DEF Reschedule, Move, tick, counters
  <2>6. QED
    BY <1>1, <2>1, <2>2, <2>3, <2>4, <2>5 DEF Agent
<1>2. ASSUME NEW w \in Flows, Update(w) \/ Delete(w) PROVE AgentsTyped'
  <2>1. PICK v \in FlowRows : Edit(w, v)
    <3>1. CASE \E c \in Crons : Edit(w, [flow[w] EXCEPT !.cron = c, !.next = NextRunAt(c)])
      <4>1. PICK c \in Crons : Edit(w, [flow[w] EXCEPT !.cron = c, !.next = NextRunAt(c)])
        BY <3>1
      <4>2. NextRunAt(c) \in Nat
        BY NextRunTyped
      <4>3. QED
        BY <4>1, <4>2, RowTyped
    <3>2. CASE ~\E c \in Crons : Edit(w, [flow[w] EXCEPT !.cron = c, !.next = NextRunAt(c)])
      BY <1>2, <3>2, RowTyped DEF Update, Delete
    <3>3. QED
      BY <3>1, <3>2
  <2>2. QED
    BY <2>1 DEF Edit, tick
<1>3. ASSUME NEW f \in Fibers, Ask(f) \/ DebitFails(f) PROVE AgentsTyped'
  BY <1>3 DEF Ask, DebitFails, schedule, tick
<1>4. ASSUME NEW w \in Flows, RecordFails(w) PROVE AgentsTyped'
  BY <1>4 DEF RecordFails, RecordAgain, schedule, tick
<1>5. CASE Tick \/ StartBatch \/ EndBatch \/ Clock \/ Crash \/ UNCHANGED allVars
  BY <1>5 DEF Tick, StartBatch, EndBatch, Clock, Crash, schedule, tick, counters, allVars
<1>6. QED
  BY <1>1, <1>2, <1>3, <1>4, <1>5 DEF AgentsNext, Scheduler

(* The steps of the agents preserve what is known of their runs.           *)
LEMMA AInvStep ==
  ASSUME TypeOK, AInv, [AgentsNext]_allVars
  PROVE  AInv'
<1>1. AgentsTyped'
  BY TypedStep
<1>2. \A f \in Fibers : mine[f] \in RunRecords /\ mine' = mine => mine' = [mine EXCEPT ![f] = mine[f]]
  BY DEF AInv, AgentsTyped
<1>3. \A f \in Fibers : mine[f] \in RunRecords /\ (pc[f] \in Idling \ {"record"} => mine[f].run = 0)
  BY DEF AInv, AgentsTyped, RunInv
<1>4. \A f \in Fibers : AfterThrow(f) \in Idling
  BY DEF AfterThrow, Idling
<1>5. ASSUME NEW f \in Fibers, Agent(f) \/ DebitFails(f) PROVE AInv'
  <2>1. CASE Refuse(f) \/ Paid(f)
    <3>1. pc[f] \in {"ask", "paid"} /\ UNCHANGED <<ledger, runs>>
      BY <2>1 DEF Refuse, Paid, Move, Accounts
    <3>2. CASE Refuse(f)
      <4>1. Goes(f, AfterThrow(f)) /\ mine' = [mine EXCEPT ![f] = [NoRun EXCEPT !.outcome = "failed"]]
        BY <3>2 DEF Refuse, Move, Failing, Goes, tick, counters
      <4>2. QED
        BY <1>1, <1>4, <3>1, <4>1, NoRunTyped, IdleInv DEF Idling
    <3>3. CASE Paid(f) /\ f \in Users
      <4>1. Goes(f, "idle") /\ mine' = [mine EXCEPT ![f] = NoRun]
        BY <3>3 DEF Paid, Move, Goes, tick, counters
      <4>2. QED
        BY <1>1, <3>1, <4>1, NoRunTyped, IdleInv DEF Idling
    <3>4. CASE Paid(f) /\ f \notin Users
      <4>1. Goes(f, "record") /\ mine' = [mine EXCEPT ![f] = mine[f]] /\ pc[f] = "paid"
        BY <3>4, <1>2 DEF Paid, Move, Goes, tick, counters
      <4>2. QED
        BY <1>1, <1>3, <3>1, <4>1, IdleInv DEF Idling
    <3>5. QED
      BY <2>1, <3>2, <3>3, <3>4
  <2>2. CASE f \in Flows /\ (Record(f) \/ Find(f) \/ Reschedule(f) \/ Deleted(f))
    <3>1. PICK p \in Idling : Goes(f, p) /\ (p = "record" => Deleted(f) /\ GoTo(f, "record"))
      BY <2>2 DEF Record, Find, Reschedule, Deleted, RecordAgain, Move, Goes, Idling, tick, counters
    <3>2. pc[f] \in Idling /\ UNCHANGED <<ledger, runs>>
      BY <2>2 DEF Record, Find, Reschedule, Deleted, Move, Accounts, Idling
    <3>3. PICK m \in RunRecords :
            m.run = 0 /\ (p = "record" => m.outcome = "failed") /\ mine' = [mine EXCEPT ![f] = m]
      <4>1. CASE Record(f)
        <5>1. mine[f] \in RunRecords /\ [mine[f] EXCEPT !.run = 0].run = 0
          BY <1>3 DEF RunRecords
        <5>2. [mine[f] EXCEPT !.run = 0] \in RunRecords
          BY <5>1, RunTyped
        <5>3. mine' = [mine EXCEPT ![f] = [mine[f] EXCEPT !.run = 0]] /\ p # "record"
          BY <3>1, <4>1 DEF Record, Move, Deleted, GoTo, Goes, TypeOK
        <5>4. QED
          BY <5>1, <5>2, <5>3
      <4>2. CASE Find(f)
        <5>1. flow[f].cron \in Crons
          BY <2>2 DEF AInv, AgentsTyped, FlowRows
        <5>2. /\ [mine[f] EXCEPT !.cron = flow[f].cron] \in RunRecords
              /\ [mine[f] EXCEPT !.cron = flow[f].cron].run = 0
          <6>1. pc[f] = "find" /\ mine[f] \in RunRecords /\ mine[f].run = 0
            BY <1>3, <4>2 DEF Find, Move, Idling
          <6>2. QED
            BY <5>1, <6>1, RunTyped DEF RunRecords
        <5>3. p # "record"
          BY <3>1, <4>2 DEF Find, Move, Deleted
        <5>4. QED
          BY <4>2, <5>2, <5>3, NoRunTyped DEF Find, AInv, AgentsTyped
      <4>3. CASE Reschedule(f)
        <5>1. p # "record"
          BY <3>1, <4>3 DEF Reschedule, Move, Deleted
        <5>2. QED
          BY <4>3, <5>1, NoRunTyped DEF Reschedule
      <4>4. CASE Deleted(f)
        <5>1. pc'[f] = p
          BY <3>1 DEF Goes, GoTo, TypeOK
        <5>2. GoTo(f, IF mine[f].outcome = "success" THEN "record" ELSE "idle")
          BY <4>4 DEF Deleted, RecordAgain
        <5>3. p = "record" => mine[f].outcome = "success"
          BY <5>1, <5>2 DEF GoTo, TypeOK
        <5>4. QED
          BY <4>4, <5>3, NoRunTyped DEF Deleted, RecordAgain
      <4>5. QED
        BY <2>2, <4>1, <4>2, <4>3, <4>4
    <3>4. QED
      BY <1>1, <3>1, <3>2, <3>3, IdleInv
  <2>3. CASE Begin(f)
    BY <1>1, <2>3, BeginInv
  <2>4. CASE AgentRuns(f) \/ Unpaid(f)
    <3>1. PICK p \in {"complete", "fail"} :
            Goes(f, p) /\ pc[f] \in {"execute", "threw"} /\ (p = "complete" => pc[f] = "execute")
      BY <2>4 DEF AgentRuns, Unpaid, Move, Goes, tick, counters
    <3>2. UNCHANGED <<mine, ledger, runs>>
      BY <2>4 DEF AgentRuns, Unpaid, Move, Accounts
    <3>3. QED
      BY <1>1, <3>1, <3>2, OnwardInv DEF Idling, Statements
  <2>5. CASE FailRun(f)
    <3>1. PICK p \in Idling : Goes(f, p)
      BY <1>4, <2>5 DEF FailRun, Move, Goes, tick, counters
    <3>2. PICK m \in RunRecords : m.run = 0 /\ m.outcome = "failed" /\ mine' = [mine EXCEPT ![f] = m]
      BY <2>5, NoRunTyped DEF FailRun, Failing
    <3>3. QED
      BY <1>1, <2>5, <3>1, <3>2, SettleInv DEF FailRun, Move, Accounts
  <2>6. CASE Complete(f)
    <3>1. PICK n \in Amounts : pc[f] = "complete" /\ Debit(f, n, mine[f].run, FALSE)
      BY <2>6 DEF Complete
    <3>2. /\ GoTo(f, "debit") /\ ledger' = ledger
          /\ loc' = [loc EXCEPT ![f] = Params(-n, mine[f].run, FALSE)]
      BY <3>1 DEF Debit, Call, Accounts
    <3>3. Params(-n, mine[f].run, FALSE).for = mine[f].run
      BY DEF Params
    <3>4. loc'[f].for = mine[f].run /\ \A g \in Fibers \ {f} : loc'[g] = loc[g]
      BY <3>2, <3>3 DEF TypeOK
    <3>5. Goes(f, "debit") /\ mine' = [mine EXCEPT ![f] = mine[f]]
      BY <1>2, <1>3, <2>6, <3>1, <3>2, <3>4 DEF Complete, Goes, tick, counters
    <3>6. QED
      BY <1>1, <1>3, <2>6, <3>1, <3>2, <3>4, <3>5, SettleInv DEF Complete
  <2>7. CASE (Charge(f) /\ ~Post(f)) \/ DebitFails(f)
    <3>1. pc[f] \in Statements /\ UNCHANGED <<mine, ledger, runs>> /\ Goes(f, pc'[f])
      <4>1. PICK p : GoTo(f, p) /\ pc[f] \in Statements /\ UNCHANGED <<mine, ledger, runs, batch>>
        BY <2>7 DEF Charge, DebitFails, Execute, Insufficient, ReadToDebit, ReadToCredit, Remember,
           Uncapped, OverLimit, LockLimit, Rollback, Return, Accounts, Statements, tick
      <4>2. \A g \in Fibers \ {f} : loc'[g] = loc[g]
        BY <2>7 DEF Charge, DebitFails, Execute, Insufficient, ReadToDebit, ReadToCredit, Remember,
           Uncapped, OverLimit, LockLimit, Rollback, Return, TypeOK
      <4>3. pc'[f] = p
        BY <4>1 DEF GoTo, TypeOK
      <4>4. faults > 0 => faults' > 0
        BY <2>7 DEF Charge, DebitFails, counters, AInv, AgentsTyped
      <4>5. QED
        BY <4>1, <4>2, <4>3, <4>4 DEF Goes, Statements
    <3>2. /\ pc'[f] \in Statements \cup {"threw"}
          /\ pc'[f] \in Statements => loc'[f].for = loc[f].for
      BY <2>7 DEF Charge, DebitFails, Execute, Insufficient, ReadToDebit, ReadToCredit, Remember,
         Uncapped, OverLimit, LockLimit, Rollback, Return, GoTo, Statements, TypeOK, Locals
    <3>3. QED
      BY <1>1, <3>1, <3>2, OnwardInv DEF Idling, Statements
  <2>8. CASE Charge(f) /\ Post(f)
    BY <1>1, <2>8, ChargeInv DEF Charge
  <2>9. QED
    BY <1>5, <2>1, <2>2, <2>3, <2>4, <2>5, <2>6, <2>7, <2>8 DEF Agent
<1>6. ASSUME NEW f \in Fibers, Ask(f) PROVE AInv'
  <2>1. Goes(f, "ask") /\ pc[f] \in Idling /\ "ask" \in Idling /\ UNCHANGED <<mine, ledger, runs>>
    BY <1>6 DEF Ask, Goes, Idling, tick, Accounts
  <2>2. pc[f] = "idle" /\ "idle" \in Idling \ {"record"}
    BY <1>6 DEF Ask, Idling
  <2>3. PICK m \in RunRecords : m.run = 0 /\ mine' = [mine EXCEPT ![f] = m]
    BY <1>2, <1>3, <2>1, <2>2
  <2>4. PICK p \in Idling : p = "ask" /\ Goes(f, p) /\ p # "record"
    BY <2>1
  <2>5. QED
    BY <1>1, <2>1, <2>3, <2>4, IdleInv
<1>7. ASSUME NEW f \in Flows, RecordFails(f) PROVE AInv'
  <2>1. PICK p \in Idling :
          Goes(f, p) /\ pc[f] \in Idling /\ p = IF mine[f].outcome = "success" THEN "record" ELSE "idle"
    BY <1>7 DEF RecordFails, RecordAgain, Goes, Idling, tick, AInv, AgentsTyped
  <2>2. PICK m \in RunRecords :
          m.run = 0 /\ (p = "record" => m.outcome = "failed") /\ mine' = [mine EXCEPT ![f] = m]
    BY <1>7, <2>1, NoRunTyped DEF RecordFails, RecordAgain
  <2>3. UNCHANGED <<ledger, runs>>
    BY <1>7 DEF RecordFails, Accounts
  <2>4. QED
    BY <1>1, <2>1, <2>2, <2>3, IdleInv
<1>8. CASE StartBatch
  <2>1. PICK B \in SUBSET due :
          /\ batch = {} /\ batch' = B /\ pc' = [f \in Fibers |-> IF f \in B THEN "ask" ELSE pc[f]]
          /\ UNCHANGED <<loc, ledger, runs, mine, faults>>
    BY <1>8 DEF StartBatch, Accounts, counters
  <2>2. \A f \in B \cap Fibers : f \in Flows /\ pc[f] = "idle"
    BY <2>1 DEF AInv, AgentsTyped, Resting
  <2>3. \A f \in Fibers : RunInv(f)'
    BY <2>1, <2>2 DEF AInv, RunInv, Charged, Idling, Statements
  <2>4. CompletedIsCharged'
    BY <2>1, <2>2 DEF AInv, CompletedIsCharged, Charged, Statements
  <2>5. QED
    BY <1>1, <2>1, <2>3, <2>4 DEF AInv, OwnRuns, Resting, OnlyCompletedCharged
<1>9. CASE Crash
  <2>1. /\ \A f \in Fibers : pc'[f] = "idle" /\ mine'[f].run = 0
        /\ UNCHANGED <<ledger, runs>> /\ faults' > 0
    BY <1>9, NoRunTyped DEF Crash, Halt, AInv, AgentsTyped
  <2>2. \A f \in Fibers : RunInv(f)'
    BY <2>1 DEF RunInv, Idling, Statements
  <2>3. QED
    BY <1>1, <2>1, <2>2 DEF AInv, OwnRuns, Resting, OnlyCompletedCharged, CompletedIsCharged
<1>10. CASE Tick \/ EndBatch \/ Clock \/ UNCHANGED allVars \/ \E w \in Flows : Update(w) \/ Delete(w)
  <2>1. UNCHANGED <<pc, loc, ledger, runs, mine, faults>>
    BY <1>10 DEF Tick, EndBatch, Clock, Update, Delete, Edit, allVars, vars, counters, Accounts
  <2>2. Resting'
    BY <1>10 DEF Tick, EndBatch, Clock, Update, Delete, Edit, allVars, vars, tick, AInv, Resting
  <2>3. QED
    BY <1>1, <2>1, <2>2 DEF AInv, RunInv, OwnRuns, Charged, OnlyCompletedCharged, CompletedIsCharged
<1>11. QED
  BY <1>5, <1>6, <1>7, <1>8, <1>9, <1>10 DEF AgentsNext, Scheduler

LEMMA AgentsInitInv == AgentsInit => Init /\ IInv /\ AInv
<1> SUFFICES ASSUME AgentsInit PROVE Init /\ IInv /\ AInv
  OBVIOUS
<1>1. Init /\ IInv
  BY InitInv DEF AgentsInit
<1>2. AgentsTyped
  <2>1. flow \in [Flows -> FlowRows]
    <3>1. \A w \in Flows : Cron[w] \in Crons /\ Cron[w] \in Nat
      OBVIOUS
    <3>2. QED
      BY <3>1 DEF AgentsInit, FlowRows
  <2>2. QED
    BY <2>1, NoRunTyped DEF AgentsInit, AgentsTyped
<1>3. \A f \in Fibers : RunInv(f)
  BY NoRunTyped DEF AgentsInit, Init, RunInv, Idling, Statements
<1>4. QED
  BY <1>1, <1>2, <1>3, NoRunTyped
     DEF AgentsInit, Init, AInv, OwnRuns, Resting, OnlyCompletedCharged, CompletedIsCharged

(* The agents are callers of credits like any other.                       *)
LEMMA AgentsInv == AgentsSpec => []IInv /\ []AInv
<1>1. IInv /\ AInv /\ [AgentsNext]_allVars => IInv' /\ AInv'
  BY AgentsStep, AInvStep, StepInv DEF IInv
<1>2. QED
  BY <1>1, AgentsInitInv, PTL DEF AgentsSpec

(* The agents, which debit after the work, do not overdraw the balance.    *)
THEOREM AgentsNoOverdraft == AgentsSpec => []NeverNegative
<1>1. IInv => NeverNegative
  BY DEF IInv
<1>2. QED
  BY <1>1, AgentsInv, PTL

(* Only completed runs are charged, each once, for any number of workflows,*)
(* users, runs at once and failures.                                       *)
THEOREM ChargesAreEarned == AgentsSpec => []OnlyCompletedCharged
<1>1. AInv => OnlyCompletedCharged
  BY DEF AInv
<1>2. QED
  BY <1>1, AgentsInv, PTL

(* And no completed run goes without a charge for good, but for a crash.   *)
THEOREM CompletionsAreCharged == AgentsSpec => []CompletedIsCharged
<1>1. AInv => CompletedIsCharged
  BY DEF AInv
<1>2. QED
  BY <1>1, AgentsInv, PTL

-----------------------------------------------------------------------------
(* What the history of the workflows tells                                 *)

TellInv ==
  /\ told \in [Flows -> Seq(Nat)]
  /\ \A w \in Flows : \A i \in DOMAIN told[w] : \A f \in Fibers : mine[f].run # told[w][i]
  /\ SuccessIsPaid

(* What is charged stays charged.                                          *)
LEMMA ChargedStays ==
  ASSUME TypeOK, AInv, [AgentsNext]_allVars, NEW q, Charged(q)
  PROVE  Charged(q)'
<1>1. CASE ledger' = ledger
  BY <1>1 DEF Charged
<1>2. ASSUME NEW f \in Fibers, Post(f) PROVE Charged(q)'
  <2>1. PICK e : ledger' = Append(ledger, e)
    BY <1>2 DEF Post
  <2>2. ledger \in Seq(Entries \cup {e})
    BY SeqMonotonic DEF TypeOK
  <2>3. \A i \in DOMAIN ledger : i \in DOMAIN ledger' /\ ledger'[i] = ledger[i]
    BY <2>1, <2>2, AppendProperties
  <2>4. QED
    BY <2>3 DEF Charged
<1>3. [Next]_vars
  BY AgentsStep
<1>4. ledger' = ledger \/ \E f \in Fibers : Post(f)
  BY <1>3 DEF Next, Execute, Insufficient, ReadToDebit, ReadToCredit, Remember, Uncapped, OverLimit, LockLimit,
     Rollback, UseCredits, Debit, Credit, Call, GoOn, Administer, SetLimit, RemoveLimit, ResetExpiredPeriods, NextMonth, Halt, Accounts, vars
<1>5. QED
  BY <1>1, <1>2, <1>4

(* A fiber keeps its run, lets go of it or begins a new one.               *)
LEMMA RunsKept ==
  ASSUME TypeOK, AInv, [AgentsNext]_allVars, NEW g \in Fibers
  PROVE  mine'[g].run \in {mine[g].run, 0, Len(runs) + 1}
<1>1. mine \in [Fibers -> RunRecords] /\ mine[g] \in RunRecords
  BY DEF AInv, AgentsTyped
<1>2. ASSUME NEW f \in Fibers, NEW m, mine' = [mine EXCEPT ![f] = m], m.run \in {mine[f].run, 0, Len(runs) + 1}
      PROVE  mine'[g].run \in {mine[g].run, 0, Len(runs) + 1}
  BY <1>1, <1>2
<1>3. \A f \in Fibers : mine[f] \in RunRecords
  BY <1>1
<1>4. ASSUME NEW f \in Fibers, Agent(f) PROVE mine'[g].run \in {mine[g].run, 0, Len(runs) + 1}
  <2>1. CASE Begin(f)
    <3>1. mine' = [mine EXCEPT ![f] = [mine[f] EXCEPT !.run = Len(runs) + 1]]
      BY <2>1 DEF Begin
    <3>2. [mine[f] EXCEPT !.run = Len(runs) + 1].run = Len(runs) + 1
      BY <1>3 DEF RunRecords
    <3>3. QED
      BY <1>2, <3>1, <3>2
  <2>2. CASE Record(f)
    <3>1. mine' = [mine EXCEPT ![f] = [mine[f] EXCEPT !.run = 0]]
      BY <2>2 DEF Record
    <3>2. [mine[f] EXCEPT !.run = 0].run = 0
      BY <1>3 DEF RunRecords
    <3>3. QED
      BY <1>2, <3>1, <3>2
  <2>3. CASE f \in Flows /\ Find(f)
    <3>1. \/ mine' = [mine EXCEPT ![f] = [mine[f] EXCEPT !.cron = flow[f].cron]]
          \/ mine' = [mine EXCEPT ![f] = NoRun]
      BY <2>3, <1>1 DEF Find
    <3>2. [mine[f] EXCEPT !.cron = flow[f].cron].run = mine[f].run
      BY <1>3 DEF RunRecords
    <3>3. QED
      BY <1>2, <3>1, <3>2, NoRunTyped
  <2>4. CASE Refuse(f) \/ FailRun(f) \/ Paid(f) \/ Reschedule(f) \/ Deleted(f)
    <3>1. \/ mine' = [mine EXCEPT ![f] = NoRun]
          \/ mine' = [mine EXCEPT ![f] = [NoRun EXCEPT !.outcome = "failed"]]
          \/ mine' = [mine EXCEPT ![f] = mine[f]]
      BY <2>4, <1>1 DEF Refuse, FailRun, Paid, Reschedule, Deleted, RecordAgain, Failing
    <3>2. QED
      BY <1>2, <3>1, NoRunTyped
  <2>5. CASE AgentRuns(f) \/ Complete(f) \/ Unpaid(f) \/ Charge(f)
    BY <2>5 DEF AgentRuns, Complete, Unpaid, Charge
  <2>6. QED
    BY <1>4, <2>1, <2>2, <2>3, <2>4, <2>5 DEF Agent
<1>5. ASSUME NEW f \in Flows, RecordFails(f) PROVE mine'[g].run \in {mine[g].run, 0, Len(runs) + 1}
  <2>1. \/ mine' = [mine EXCEPT ![f] = NoRun]
        \/ mine' = [mine EXCEPT ![f] = [NoRun EXCEPT !.outcome = "failed"]]
    BY <1>5 DEF RecordFails, RecordAgain
  <2>2. QED
    BY <1>2, <2>1, NoRunTyped
<1>6. CASE Crash
  BY <1>6, NoRunTyped DEF Crash
<1>7. CASE \/ UNCHANGED allVars \/ Scheduler \/ Clock
           \/ \E f \in Fibers : Ask(f) \/ DebitFails(f)
           \/ \E w \in Flows : Update(w) \/ Delete(w)
  BY <1>7 DEF allVars, Scheduler, Tick, StartBatch, EndBatch, Clock, Ask, DebitFails, Update, Delete, Edit
<1>8. QED
  BY <1>4, <1>5, <1>6, <1>7 DEF AgentsNext

(* An entry is added by the one fiber that holds the run, which lets go of *)
(* it, and entries go with their workflow.                                 *)
LEMMA TellStep ==
  ASSUME TypeOK, AInv, TellInv, [AgentsNext]_allVars
  PROVE  TellInv'
<1> USE DEF TellInv, SuccessIsPaid
<1> DEFINE Settles(q) == \E k \in DOMAIN ledger' : ledger'[k].for = q
<1>1. \A w \in Flows : told[w] \in Seq(Nat)
  OBVIOUS
<1>2. \A w \in Flows : \A i \in DOMAIN told[w] : told[w][i] \in DOMAIN runs /\ told[w][i] # 0
                                              /\ told[w][i] # Len(runs) + 1
  <2>1. \A q : Charged(q) => q \in DOMAIN runs
    BY DEF Charged, AInv
  <2>2. DOMAIN runs = 1..Len(runs) /\ Len(runs) \in Nat
    BY DEF AInv, AgentsTyped
  <2>3. \A q \in DOMAIN runs : q # 0 /\ q # Len(runs) + 1
    BY <2>2
  <2>4. QED
    BY <2>1, <2>3
<1>3. \A w \in Flows : \A i \in DOMAIN told[w] : Settles(told[w][i])
  <2>1. \A q : Charged(q) => Settles(q)
    <3>1. ASSUME NEW q, Charged(q) PROVE Charged(q)'
      BY <3>1, ChargedStays
    <3>2. QED
      BY <3>1 DEF Charged
  <2>2. QED
    BY <2>1
<1>4. \A w \in Flows : \A i \in DOMAIN told[w] : \A g \in Fibers : mine'[g].run # told[w][i]
  BY <1>2, RunsKept
<1>5. CASE told' = told
  BY <1>3, <1>4, <1>5 DEF Charged
<1>6. ASSUME NEW w \in Flows, Delete(w) PROVE TellInv'
  <2>1. told' = [told EXCEPT ![w] = << >>]
    BY <1>6 DEF Delete
  <2>2. \A v \in Flows : told'[v] = IF v = w THEN << >> ELSE told[v]
    BY <2>1
  <2>3. told' \in [Flows -> Seq(Nat)]
    BY <2>1
  <2>4. \A v \in Flows : \A i \in DOMAIN told'[v] : i \in DOMAIN told[v] /\ told'[v][i] = told[v][i]
    BY <2>2
  <2>5. \A v, x \in Flows : \A i \in DOMAIN told'[v], j \in DOMAIN told'[x] :
          told'[x][j] = told'[v][i] => x = v /\ j = i
    BY <2>4
  <2>6. \A v \in Flows : \A i \in DOMAIN told'[v] :
          Settles(told'[v][i]) /\ \A g \in Fibers : mine'[g].run # told'[v][i]
    BY <1>3, <1>4, <2>4
  <2>7. QED
    BY <2>3, <2>5, <2>6 DEF Charged
<1>7. ASSUME NEW f \in Flows, Record(f), told' # told PROVE TellInv'
  <2>1. PICK r : r = mine[f].run
    OBVIOUS
  <2>2. told' = [told EXCEPT ![f] = Append(told[f], r)] /\ mine[f].outcome = "success" /\ pc[f] = "record"
    BY <1>7, <2>1 DEF Record, Move
  <2>3. f \in Fibers /\ r # 0 /\ Charged(r) /\ r \in Nat
    BY <2>1, <2>2 DEF AInv, RunInv, AgentsTyped, RunRecords
  <2>4. \A g \in Fibers : mine'[g].run # r
    <3>1. mine'[f].run = 0 /\ \A g \in Fibers \ {f} : mine'[g] = mine[g]
      BY <1>7, <2>3 DEF Record, AInv, AgentsTyped, RunRecords
    <3>2. \A g \in Fibers \ {f} : mine[g].run # r
      BY <2>1, <2>3 DEF AInv, OwnRuns
    <3>3. QED
      BY <2>3, <3>1, <3>2
  <2>5. Settles(r)
    <3>1. Charged(r)'
      BY <2>3, ChargedStays
    <3>2. QED
      BY <3>1 DEF Charged
  <2>6. PICK n \in Nat : n = Len(told[f]) /\ DOMAIN told[f] = 1..n
    BY <1>1
  <2>7. /\ DOMAIN told'[f] = 1..(n + 1) /\ told'[f][n + 1] = r
        /\ \A i \in 1..n : told'[f][i] = told[f][i]
        /\ told'[f] \in Seq(Nat)
    <3>1. told'[f] = Append(told[f], r) /\ told[f] \in Seq(Nat)
      BY <1>1, <2>2
    <3>2. QED
      BY <2>3, <2>6, <3>1, AppendProperties
  <2>8. \A v \in Flows \ {f} : told'[v] = told[v]
    BY <2>2
  <2>9. told' \in [Flows -> Seq(Nat)]
    BY <2>2, <2>7
  <2>10. \A v \in Flows : \A i \in DOMAIN told'[v] :
           \/ i \in DOMAIN told[v] /\ told'[v][i] = told[v][i]
           \/ v = f /\ i = n + 1 /\ told'[v][i] = r
    <3>1. \A i \in 1..(n + 1) : i \in 1..n \/ i = n + 1
      OBVIOUS
    <3>2. QED
      BY <2>6, <2>7, <2>8, <3>1
  <2>11. \A v \in Flows : \A i \in DOMAIN told[v] : told[v][i] # r
    BY <2>1, <2>3
  <2>12. \A v \in Flows : \A i \in DOMAIN told'[v] :
           Settles(told'[v][i]) /\ \A g \in Fibers : mine'[g].run # told'[v][i]
    BY <1>3, <1>4, <2>4, <2>5, <2>10
  <2>13. \A v, x \in Flows : \A i \in DOMAIN told'[v], j \in DOMAIN told'[x] :
           told'[x][j] = told'[v][i] => x = v /\ j = i
    <3>1. SUFFICES ASSUME NEW v \in Flows, NEW x \in Flows, NEW i \in DOMAIN told'[v],
                          NEW j \in DOMAIN told'[x], told'[x][j] = told'[v][i]
                   PROVE  x = v /\ j = i
      OBVIOUS
    <3>2. CASE i \in DOMAIN told[v] /\ told'[v][i] = told[v][i]
      <4>1. told[v][i] # r
        BY <2>11, <3>2
      <4>2. j \in DOMAIN told[x] /\ told'[x][j] = told[x][j]
        BY <2>10, <3>1, <3>2, <4>1
      <4>3. QED
        BY <3>1, <3>2, <4>2
    <3>3. CASE v = f /\ i = n + 1 /\ told'[v][i] = r
      <4>1. x = f /\ j = n + 1
        BY <2>10, <2>11, <3>1, <3>3
      <4>2. QED
        BY <3>3, <4>1
    <3>4. QED
      BY <2>10, <3>2, <3>3
  <2>14. QED
    BY <2>9, <2>12, <2>13 DEF Charged
<1>8. \/ told' = told
      \/ \E w \in Flows : Delete(w) \/ Record(w)
  BY DEF AgentsNext, Scheduler, Tick, StartBatch, EndBatch, Ask, Agent, DebitFails, RecordFails, Update,
     Clock, Crash, Refuse, Begin, AgentRuns, Complete, Unpaid, FailRun, Paid, Charge,
     Find, Reschedule, Deleted, schedule, allVars
<1>9. QED
  BY <1>5, <1>6, <1>7, <1>8

(* The history shows no response that was not charged, and none twice, for *)
(* any number of workflows and runs, any failures and crashes.             *)
THEOREM SuccessesArePaid == AgentsSpec => []SuccessIsPaid
<1>1. AgentsInit => TellInv
  <2>1. ASSUME AgentsInit, NEW w \in Flows PROVE told[w] = << >> /\ DOMAIN told[w] = {}
    BY <2>1 DEF AgentsInit
  <2>2. AgentsInit => told \in [Flows -> Seq(Nat)]
    BY DEF AgentsInit
  <2>3. QED
    BY <2>1, <2>2 DEF TellInv, SuccessIsPaid
<1>2. IInv /\ AInv /\ TellInv /\ [AgentsNext]_allVars => TellInv'
  BY TellStep DEF IInv
<1>3. TellInv => SuccessIsPaid
  BY DEF TellInv
<1>4. QED
  BY <1>1, <1>2, <1>3, AgentsInv, PTL DEF AgentsSpec

-----------------------------------------------------------------------------
(* Once per due time                                                       *)

(* The next time of a schedule is later than now.                          *)
LEMMA NextRunLater == ASSUME now \in Nat, NEW c \in Nat \ {0} PROVE NextRunAt(c) > now
<1>1. c \in Int /\ c > 0 /\ now \in Int
  OBVIOUS
<1>2. now < c * ((now \div c) + 1)
  BY <1>1
<1>3. QED
  BY <1>2 DEF NextRunAt

\* The schedule of a workflow that is listed, or not being done, is past its last run.
Settled(w) == w \in due \/ (flow[w].exists /\ (w \notin batch \/ pc[w] = "idle"))

ServedInv ==
  /\ served \in [Flows -> Nat] /\ due \cap batch = {}
  /\ \A w \in Flows : served[w] <= now
  /\ faults = 0 => \A w \in Flows : served[w] > 0 /\ Settled(w) => flow[w].next > served[w]

(* What the fiber of a workflow does ends with the schedule moved on.      *)
LEMMA ServedByAgent ==
  ASSUME TypeOK, AInv, AgentsTyped', ServedInv, NEW f \in Fibers, Agent(f)
  PROVE  ServedInv'
<1> USE DEF ServedInv, AInv, AgentsTyped
<1>1. UNCHANGED <<now, due, batch, served, faults>>
  BY DEF Agent, Refuse, Begin, AgentRuns, Complete, Unpaid, FailRun, Paid, Charge, Record, Find,
     Reschedule, Deleted, Move, schedule, tick, counters
<1>2. pc[f] # "idle"
  BY DEF Agent, Refuse, Begin, AgentRuns, Complete, Unpaid, FailRun, Paid, Charge, Record, Find,
     Reschedule, Deleted, Move, Execute, Insufficient, ReadToDebit, ReadToCredit, Uncapped, OverLimit,
     LockLimit, Post
<1>3. \A g \in Fibers \ {f} : pc'[g] = pc[g]
  BY DEF Agent, Refuse, Begin, AgentRuns, Complete, Unpaid, FailRun, Paid, Charge, Record, Find,
     Reschedule, Deleted, RecordAgain, Move, Debit, Call, Execute, Insufficient, ReadToDebit,
     ReadToCredit, Uncapped, OverLimit, LockLimit, Post, Return, GoTo, TypeOK
<1>4. \A w \in Flows \ {f} : flow'[w] = flow[w]
  BY DEF Agent, Refuse, Begin, AgentRuns, Complete, Unpaid, FailRun, Paid, Charge, Record, Find,
     Reschedule, Deleted, schedule
<1>5. ASSUME f \in Flows, flow'[f].exists, pc'[f] = "idle" PROVE flow'[f].next > now
  <2>1. CASE \/ Refuse(f) \/ Begin(f) \/ AgentRuns(f) \/ Complete(f) \/ Unpaid(f) \/ FailRun(f)
             \/ Paid(f) \/ Charge(f)
    <3>1. f \notin Users
      BY <1>5
    <3>2. CASE Refuse(f) \/ Begin(f) \/ AgentRuns(f) \/ Unpaid(f) \/ FailRun(f) \/ Paid(f)
      BY <1>5, <3>1, <3>2 DEF Refuse, Begin, AgentRuns, Unpaid, FailRun, Paid, Move, AfterThrow, GoTo, TypeOK
    <3>3. CASE Complete(f)
      BY <1>5, <3>3 DEF Complete, Debit, Call, GoTo, TypeOK
    <3>4. CASE Charge(f)
      BY <1>5, <3>4 DEF Charge, Execute, Insufficient, ReadToDebit, ReadToCredit, Uncapped, OverLimit,
         LockLimit, Post, Return, GoTo, TypeOK
    <3>5. QED
      BY <2>1, <3>2, <3>3, <3>4
  <2>2. CASE Record(f) \/ Find(f) \/ Deleted(f)
    BY <1>5, <2>2 DEF Record, Find, Deleted, RecordAgain, Move, GoTo, TypeOK, schedule
  <2>3. CASE Reschedule(f)
    BY <1>5, <2>3, NextRunLater DEF Reschedule, RunRecords, FlowRows
  <2>4. QED
    BY <2>1, <2>2, <2>3 DEF Agent
<1>6. f \in Flows => f \in batch /\ f \notin due
  BY <1>2 DEF Resting
<1>7. \A w \in Flows : Settled(w)' =>
        (Settled(w) /\ w # f) \/ (w = f /\ flow'[f].exists /\ pc'[f] = "idle")
  BY <1>1, <1>3, <1>4, <1>6 DEF Settled
<1>8. \A w \in Flows : now \in Nat /\ served[w] \in Nat /\ flow'[w].next \in Nat
  BY DEF FlowRows
<1>9. QED
  BY <1>1, <1>4, <1>5, <1>7, <1>8

LEMMA ServedStep ==
  ASSUME TypeOK, AInv, ServedInv, [AgentsNext]_allVars
  PROVE  ServedInv'
<1> USE DEF ServedInv, AInv, AgentsTyped
<1>0. AgentsTyped'
  BY TypedStep
<1>1. ASSUME Tick PROVE ServedInv'
  BY <1>1 DEF Tick, IsDue, Settled, schedule, counters, vars
<1>2. ASSUME StartBatch PROVE ServedInv'
  BY <1>2 DEF StartBatch, Settled, schedule, counters, TypeOK
<1>3. ASSUME EndBatch PROVE ServedInv'
  BY <1>3 DEF EndBatch, Settled, schedule, counters, vars
<1>4. ASSUME NEW f \in Fibers, Ask(f) PROVE ServedInv'
  BY <1>4 DEF Ask, GoTo, Settled, schedule, tick, TypeOK
<1>5. ASSUME NEW w \in Flows, Update(w) \/ Delete(w) PROVE ServedInv'
  <2>1. PICK v : Edit(w, v) /\ (v.exists => flow[w].exists) /\ (v.next = flow[w].next \/ v.next > now)
    <3>1. CASE \E c \in Crons : Edit(w, [flow[w] EXCEPT !.cron = c, !.next = NextRunAt(c)])
      <4>1. PICK c \in Crons : Edit(w, [flow[w] EXCEPT !.cron = c, !.next = NextRunAt(c)])
        BY <3>1
      <4>2. NextRunAt(c) > now
        BY NextRunLater
      <4> DEFINE v == [flow[w] EXCEPT !.cron = c, !.next = NextRunAt(c)]
      <4>3. v.exists = flow[w].exists /\ v.next = NextRunAt(c)
        BY DEF FlowRows
      <4>4. QED
        BY <4>1, <4>2, <4>3
    <3>2. CASE Edit(w, [flow[w] EXCEPT !.active = ~@])
      <4> DEFINE v == [flow[w] EXCEPT !.active = ~@]
      <4>1. v.exists = flow[w].exists /\ v.next = flow[w].next
        BY DEF FlowRows
      <4>2. QED
        BY <3>2, <4>1
    <3>3. CASE Delete(w)
      <4> DEFINE v == [flow[w] EXCEPT !.exists = FALSE, !.active = FALSE]
      <4>1. v.exists = FALSE /\ v.next = flow[w].next
        BY DEF FlowRows
      <4>2. QED
        BY <3>3, <4>1 DEF Delete
    <3>4. QED
      BY <1>5, <3>1, <3>2, <3>3 DEF Update
  <2>2. \A x \in Flows : Settled(x)' => Settled(x)
    BY <2>1 DEF Edit, Settled, tick, vars
  <2>3. \A x \in Flows : now \in Nat /\ served[x] \in Nat /\ flow'[x].next \in Nat
    BY <1>0 DEF FlowRows
  <2>4. \A x \in Flows : flow'[x].next = flow[x].next \/ flow'[x].next > now
    BY <2>1 DEF Edit
  <2>5. QED
    BY <2>1, <2>2, <2>3, <2>4 DEF Edit, tick
<1>6. ASSUME Clock PROVE ServedInv'
  BY <1>6 DEF Clock, Settled, tick, counters, vars
<1>7. ASSUME \/ Crash \/ \E f \in Fibers : DebitFails(f)
             \/ \E w \in Flows : RecordFails(w)
      PROVE  ServedInv'
  BY <1>7 DEF Crash, DebitFails, RecordFails, schedule, tick
<1>8. CASE UNCHANGED allVars
  BY <1>8 DEF Settled, allVars, vars, schedule, tick, counters
<1>9. QED
  BY <1>1, <1>2, <1>3, <1>4, <1>5, <1>6, <1>7, <1>8, <1>0, ServedByAgent DEF AgentsNext, Scheduler

(* A workflow runs once per due time, whatever the refusals, failures and  *)
(* edits, for any number of workflows and any schedules, without crashes.  *)
THEOREM RunsOncePerDue == AgentsSpec => OncePerDue
<1>1. AgentsInit => ServedInv
  BY DEF AgentsInit, ServedInv
<1>2. IInv /\ AInv /\ ServedInv /\ [AgentsNext]_allVars => ServedInv'
  BY ServedStep DEF IInv
<1>3. AInv /\ ServedInv /\ [AgentsNext]_allVars =>
        [\A w \in batch' \ batch : faults = 0 /\ served[w] > 0 => flow[w].next > served[w]]_allVars
  <2> SUFFICES ASSUME AInv, ServedInv, AgentsNext, NEW w \in batch' \ batch, faults = 0, served[w] > 0
               PROVE  flow[w].next > served[w]
    OBVIOUS
  <2>1. StartBatch
    BY DEF AgentsNext, Scheduler, Tick, EndBatch, Ask, Agent, DebitFails, RecordFails, Update, Delete,
       Edit, Clock, Crash, Refuse, Begin, AgentRuns, Complete, Unpaid, FailRun, Paid, Charge, Record,
       Find, Reschedule, Deleted, Move, tick
  <2>2. QED
    BY <2>1 DEF StartBatch, ServedInv, Settled, AInv, AgentsTyped
<1>4. QED
  BY <1>1, <1>2, <1>3, AgentsInv, PTL DEF AgentsSpec, OncePerDue

=============================================================================
