--------------------------- MODULE StepExecution ---------------------------
(***************************************************************************)
(* The execution of one job of the queue, which WorkflowEngine takes for a *)
(* single step: from the worker that takes the job to the transaction that *)
(* stores the artifact and debits the step, or to the exception that ends  *)
(* the attempt.  In between, the processor runs a pipeline, an agent or    *)
(* both, the agent converses with the model in a loop, the model asks for  *)
(* tools, a 30 minute timer aborts the conversation, and output that fails *)
(* verification is asked for again.                                        *)
(***************************************************************************)
EXTENDS Naturals, Sequences

CONSTANTS
  MaxIterations,           \* of one agent, asked for in its definition
  MaxVerificationRetries,  \* executions after the first, 2 in the code
  MaxApiRetries,           \* MAX_RETRIES of the client of the model, 3 in the code
  MaxAttempts,             \* of a job in the queue, 3 in the code
  MaxToolUses              \* bound: tools the model asks for in one response

ASSUME BoundsAssumption ==
  /\ MaxIterations \in Nat \ {0}
  /\ MaxVerificationRetries \in Nat
  /\ MaxApiRetries \in Nat
  /\ MaxAttempts \in Nat \ {0}
  /\ MaxToolUses \in Nat \ {0}

VARIABLES
  def,         \* the step's definition: execution type, verification rules, schema that must fit
  pc,          \* what the attempt waits for
  attempt,     \* of the queue, from 1
  aborted,     \* the 30 minute timer of this attempt has fired
  round,       \* of execution: 0, then the verification retries
  iterations,  \* of the agent's loop in this round
  tries,       \* of the request to the model under way that have failed
  messages,    \* of the conversation of this round, with the tools each asks for or answers
  uses,        \* the tools the last response asked for and that are still to run
  results,     \* the ones that have run, to be sent back
  captured,    \* capturedOutput
  toolCalls,   \* the rounds whose agent made each tool call recorded in this round
  result,      \* of the last round that ended well
  artifact     \* what the transaction stored and the organization paid for

conversation == <<iterations, tries, messages, uses, results, captured, toolCalls>>
outcome      == <<result, artifact>>
vars == <<def, pc, attempt, aborted, round, conversation, outcome>>

ExecutionTypes == {"pipeline-only", "pipeline-then-agent", "agent-only", "agent-with-tools"}

\* A step has verification rules or has none.  Only content-brief's output must fit a schema, when
\* its definition has one (the Console's may, the repository's has none).
Definitions ==
  {d \in [type: ExecutionTypes, rules: BOOLEAN, strict: BOOLEAN] :
     d.strict => d.rules /\ d.type = "pipeline-then-agent"}

Undefined == [no |-> "value"]
Null      == [no |-> "output"]
Nothing   == [output |-> Undefined, calls |-> <<>>, rounds |-> 0]

\* An output of round r, as far as the rules and the schema tell outputs apart.
Outputs(r) == [round: {r}, sound: IF def.rules THEN BOOLEAN ELSE {TRUE},
                           fits: IF def.strict THEN BOOLEAN ELSE {TRUE}]

Ended  == {"done", "dead"}

Init ==
  /\ def \in Definitions
  /\ pc = "load" /\ attempt = 1 /\ aborted = FALSE
  /\ round = 0 /\ iterations = 0 /\ tries = 0
  /\ messages = <<>> /\ uses = <<>> /\ results = <<>>
  /\ captured = Undefined /\ toolCalls = <<>>
  /\ result = Nothing /\ artifact = Nothing

-----------------------------------------------------------------------------
(* The processor, up to the agent's first request.                         *)

\* Whatever throws ends the attempt; all of it was in memory.
Throw ==
  /\ pc' = "failed"
  /\ UNCHANGED <<def, attempt, aborted, round, conversation, outcome>>

\* Mutant: what an earlier round captured is still there.
ConverseOn(r) ==
  /\ pc' = "chat" /\ round' = r
  /\ iterations' = 1 /\ tries' = 0
  /\ messages' = <<[role |-> "user", ids |-> <<>>]>>
  /\ uses' = <<>> /\ results' = <<>> /\ UNCHANGED <<captured, toolCalls>>

\* AgentRuntime.execute starts a conversation of its own for every round r.
Converse(r) ==
  /\ pc' = "chat" /\ round' = r
  /\ iterations' = 1 /\ tries' = 0
  /\ messages' = <<[role |-> "user", ids |-> <<>>]>>
  /\ uses' = <<>> /\ results' = <<>> /\ captured' = Undefined /\ toolCalls' = <<>>

\* Agent definition, credits, run, project, prompt and intelligence are there, or the attempt
\* throws.
Load ==
  /\ pc = "load"
  /\ \/ Throw
     \/ IF def.type \in {"pipeline-only", "pipeline-then-agent"}
          THEN pc' = "pipeline" /\ UNCHANGED <<round, conversation>>
          ELSE Converse(0)
  /\ UNCHANGED <<def, attempt, aborted, outcome>>

\* Pipelines know nothing of the timer: they return or throw whenever they do.
PipelineOnly ==
  /\ pc = "pipeline" /\ def.type = "pipeline-only"
  /\ \/ Throw
     \/ /\ \E o \in Outputs(0) \cup {Null} : result' = [Nothing EXCEPT !.output = o, !.rounds = 1]
        /\ pc' = "persist"
        /\ UNCHANGED <<def, attempt, aborted, round, conversation, artifact>>

PipelineThenAgent ==
  /\ pc = "pipeline" /\ def.type = "pipeline-then-agent"
  /\ Throw \/ Converse(0)
  /\ UNCHANGED <<def, attempt, aborted, outcome>>

-----------------------------------------------------------------------------
(* The agent's conversation with the model.                                *)

\* What the model can ask for: to hand over its output, which may be absent, null or anything, or
\* some other tool, one the agent does not have included.
ToolUses ==
  [name: {"return_output"}, data: Outputs(round) \cup {Null, Undefined}]
    \cup [name: {"tool"}, data: {Undefined}]

Identified(s) == [k \in DOMAIN s |-> [id |-> <<iterations, k>>, name |-> s[k].name, data |-> s[k].data]]
Ids(s) == [k \in DOMAIN s |-> s[k].id]

\* The loop ends: capturedOutput ?? null, also when the iterations are used up.
Finish(output, calls) ==
  /\ pc' = "check"
  /\ result' = [output |-> IF output = Undefined THEN Null ELSE output,
                calls |-> calls, rounds |-> round + 1]

\* Mutant: the signal is left to the client, whose stream may still end with an answer.
FinalAnswerUnraced ==
  /\ pc = "chat"
  /\ \E o \in Outputs(round) \cup {Null} : captured' = o /\ Finish(o, toolCalls)
  /\ UNCHANGED <<def, attempt, aborted, round, artifact>>
  /\ UNCHANGED <<iterations, tries, messages, uses, results, toolCalls>>

\* A response that asks for no tool, or was cut off, ends the loop; its text is the output if it
\* holds JSON, and null if it does not.
FinalAnswer ==
  /\ pc = "chat" /\ ~aborted
  /\ \E o \in Outputs(round) \cup {Null} : captured' = o /\ Finish(o, toolCalls)
  /\ UNCHANGED <<def, attempt, aborted, round, artifact>>
  /\ UNCHANGED <<iterations, tries, messages, uses, results, toolCalls>>

ToolAnswer ==
  /\ pc = "chat" /\ ~aborted
  /\ \E n \in 1 .. MaxToolUses : \E s \in [1 .. n -> ToolUses] :
       /\ uses' = Identified(s)
       /\ messages' = Append(messages, [role |-> "assistant", ids |-> Ids(Identified(s))])
  /\ pc' = "tools"
  /\ UNCHANGED <<def, attempt, aborted, round, outcome>>
  /\ UNCHANGED <<iterations, tries, results, captured, toolCalls>>

\* A rate limit or a server error is tried again after a delay, any other error is thrown.
ApiFails ==
  /\ pc = "chat" /\ ~aborted
  /\ \/ Throw
     \/ /\ pc' = "backoff" /\ tries' = tries + 1
        /\ UNCHANGED <<iterations, messages, uses, results, captured, toolCalls>>
  /\ UNCHANGED <<def, attempt, aborted, round, outcome>>

\* The delay does not look at the signal; the request after it does.
Wake ==
  /\ pc = "backoff"
  /\ pc' = IF tries > MaxApiRetries THEN "failed" ELSE "chat"
  /\ UNCHANGED <<def, attempt, aborted, round, conversation, outcome>>

\* Mutant: only the first request of a round gets the signal.
AbortFirstCall ==
  /\ pc = "chat" /\ aborted /\ iterations = 1
  /\ Throw

\* The request is raced against the signal of the timer, and rejected at once when it has fired.
AbortCall ==
  /\ pc = "chat" /\ aborted
  /\ Throw

\* Mutant: a return_output without data is passed over.
ReplyWithData(u) ==
  IF u.name = "return_output" /\ u.data = Undefined THEN results ELSE Append(results, u.id)

\* Every tool gets a result or an error: the sandbox refuses a tool the agent does not have and
\* catches what a tool throws, as does flag_stale_data.
Reply(u) == Append(results, u.id)

\* One tool of the response has run, with output c captured so far.  After the last one the
\* results are sent back, unless the agent handed over its output or has no iteration left.
Answer(u, c) ==
  LET done  == Reply(u)
      calls == Append(toolCalls, round)
  IN /\ captured' = c /\ toolCalls' = calls /\ uses' = Tail(uses)
     /\ IF Len(uses) > 1
          THEN results' = done /\ UNCHANGED <<pc, iterations, tries, messages, result>>
          ELSE /\ results' = <<>> /\ tries' = 0
               /\ messages' = Append(messages, [role |-> "user", ids |-> done])
               /\ IF c = Undefined /\ iterations < MaxIterations
                    THEN pc' = "chat" /\ iterations' = iterations + 1 /\ UNCHANGED result
                    ELSE Finish(c, calls) /\ UNCHANGED iterations

RunTool ==
  /\ pc = "tools"
  /\ LET u == Head(uses) IN
       Answer(u, IF u.name = "return_output" THEN u.data ELSE captured)
  /\ UNCHANGED <<def, attempt, aborted, round, artifact>>

-----------------------------------------------------------------------------
(* The processor again: checks, retries and the transaction.               *)

SchemaFits(o) == o # Null /\ o.fits

\* verify: a step without rules passes whatever its output, null included.
Verified(o) == ~def.rules \/ (o # Null /\ o.sound)

\* The schema is looked at after the first round only, and only content-brief's stops the
\* attempt.  Output that fails verification is asked for again; when the retries are used up it
\* is taken as it is.
Check ==
  /\ pc = "check"
  /\ \/ round = 0 /\ def.strict /\ ~SchemaFits(result.output) /\ Throw
     \/ /\ ~(round = 0 /\ def.strict /\ ~SchemaFits(result.output))
        /\ IF Verified(result.output) \/ round = MaxVerificationRetries
             THEN pc' = "persist" /\ UNCHANGED <<round, conversation>>
             ELSE Converse(round + 1)
        /\ UNCHANGED <<def, attempt, aborted, outcome>>

\* One transaction stores output and tool calls, debits the step and gives it its status; when
\* any of it throws, nothing of it stays.
Persist ==
  /\ pc = "persist"
  /\ \/ Throw
     \/ /\ artifact' = result /\ pc' = "done"
        /\ UNCHANGED <<def, attempt, aborted, round, conversation, result>>

-----------------------------------------------------------------------------
(* The timer, the clock and the queue.                                     *)

TimerFires ==
  /\ ~aborted /\ pc \notin Ended \cup {"failed"}
  /\ aborted' = TRUE
  /\ UNCHANGED <<def, pc, attempt, round, conversation, outcome>>

\* The queue tries a failed job again, from the beginning and with a new timer, or gives it up.
Retry ==
  /\ pc = "failed"
  /\ IF attempt = MaxAttempts
       THEN pc' = "dead" /\ UNCHANGED <<attempt, aborted, round, conversation, result>>
       ELSE /\ pc' = "load" /\ attempt' = attempt + 1 /\ aborted' = FALSE /\ round' = 0
            /\ iterations' = 0 /\ tries' = 0
            /\ messages' = <<>> /\ uses' = <<>> /\ results' = <<>>
            /\ captured' = Undefined /\ toolCalls' = <<>> /\ result' = Nothing
  /\ UNCHANGED <<def, artifact>>

Next ==
  \/ Load \/ PipelineOnly \/ PipelineThenAgent
  \/ FinalAnswer \/ ToolAnswer \/ ApiFails \/ Wake \/ AbortCall \/ RunTool
  \/ Check \/ Persist
  \/ TimerFires \/ Retry

\* A pipeline, or a tool other than return_output, may itself wait for a model or a service: no
\* signal reaches it and no timer ends it.
Elsewhere == pc = "pipeline" \/ (pc = "tools" /\ Head(uses).name = "tool")

\* The process works on, timers fire and the queue delivers.  Neither the model nor a pipeline or a
\* tool that waits owes an answer.
Fairness ==
  /\ WF_vars(Load) /\ WF_vars(Wake) /\ WF_vars(AbortCall) /\ WF_vars(~Elsewhere /\ RunTool)
  /\ WF_vars(Check) /\ WF_vars(Persist) /\ WF_vars(TimerFires) /\ WF_vars(Retry)

Spec == Init /\ [][Next]_vars /\ Fairness

-----------------------------------------------------------------------------

\* Every request sends a conversation the model accepts: user and assistant in turn, and every
\* tool the assistant asked for answered, in order, in the message after it.  It must hold when a
\* tool fails, is refused, or is a return_output without data, after which the agent goes on.
AllAnswered == pc \in {"chat", "backoff"} =>
  \A k \in DOMAIN messages :
    /\ messages[k].role = IF k % 2 = 1 THEN "user" ELSE "assistant"
    /\ messages[k].role = "assistant" =>
         k + 1 \in DOMAIN messages /\ messages[k + 1].ids = messages[k].ids

\* What is stored is of one piece, output and tool calls of the last round, and no round of the
\* attempt failed: output captured before an error, or in a round since repeated, is not kept.
OfLastRound == pc = "done" =>
  /\ artifact.rounds = round + 1
  /\ artifact.output # Null => artifact.output.round = round
  /\ \A k \in DOMAIN artifact.calls : artifact.calls[k] = round

\* An agent that still waits for the model when the 30 minutes are over ends in a failed attempt,
\* whatever the model answers later, and even if it was only sleeping before a retry.
TimeoutStops == aborted /\ pc \in {"chat", "backoff"} ~> pc = "failed"

\* Every job comes to an end, also when the model never answers the agent, unless one pipeline or
\* one tool never returns: nothing else keeps a job forever.
Ends == <>(pc \in Ended) \/ <>[]Elsewhere

=============================================================================
