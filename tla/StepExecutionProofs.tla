------------------------ MODULE StepExecutionProofs ------------------------
(***************************************************************************)
(* Theorems about StepExecution, for any bounds: the conversations that    *)
(* the agent sends are complete, and what is stored is of the last round.  *)
(***************************************************************************)
EXTENDS StepExecution, SequenceTheorems, TLAPS

USE BoundsAssumption

Id      == Nat \X Nat
Data    == Outputs(round) \cup {Null, Undefined}
Use     == [id : Id, name : {"return_output", "tool"}, data : Data]
Message == [role : {"user", "assistant"}, ids : Seq(Id)]

\* Outputs and tool calls of the current round, and of no other.
RoundInv ==
  /\ round \in Nat /\ iterations \in Nat
  /\ messages \in Seq(Message) /\ uses \in Seq(Use) /\ results \in Seq(Id)
  /\ captured \in Data /\ toolCalls \in Seq({round})
  /\ pc \in {"load", "pipeline"} => round = 0
  /\ pc \in {"check", "persist", "done"} =>
       /\ result.rounds = round + 1
       /\ result.output \in Outputs(round) \cup {Null}
       /\ result.calls \in Seq({round})
  /\ pc = "done" => artifact = result

LEMMA ThrowRound ==
  ASSUME RoundInv, Throw
  PROVE  RoundInv'
BY DEF Throw, RoundInv, conversation, outcome, Data, Use, Outputs

LEMMA ConverseRound ==
  ASSUME RoundInv, NEW r \in Nat, Converse(r), def' = def
  PROVE  RoundInv'
<1>1. <<>> \in Seq(Use)' /\ <<>> \in Seq(Id) /\ <<>> \in Seq({r})
  OBVIOUS
<1>2. <<[role |-> "user", ids |-> <<>>]>> \in Seq(Message)
  <2>1. [role |-> "user", ids |-> <<>>] \in Message  BY DEF Message
  <2> QED  BY <2>1
<1>3. Undefined \in Data'  BY DEF Data
<1> QED  BY <1>1, <1>2, <1>3 DEF RoundInv, Converse

LEMMA FinishRound ==
  ASSUME RoundInv, NEW o \in Data, NEW calls \in Seq({round}), Finish(o, calls),
         UNCHANGED <<def, round>>,
         iterations' \in Nat, messages' \in Seq(Message), uses' \in Seq(Use), results' \in Seq(Id),
         captured' \in Data, toolCalls' \in Seq({round})
  PROVE  RoundInv'
<1>1. Outputs(round)' = Outputs(round) /\ Data' = Data /\ Use' = Use
  BY DEF Outputs, Data, Use
<1>2. result'.output \in Outputs(round) \cup {Null}  BY DEF Finish, Data
<1>3. result'.rounds = round + 1 /\ result'.calls = calls /\ pc' = "check"  BY DEF Finish
<1> QED  BY <1>1, <1>2, <1>3 DEF RoundInv

\* The requests and the answers of the model.
LEMMA AskedFor ==
  ASSUME RoundInv, NEW n \in Nat, NEW s \in [1 .. n -> ToolUses]
  PROVE  /\ Identified(s) \in Seq(Use) /\ Len(Identified(s)) = n
         /\ Ids(Identified(s)) \in Seq(Id) /\ Len(Ids(Identified(s))) = n
         /\ \A k \in 1 .. n : Ids(Identified(s))[k] = Identified(s)[k].id
<1>1. Identified(s) = [k \in 1 .. n |-> [id |-> <<iterations, k>>, name |-> s[k].name, data |-> s[k].data]]
  BY DEF Identified
<1>2. ASSUME NEW k \in 1 .. n  PROVE Identified(s)[k] \in Use
  <2>1. s[k] \in ToolUses /\ <<iterations, k>> \in Id  BY DEF Id, RoundInv
  <2>2. s[k].name \in {"return_output", "tool"} /\ s[k].data \in Data
    BY <2>1 DEF ToolUses, Data
  <2> QED  BY <1>1, <2>1, <2>2 DEF Use
<1>3. Identified(s) \in Seq(Use) /\ Len(Identified(s)) = n  BY <1>1, <1>2
<1>4. Ids(Identified(s)) = [k \in 1 .. n |-> Identified(s)[k].id]  BY <1>1 DEF Ids
<1>5. \A k \in 1 .. n : Identified(s)[k].id \in Id  BY <1>2 DEF Use
<1> QED  BY <1>3, <1>4, <1>5

LEMMA RunToolRound ==
  ASSUME RoundInv, RunTool, uses # <<>>
  PROVE  RoundInv'
<1> DEFINE u == Head(uses)
           c == IF u.name = "return_output" THEN u.data ELSE captured
<1>1. Answer(u, c) /\ UNCHANGED <<def, attempt, aborted, round, artifact>> /\ pc = "tools"
  BY DEF RunTool
<1>2. u \in Use /\ Tail(uses) \in Seq(Use)  BY DEF RoundInv
<1>3. c \in Data /\ u.id \in Id  BY <1>2 DEF Use, RoundInv
<1>4. Append(toolCalls, round) \in Seq({round}) /\ Reply(u) \in Seq(Id)
  BY <1>3 DEF RoundInv, Reply
<1>5. [role |-> "user", ids |-> Reply(u)] \in Message  BY <1>4 DEF Message
<1>6. Append(messages, [role |-> "user", ids |-> Reply(u)]) \in Seq(Message)
  BY <1>5 DEF RoundInv
<1> HIDE DEF u, c
<1>7. /\ captured' = c /\ toolCalls' = Append(toolCalls, round) /\ uses' = Tail(uses)
      /\ iterations' \in Nat /\ messages' \in Seq(Message) /\ results' \in Seq(Id)
  <2>1. captured' = c /\ toolCalls' = Append(toolCalls, round) /\ uses' = Tail(uses)
    BY <1>1 DEF Answer
  <2>2. messages' = messages \/ messages' = Append(messages, [role |-> "user", ids |-> Reply(u)])
    BY <1>1 DEF Answer
  <2>3. results' = Reply(u) \/ results' = <<>>  BY <1>1 DEF Answer
  <2>4. iterations' = iterations \/ iterations' = iterations + 1  BY <1>1 DEF Answer
  <2>5. messages' \in Seq(Message)  BY <1>6, <2>2 DEF RoundInv
  <2>6. results' \in Seq(Id)  BY <1>4, <2>3, EmptySeq
  <2>7. iterations' \in Nat  BY <2>4 DEF RoundInv
  <2> QED  BY <2>1, <2>5, <2>6, <2>7
<1>8. CASE Finish(c, Append(toolCalls, round))
  BY <1>1, <1>2, <1>3, <1>4, <1>7, <1>8, FinishRound
<1>9. CASE pc' \in {"tools", "chat"}
  <2>1. Outputs(round)' = Outputs(round) /\ Data' = Data /\ Use' = Use
    BY <1>1 DEF Outputs, Data, Use
  <2> QED  BY <1>1, <1>2, <1>3, <1>4, <1>7, <1>9, <2>1 DEF RoundInv
<1> QED  BY <1>1, <1>8, <1>9 DEF Answer

\* Steps that change nothing of a round but the place in it.
LEMMA StayRound ==
  ASSUME RoundInv, UNCHANGED <<def, round, conversation, result>>,
         pc' \in {"load", "pipeline"} => round = 0,
         pc' \in {"check", "persist", "done"} => pc \in {"check", "persist", "done"},
         pc' = "done" => artifact' = result
  PROVE  RoundInv'
BY DEF RoundInv, conversation, Data, Use, Outputs

LEMMA RoundStep ==
  ASSUME RoundInv, pc = "tools" => uses # <<>>, [Next]_vars
  PROVE  RoundInv'
<1> USE DEF outcome
<1>1. CASE Load
  <2>1. CASE Throw  BY <2>1, ThrowRound
  <2>2. CASE Converse(0)  BY <1>1, <2>2, ConverseRound DEF Load
  <2>3. CASE pc' = "pipeline" /\ UNCHANGED <<round, conversation>>
    BY <1>1, <2>3, StayRound DEF Load, RoundInv
  <2> QED  BY <1>1, <2>1, <2>2, <2>3 DEF Load
<1>2. CASE PipelineOnly
  <2>1. CASE Throw  BY <2>1, ThrowRound
  <2>2. CASE ~Throw
    <3>1. PICK o \in Outputs(0) \cup {Null} : result' = [Nothing EXCEPT !.output = o, !.rounds = 1]
      BY <1>2, <2>2 DEF PipelineOnly
    <3>2. /\ pc = "pipeline" /\ pc' = "persist" /\ round = 0
          /\ UNCHANGED <<def, round, conversation, artifact>>
      BY <1>2, <2>2 DEF PipelineOnly, RoundInv
    <3>3. /\ result'.rounds = 1 /\ result'.output = o
          /\ result'.calls = <<>>
      BY <3>1 DEF Nothing
    <3>4. Outputs(round)' = Outputs(round) /\ Data' = Data /\ Use' = Use
      BY <3>2 DEF Outputs, Data, Use
    <3>5. result'.calls \in Seq({round})  BY <3>3, EmptySeq
    <3> QED  BY <3>2, <3>3, <3>4, <3>5 DEF RoundInv, conversation
  <2> QED  BY <2>1, <2>2
<1>3. CASE PipelineThenAgent
  BY <1>3, ThrowRound, ConverseRound DEF PipelineThenAgent
<1>4. CASE FinalAnswer
  <2>1. PICK o \in Outputs(round) \cup {Null} : captured' = o /\ Finish(o, toolCalls)
    BY <1>4 DEF FinalAnswer
  <2>2. o \in Data /\ Data' = Data /\ Use' = Use
    BY <1>4 DEF FinalAnswer, Data, Use, Outputs
  <2> QED  BY <1>4, <2>1, <2>2, FinishRound DEF FinalAnswer, RoundInv
<1>5. CASE ToolAnswer
  <2>1. PICK n \in 1 .. MaxToolUses : \E s \in [1 .. n -> ToolUses] :
          /\ uses' = Identified(s)
          /\ messages' = Append(messages, [role |-> "assistant", ids |-> Ids(Identified(s))])
    BY <1>5 DEF ToolAnswer
  <2>2. PICK s \in [1 .. n -> ToolUses] :
          /\ uses' = Identified(s)
          /\ messages' = Append(messages, [role |-> "assistant", ids |-> Ids(Identified(s))])
    BY <2>1
  <2>3. uses' \in Seq(Use) /\ Ids(Identified(s)) \in Seq(Id)  BY <2>2, AskedFor
  <2>4. [role |-> "assistant", ids |-> Ids(Identified(s))] \in Message  BY <2>3 DEF Message
  <2>5. messages' \in Seq(Message)  BY <2>2, <2>4 DEF RoundInv
  <2>6. Outputs(round)' = Outputs(round) /\ Data' = Data /\ Use' = Use
    BY <1>5 DEF ToolAnswer, Outputs, Data, Use
  <2> QED  BY <1>5, <2>3, <2>5, <2>6 DEF ToolAnswer, RoundInv
<1>6. CASE ApiFails \/ Wake \/ AbortCall
  <2>1. CASE Throw  BY <2>1, ThrowRound
  <2>2. CASE ~Throw
    <3>1. /\ pc' \in {"backoff", "failed", "chat"}
          /\ UNCHANGED <<def, round, iterations, messages, uses, results, captured, toolCalls>>
      BY <1>6, <2>2 DEF ApiFails, Wake, AbortCall, conversation
    <3> QED  BY <3>1 DEF RoundInv, Data, Use, Outputs
  <2> QED  BY <2>1, <2>2
<1>7. CASE RunTool  BY <1>7, RunToolRound DEF RunTool
<1>8. CASE Check
  <2>1. CASE Throw  BY <2>1, ThrowRound
  <2>2. CASE Converse(round + 1)
    <3>1. round + 1 \in Nat  BY DEF RoundInv
    <3>2. def' = def  BY <1>8 DEF Check, Throw
    <3> QED  BY <2>2, <3>1, <3>2, ConverseRound
  <2>3. CASE ~Throw /\ ~Converse(round + 1)
    BY <1>8, <2>3, StayRound DEF Check
  <2> QED  BY <2>1, <2>2, <2>3
<1>9. CASE Persist
  BY <1>9, ThrowRound, StayRound DEF Persist
<1>10. CASE TimerFires \/ UNCHANGED vars
  BY <1>10, StayRound DEF TimerFires, vars, RoundInv
<1>11. CASE Retry
  <2>1. CASE attempt = MaxAttempts
    BY <1>11, <2>1, StayRound DEF Retry
  <2>2. CASE attempt # MaxAttempts
    <3>1. /\ pc' = "load" /\ round' = 0 /\ iterations' = 0 /\ messages' = <<>> /\ uses' = <<>>
          /\ results' = <<>> /\ captured' = Undefined /\ toolCalls' = <<>>
      BY <1>11, <2>2 DEF Retry
    <3> QED  BY <3>1, EmptySeq DEF RoundInv, Data
  <2> QED  BY <2>1, <2>2
<1> QED
  BY <1>1, <1>2, <1>3, <1>4, <1>5, <1>6, <1>7, <1>8, <1>9, <1>10, <1>11 DEF Next

-----------------------------------------------------------------------------
(* The conversation.                                                       *)

\* User and assistant in turn, and every answer complete.
Turns == \A k \in 1 .. Len(messages) :
  /\ messages[k].role = IF k % 2 = 1 THEN "user" ELSE "assistant"
  /\ k < Len(messages) /\ messages[k].role = "assistant" => messages[k + 1].ids = messages[k].ids

\* The results so far, and the tools still to run, are what the last message asked for.
Owed == LET ids == messages[Len(messages)].ids IN
  /\ uses # <<>> /\ Len(ids) = Len(results) + Len(uses)
  /\ \A i \in 1 .. Len(results) : ids[i] = results[i]
  /\ \A i \in 1 .. Len(uses) : ids[Len(results) + i] = uses[i].id

TalkInv ==
  /\ pc \in {"chat", "backoff"} => Turns /\ Len(messages) % 2 = 1 /\ results = <<>>
  /\ pc = "tools" => Turns /\ messages # <<>> /\ Len(messages) % 2 = 0 /\ Owed

LEMMA Conversation ==
  ASSUME RoundInv
  PROVE  /\ messages \in Seq(Message) /\ uses \in Seq(Use) /\ results \in Seq(Id)
         /\ Len(messages) \in Nat /\ Len(uses) \in Nat /\ Len(results) \in Nat
BY DEF RoundInv

LEMMA FirstUse ==
  ASSUME RoundInv, Len(uses) > 0
  PROVE  /\ uses[1].id \in Id /\ Head(uses) = uses[1]
         /\ Reply(Head(uses)) = Append(results, uses[1].id) /\ Reply(Head(uses)) \in Seq(Id)
         /\ Len(Reply(Head(uses))) = Len(results) + 1
         /\ \A i \in 1 .. Len(results) : Reply(Head(uses))[i] = results[i]
         /\ Reply(Head(uses))[Len(results) + 1] = uses[1].id
<1>1. uses[1] \in Use  BY Conversation
<1>2. uses[1].id \in Id  BY <1>1 DEF Use
<1>3. Head(uses) = uses[1]  OBVIOUS
<1>4. Reply(Head(uses)) = Append(results, uses[1].id)  BY <1>3 DEF Reply
<1>5. results \in Seq(Id)  BY Conversation
<1> QED  BY <1>2, <1>3, <1>4, <1>5, AppendProperties

LEMMA Parity ==
  ASSUME NEW n \in Nat
  PROVE  n % 2 = 0 <=> (n + 1) % 2 = 1
OBVIOUS

LEMMA NextTurn ==
  ASSUME messages \in Seq(Message), Turns, NEW m \in Message, messages' = Append(messages, m),
         m.role = IF Len(messages) % 2 = 0 THEN "user" ELSE "assistant",
         m.role = "user" /\ messages # <<>> => m.ids = messages[Len(messages)].ids
  PROVE  Turns' /\ Len(messages') = Len(messages) + 1 /\ messages'[Len(messages) + 1] = m
<1> PICK n \in Nat : n = Len(messages)
  OBVIOUS
<1>1. /\ Len(messages') = n + 1 /\ messages'[n + 1] = m
      /\ \A k \in 1 .. n : messages'[k] = messages[k]
  BY AppendProperties
<1>2. n % 2 = 0 <=> (n + 1) % 2 = 1
  BY Parity
<1>3. ASSUME NEW k \in 1 .. n + 1
      PROVE  /\ messages'[k].role = IF k % 2 = 1 THEN "user" ELSE "assistant"
             /\ k < n + 1 /\ messages'[k].role = "assistant" => messages'[k + 1].ids = messages'[k].ids
  <2>1. CASE k = n + 1  BY <1>1, <1>2, <2>1
  <2>2. CASE k = n /\ k # n + 1
    <3>1. messages # <<>> /\ k \in 1 .. n  BY <2>2
    <3>2. messages[k].role = IF k % 2 = 1 THEN "user" ELSE "assistant"  BY <3>1 DEF Turns
    <3>3. messages[k].role = "assistant" => m.role = "user"  BY <2>2, <3>2
    <3> QED  BY <1>1, <2>2, <3>1, <3>2, <3>3
  <2>3. CASE k < n
    <3>1. k \in 1 .. n /\ k + 1 \in 1 .. n  BY <2>3
    <3> QED  BY <1>1, <2>3, <3>1 DEF Turns
  <2> QED  BY <2>1, <2>2, <2>3
<1> QED  BY <1>1, <1>3 DEF Turns

LEMMA FirstTurn ==
  ASSUME NEW r, Converse(r)
  PROVE  TalkInv'
<1>1. pc' = "chat" /\ results' = <<>> /\ messages' = <<[role |-> "user", ids |-> <<>>]>>
  BY DEF Converse
<1>2. Len(messages') = 1 /\ messages'[1].role = "user" /\ 1 % 2 = 1
  BY <1>1
<1>3. Turns'  BY <1>2 DEF Turns
<1> QED  BY <1>1, <1>2, <1>3 DEF TalkInv

\* A tool of several has run.
LEMMA NextTool ==
  ASSUME RoundInv, Owed, UNCHANGED messages, Len(uses) > 1,
         uses' = Tail(uses), results' = Reply(Head(uses))
  PROVE  Owed'
<1> PICK n \in Nat, l \in Nat : n = Len(results) /\ l = Len(uses)
  BY Conversation
<1> DEFINE ids == messages[Len(messages)].ids
<1>1. /\ l > 1 /\ Len(ids) = n + l
      /\ \A i \in 1 .. n : ids[i] = results[i]
      /\ \A i \in 1 .. l : ids[n + i] = uses[i].id
  BY DEF Owed
<1>2. /\ Len(uses') = l - 1
      /\ \A i \in 1 .. l - 1 : uses'[i] = uses[i + 1]
  <2>1. uses \in Seq(Use) /\ uses # <<>>  BY <1>1, Conversation
  <2> QED  BY <2>1, HeadTailProperties
<1>5. /\ Len(results') = n + 1 /\ results'[n + 1] = uses[1].id
      /\ \A i \in 1 .. n : results'[i] = results[i]
  BY <1>1, FirstUse
<1> HIDE DEF ids
<1>6. \A i \in 1 .. n + 1 : ids[i] = results'[i]
  <2> SUFFICES ASSUME NEW i \in 1 .. n + 1  PROVE ids[i] = results'[i]
    OBVIOUS
  <2>1. CASE i = n + 1  BY <1>1, <1>5, <2>1
  <2>2. CASE i # n + 1  BY <1>1, <1>5, <2>2
  <2> QED  BY <2>1, <2>2
<1>7. \A i \in 1 .. l - 1 : ids[n + 1 + i] = uses'[i].id
  <2> SUFFICES ASSUME NEW i \in 1 .. l - 1  PROVE ids[n + 1 + i] = uses'[i].id
    OBVIOUS
  <2>1. i + 1 \in 1 .. l /\ n + 1 + i = n + (i + 1)  OBVIOUS
  <2> QED  BY <1>1, <1>2, <2>1
<1>8. uses' # <<>>
  <2>1. Len(uses') # 0  BY <1>1, <1>2
  <2> QED  BY <2>1
<1>9. ids = messages'[Len(messages')].ids  BY DEF ids
<1>10. /\ Len(ids) = Len(results') + Len(uses')
       /\ \A i \in 1 .. Len(results') : ids[i] = results'[i]
       /\ \A i \in 1 .. Len(uses') : ids[Len(results') + i] = uses'[i].id
  <2>1. n + l = (n + 1) + (l - 1)  OBVIOUS
  <2> QED  BY <1>1, <1>2, <1>5, <1>6, <1>7, <2>1
<1> QED  BY <1>8, <1>9, <1>10 DEF Owed

\* The last one has run: the results are what the last message asked for.
LEMMA LastTool ==
  ASSUME RoundInv, Owed, messages # <<>>, Len(uses) = 1
  PROVE  Reply(Head(uses)) = messages[Len(messages)].ids
<1> PICK n \in Nat : n = Len(results)
  BY Conversation
<1> DEFINE ids == messages[Len(messages)].ids
<1>1. /\ Len(ids) = n + 1
      /\ \A i \in 1 .. n : ids[i] = results[i]
      /\ ids[n + 1] = uses[1].id
  BY DEF Owed
<1>3. Reply(Head(uses)) \in Seq(Id) /\ Len(Reply(Head(uses))) = n + 1
  BY FirstUse
<1>4. /\ \A i \in 1 .. n : Reply(Head(uses))[i] = results[i]
      /\ Reply(Head(uses))[n + 1] = uses[1].id
  BY FirstUse
<1>5. ids \in Seq(Id)
  <2>1. messages[Len(messages)] \in Message  BY Conversation
  <2> QED  BY <2>1 DEF Message
<1> HIDE DEF ids
<1>6. \A i \in 1 .. n + 1 : Reply(Head(uses))[i] = ids[i]
  BY <1>1, <1>4
<1>7. Reply(Head(uses)) = ids  BY <1>1, <1>3, <1>5, <1>6, SeqEqual
<1> QED  BY <1>7 DEF ids

LEMMA RunToolTalk ==
  ASSUME RoundInv, TalkInv, RunTool
  PROVE  TalkInv'
<1>1. Turns /\ messages # <<>> /\ Len(messages) % 2 = 0 /\ Owed /\ pc = "tools"
  BY DEF TalkInv, RunTool
<1>2. PICK c : Answer(Head(uses), c)  BY DEF RunTool
<1>3. CASE Len(uses) > 1
  <2>1. /\ uses' = Tail(uses) /\ results' = Reply(Head(uses))
        /\ UNCHANGED <<pc, messages>>
    BY <1>2, <1>3 DEF Answer
  <2>2. Owed'  BY <1>1, <1>3, <2>1, NextTool
  <2> QED  BY <1>1, <2>1, <2>2 DEF TalkInv, Turns
<1>4. CASE ~(Len(uses) > 1)
  <2> DEFINE m == [role |-> "user", ids |-> Reply(Head(uses))]
  <2>1. Len(uses) = 1
    <3>1. uses # <<>> /\ uses \in Seq(Use)  BY <1>1, Conversation DEF Owed
    <3> PICK l \in Nat : l = Len(uses)  BY Conversation
    <3>2. l # 0 /\ ~(l > 1)  BY <1>4, <3>1, EmptySeq
    <3>3. l = 1  BY <3>2
    <3> QED  BY <3>3
  <2>2. Reply(Head(uses)) \in Seq(Id)  BY <2>1, FirstUse
  <2>3. m \in Message /\ m.role = "user" /\ m.ids = messages[Len(messages)].ids
    BY <1>1, <2>1, <2>2, LastTool DEF Message
  <2>4. messages' = Append(messages, m) /\ results' = <<>> /\ pc' \in {"chat", "check"}
    BY <1>2, <1>4 DEF Answer, Finish
  <2> HIDE DEF m
  <2>5. Turns' /\ Len(messages') = Len(messages) + 1
    BY <1>1, <2>3, <2>4, NextTurn, Conversation
  <2>6. Len(messages') % 2 = 1  BY <1>1, <2>5, Parity, Conversation
  <2> QED  BY <2>4, <2>5, <2>6 DEF TalkInv
<1> QED  BY <1>3, <1>4

LEMMA ToolAnswerTalk ==
  ASSUME RoundInv, TalkInv, ToolAnswer
  PROVE  TalkInv'
<1>1. Turns /\ Len(messages) % 2 = 1 /\ results = <<>>
  BY DEF TalkInv, ToolAnswer
<1>2. PICK n \in 1 .. MaxToolUses : \E s \in [1 .. n -> ToolUses] :
        /\ uses' = Identified(s)
        /\ messages' = Append(messages, [role |-> "assistant", ids |-> Ids(Identified(s))])
  BY DEF ToolAnswer
<1>3. PICK s \in [1 .. n -> ToolUses] :
        /\ uses' = Identified(s)
        /\ messages' = Append(messages, [role |-> "assistant", ids |-> Ids(Identified(s))])
  BY <1>2
<1> DEFINE ids == Ids(Identified(s))
           m == [role |-> "assistant", ids |-> ids]
<1>4. /\ Len(uses') = n /\ n >= 1 /\ ids \in Seq(Id) /\ Len(ids) = n
      /\ \A k \in 1 .. n : ids[k] = uses'[k].id
  <2>1. n \in Nat /\ n >= 1  OBVIOUS
  <2> QED  BY <1>3, <2>1, AskedFor
<1>5. m \in Message /\ m.role = "assistant" /\ m.ids = ids  BY <1>4 DEF Message
<1> HIDE DEF ids, m
<1>6. messages' = Append(messages, m)  BY <1>3 DEF m, ids
<1>7. Turns' /\ Len(messages') = Len(messages) + 1 /\ messages'[Len(messages) + 1] = m
  BY <1>1, <1>5, <1>6, NextTurn, Conversation
<1>8. messages' # <<>> /\ Len(messages') % 2 = 0
  <2> PICK k \in Nat : k = Len(messages)  BY Conversation
  <2>1. Len(messages') = k + 1 /\ k % 2 = 1  BY <1>1, <1>7
  <2>2. (k + 1) % 2 = 0  BY <2>1
  <2>3. messages' # <<>>  BY <2>1
  <2> QED  BY <2>1, <2>2, <2>3
<1>9. results' = <<>> /\ pc' = "tools"  BY <1>1 DEF ToolAnswer
<1>10. Owed'
  <2>1. messages'[Len(messages')].ids = ids  BY <1>5, <1>7
  <2>2. Len(results') = 0  BY <1>9
  <2>3. uses' # <<>>  BY <1>4
  <2> QED  BY <1>4, <2>1, <2>2, <2>3 DEF Owed
<1> QED  BY <1>7, <1>8, <1>9, <1>10 DEF TalkInv

LEMMA TalkStep ==
  ASSUME RoundInv, TalkInv, [Next]_vars
  PROVE  TalkInv'
<1>1. CASE pc' \notin {"chat", "backoff", "tools"}
  BY <1>1 DEF TalkInv
<1>2. CASE \E r : Converse(r)
  BY <1>2, FirstTurn
<1>3. CASE ToolAnswer  BY <1>3, ToolAnswerTalk
<1>4. CASE RunTool  BY <1>4, RunToolTalk
<1>5. CASE ApiFails \/ Wake \/ TimerFires \/ UNCHANGED vars
  BY <1>1, <1>5 DEF ApiFails, Wake, TimerFires, Throw, vars, conversation, TalkInv, Turns, Owed
<1>6. CASE Load \/ PipelineThenAgent \/ Check
  BY <1>1, <1>2, <1>6 DEF Load, PipelineThenAgent, Check, Throw
<1>7. CASE PipelineOnly \/ FinalAnswer \/ AbortCall \/ Persist \/ Retry
  BY <1>1, <1>7 DEF PipelineOnly, FinalAnswer, Finish, AbortCall, Persist, Retry, Throw
<1> QED
  BY <1>3, <1>4, <1>5, <1>6, <1>7 DEF Next

-----------------------------------------------------------------------------
(* The theorems.                                                           *)

LEMMA ExecutionInv ==
  Spec => [](RoundInv /\ TalkInv)
<1>1. Init => RoundInv /\ TalkInv
  BY EmptySeq DEF Init, RoundInv, TalkInv, Data
<1>2. RoundInv /\ TalkInv /\ [Next]_vars => (RoundInv /\ TalkInv)'
  <2>1. TalkInv /\ pc = "tools" => uses # <<>>  BY DEF TalkInv, Owed
  <2> QED  BY <2>1, RoundStep, TalkStep
<1> QED  BY <1>1, <1>2, PTL DEF Spec

\* For any number of iterations, of tools in a response and of failures: the agent only sends
\* conversations in which every tool asked for has its answer, in order, in the next message.
THEOREM ConversationComplete == Spec => []AllAnswered
<1>1. RoundInv /\ TalkInv => AllAnswered
  <2> SUFFICES ASSUME RoundInv, TalkInv, pc \in {"chat", "backoff"}, NEW k \in DOMAIN messages
               PROVE  /\ messages[k].role = IF k % 2 = 1 THEN "user" ELSE "assistant"
                      /\ messages[k].role = "assistant" =>
                           k + 1 \in DOMAIN messages /\ messages[k + 1].ids = messages[k].ids
    BY DEF AllAnswered
  <2>1. Turns /\ Len(messages) % 2 = 1  BY DEF TalkInv
  <2>2. DOMAIN messages = 1 .. Len(messages) /\ Len(messages) \in Nat  BY DEF RoundInv
  <2>3. messages[k].role = IF k % 2 = 1 THEN "user" ELSE "assistant"  BY <2>1, <2>2 DEF Turns
  <2>4. messages[k].role = "assistant" => k < Len(messages)  BY <2>1, <2>2, <2>3
  <2> QED  BY <2>1, <2>2, <2>3, <2>4 DEF Turns
<1> QED  BY <1>1, ExecutionInv, PTL

\* For any number of retries: what is stored and paid for is the output, and the tool calls, of
\* one and the same round, the last of the attempt that ended well.
THEOREM StoredOfLastRound == Spec => []OfLastRound
<1>1. RoundInv /\ TalkInv => OfLastRound
  <2> SUFFICES ASSUME RoundInv, pc = "done"  PROVE OfLastRound
    BY DEF OfLastRound
  <2>1. artifact = result /\ artifact.rounds = round + 1
        /\ artifact.output \in Outputs(round) \cup {Null} /\ artifact.calls \in Seq({round})
    BY DEF RoundInv
  <2>2. artifact.output # Null => artifact.output.round = round  BY <2>1 DEF Outputs
  <2>3. \A k \in DOMAIN artifact.calls : artifact.calls[k] = round  BY <2>1
  <2> QED  BY <2>1, <2>2, <2>3 DEF OfLastRound
<1> QED  BY <1>1, ExecutionInv, PTL

=============================================================================
