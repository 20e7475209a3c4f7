----------------------------- MODULE AgentLoop ------------------------------
(***************************************************************************)
(* The agent loop of the TypeScript SDK (agent.ts) as one call of the      *)
(* function runs it.  Between two steps the loop is synchronous code, so   *)
(* it is written as a function: where it stands is a record, and the       *)
(* output of a step takes it to the next step, to the end or to an error.  *)
(* The function runs the same agent Rounds times, one after the other.     *)
(***************************************************************************)
EXTENDS Naturals, Sequences

CONSTANTS
  Tools,              \* the names of the agent's tools
  Replies,            \* what the model may answer: the tools called, the tokens used
  MaxIterations,      \* opts.maxIterations
  Rounds,             \* how often the function runs the agent
  Prepare(_, _, _)    \* the prepareMessages hook: history, iteration, previous usage

\* The checks of createAgent on its options.
ValidOpts == MaxIterations \in Nat \ {0}
LlmStep   == "agent"                       \* the step id agent/<name>
StepIds   == {LlmStep} \cup Tools          \* ... and agent/<name>/<tool>

ASSUME AgentAssumption ==
  /\ ValidOpts /\ Rounds \in Nat \ {0} /\ LlmStep \notin Tools
  /\ \A r \in Replies : r.calls \in Seq(STRING) /\ r.used \in Nat

NoReply == [no |-> 0, calls |-> <<>>, used |-> 0]

\* A tool call is known by the execution of the model that asked for it and its place.
User(round)          == [role |-> "user", round |-> round]
Assistant(reply)     == [role |-> "assistant", from |-> reply.no,
                         calls |-> {<<reply.no, k>> : k \in DOMAIN reply.calls}]
ToolMsg(call, out)   == [role |-> "tool", call |-> call, output |-> out]
CallsIn(msg)         == IF msg.role = "assistant" THEN msg.calls ELSE {}
Answers(msg, call)   == msg.role = "tool" /\ msg.call = call

\* assertPreparedMessagesShape: a history the model can be given.
WellPaired(msgs) ==
  /\ msgs # <<>>
  /\ \A j \in DOMAIN msgs : msgs[j].role = "tool" =>
       \E i \in 1 .. j - 1 : /\ msgs[j].call \in CallsIn(msgs[i])
                             /\ \A m \in i + 1 .. j - 1 : ~ Answers(msgs[m], msgs[j].call)
  /\ \A i \in DOMAIN msgs : \A c \in CallsIn(msgs[i]) :
       \E j \in i + 1 .. Len(msgs) : Answers(msgs[j], c)

-----------------------------------------------------------------------------
\* The head of the loop: the iteration limit, then the history the hook leaves.
LoopHead(l) ==
  LET msgs == Prepare(l.msgs, l.it, l.prev) IN
  IF l.it >= MaxIterations \/ ~ WellPaired(msgs)
  THEN [l EXCEPT !.pc = "thrown"]
  ELSE [l EXCEPT !.pc = "ask", !.msgs = msgs]

\* agent.run: its locals, and the step counters, which outlive it.
Begin(round, count) ==
  LoopHead([pc |-> "ask", round |-> round, count |-> count, it |-> 0, msgs |-> <<User(round)>>,
            prev |-> 0, reply |-> NoReply, k |-> 0, records |-> <<>>, usage |-> 0])
Fresh == Begin(1, [s \in StepIds |-> 0])

Call(l)     == <<l.reply.no, l.k>>         \* the tool call the loop has come to
ToolName(l) == l.reply.calls[l.k]
StepId(l)   == IF l.pc = "ask" THEN LlmStep ELSE ToolName(l)

\* nextHash: the memo key is the step id and how often it was used before.
HashOfId(l) == <<StepId(l), 0>>            \* mutant: no counter
NextHash(l) == <<StepId(l), l.count[StepId(l)]>>
Counted(l)  == [l EXCEPT !.count = [l.count EXCEPT ![StepId(l)] = @ + 1]]

\* The next tool call of the reply, or the next iteration.
NextCall(l) ==
  IF l.k > Len(l.reply.calls)            THEN LoopHead([l EXCEPT !.it = @ + 1])
  ELSE IF ToolName(l) \notin Tools       THEN [l EXCEPT !.pc = "thrown"]
  ELSE [l EXCEPT !.pc = "act"]

\* mutant: the tokens of a reply without tool calls are not counted
AfterAskUncounted(l, reply) ==
  LET next == [Counted(l) EXCEPT !.msgs = Append(@, Assistant(reply)),
                                 !.usage = IF reply.calls = <<>> THEN @ ELSE @ + reply.used,
                                 !.prev = reply.used, !.reply = reply, !.k = 1]
  IN IF reply.calls # <<>> THEN NextCall(next)
     ELSE IF l.round < Rounds THEN Begin(l.round + 1, next.count)
     ELSE [next EXCEPT !.pc = "done"]

\* A reply without tool calls ends the run of the agent.
AfterAsk(l, reply) ==
  LET next == [Counted(l) EXCEPT !.msgs = Append(@, Assistant(reply)), !.usage = @ + reply.used,
                                 !.prev = reply.used, !.reply = reply, !.k = 1]
  IN IF reply.calls # <<>> THEN NextCall(next)
     ELSE IF l.round < Rounds THEN Begin(l.round + 1, next.count)
     ELSE [next EXCEPT !.pc = "done"]

AfterAct(l, out) ==
  NextCall([Counted(l) EXCEPT !.msgs    = Append(@, ToolMsg(Call(l), out)),
                              !.records = Append(@, [call |-> Call(l), output |-> out]),
                              !.k = @ + 1])

After(l, out) == IF l.pc = "ask" THEN AfterAsk(l, out) ELSE AfterAct(l, out)

\* The AgentResult of a loop that is done, and its helper for the last text.
Result(l) == [text |-> l.reply.no, iterations |-> l.it + 1, usage |-> l.usage,
              toolCalls |-> l.records, output |-> l.msgs]
LastAssistant(msgs) ==
  LET from == {i \in DOMAIN msgs : msgs[i].role = "assistant"}
  IN IF from = {} THEN 0 ELSE msgs[CHOOSE i \in from : \A j \in from : j <= i].from
=============================================================================
