------------------------------ MODULE AgentRun ------------------------------
(***************************************************************************)
(* One run of a function that consists of an agent: the callbacks of the   *)
(* platform (executor.go), the app that answers them (serve.ts), step.run  *)
(* (step.ts) and the agent loop.  Every callback starts the function from  *)
(* the beginning, goes through the steps whose outputs it was given, and   *)
(* executes at most one step more.  An answer can be lost (a broken        *)
(* connection, the five minute limit, a crash of the platform); the app    *)
(* does not hear of it, and the step it is executing goes on as a stray.   *)
(* How the platform queues the callbacks is the subject of Engine; here a  *)
(* run that has not ended is called back again.                            *)
(***************************************************************************)
EXTENDS AgentLoop

CONSTANTS
  MaxAttempts,    \* executions after which a failed one ends the run
  MaxLost         \* bound on lost answers

ASSUME RunAssumption == {MaxAttempts, MaxLost} \subseteq Nat

VARIABLES
  run,      \* status and attempt in the runs table, and the output
  steps,    \* the step_runs of the run in the order of seq: key and output
  cb,       \* the callback the platform waits for
  strays,   \* the positions of callbacks nobody waits for, executing a step
  execs,    \* how many steps have been executed, which tells their outputs apart
  lost,     \* how many answers were lost
  asked,    \* auxiliary: key and history of every call of the model
  acted,    \* auxiliary: the tool calls whose handler was executed
  trail     \* auxiliary: the position of the loop at each step when it was recorded

vars == <<run, steps, cb, strays, execs, lost, asked, acted, trail>>

Keys       == {steps[i].key : i \in DOMAIN steps}
NoOp       == [op |-> "none"]
NoCallback == [st |-> "none", given |-> <<>>, at |-> Fresh, hits |-> 0, answer |-> NoOp]

Init ==
  /\ run = [st |-> "Queued", attempt |-> 0, output |-> NoOp]
  /\ steps = <<>> /\ cb = NoCallback /\ strays = {}
  /\ execs = 0 /\ lost = 0 /\ asked = {} /\ acted = {} /\ trail = <<Fresh>>

-----------------------------------------------------------------------------
\* mutant of Callback: a run is not called back beyond MaxAttempts
CallbackWithin ==
  /\ run.st \in {"Queued", "Running"} /\ cb.st = "none" /\ run.attempt < MaxAttempts
  /\ run' = [run EXCEPT !.st = "Running", !.attempt = @ + 1]
  /\ cb' = [NoCallback EXCEPT !.st = "running", !.given = steps]
  /\ UNCHANGED <<steps, strays, execs, lost, asked, acted, trail>>

\* dispatch: the attempt is counted, the completed steps go with the request.
\* POST starts the function from the beginning.
Callback ==
  /\ run.st \in {"Queued", "Running"} /\ cb.st = "none"
  /\ run' = [run EXCEPT !.st = "Running", !.attempt = @ + 1]
  /\ cb' = [NoCallback EXCEPT !.st = "running", !.given = steps]
  /\ UNCHANGED <<steps, strays, execs, lost, asked, acted, trail>>

AtStep   == cb.st = "running" /\ cb.at.pc \in {"ask", "act"}
Given(h) == {i \in DOMAIN cb.given : cb.given[i].key = h}

\* step.run finds the memo: the recorded output is returned.
Replay ==
  /\ AtStep
  /\ \E i \in Given(NextHash(cb.at)) :
       cb' = [cb EXCEPT !.at = After(cb.at, cb.given[i].out), !.hits = @ + 1]
  /\ UNCHANGED <<run, steps, strays, execs, lost, asked, acted, trail>>

\* step.run finds none: the model is called, or the handler of the tool.
Execute ==
  /\ AtStep
  /\ Given(NextHash(cb.at)) = {}
  /\ cb' = [cb EXCEPT !.st = "executing"]
  /\ asked' = IF cb.at.pc = "ask" THEN asked \cup {<<NextHash(cb.at), cb.at.msgs>>} ELSE asked
  /\ UNCHANGED <<run, steps, strays, execs, lost, acted, trail>>

\* mutant: step.run returns the output of fn instead of interrupting
RunsOn ==
  /\ cb.st = "executing"
  /\ execs' = execs + 1
  /\ \E r \in Replies :
       LET out == IF cb.at.pc = "ask" THEN [no |-> execs + 1, calls |-> r.calls, used |-> r.used]
                                      ELSE [no |-> execs + 1, call |-> Call(cb.at)]
       IN cb' = [cb EXCEPT !.st = "running", !.at = After(cb.at, out), !.hits = @ + 1]
  /\ acted' = IF cb.at.pc = "act" THEN acted \cup {Call(cb.at)} ELSE acted
  /\ UNCHANGED <<run, steps, strays, lost, asked, trail>>

\* What the execution of a step at l can come to: a tool's output is that of
\* its call, a reply is any reply.  redact has been applied to either.
Outputs(l) == IF l.pc = "ask"
              THEN {[no |-> execs + 1, calls |-> r.calls, used |-> r.used] : r \in Replies}
              ELSE {[no |-> execs + 1, call |-> Call(l)]}

\* fn returns or throws, and step.run interrupts the function with the answer.
Interrupt ==
  /\ cb.st = "executing"
  /\ execs' = execs + 1
  /\ acted' = IF cb.at.pc = "act" THEN acted \cup {Call(cb.at)} ELSE acted
  /\ \E a \in {[op |-> "StepComplete", out |-> o] : o \in Outputs(cb.at)} \cup {[op |-> "StepError"]} :
       cb' = [cb EXCEPT !.st = "answered", !.answer = a]
  /\ UNCHANGED <<run, steps, strays, lost, asked, trail>>

\* The function returns or throws by itself.
Return ==
  /\ cb.st = "running" /\ cb.at.pc \in {"done", "thrown"}
  /\ cb' = [cb EXCEPT !.st = "answered",
                      !.answer = [op |-> IF cb.at.pc = "done" THEN "RunComplete" ELSE "RunError"]]
  /\ UNCHANGED <<run, steps, strays, execs, lost, asked, acted, trail>>

-----------------------------------------------------------------------------
\* mutant: the number of attempts is not looked at
RetryForever == UNCHANGED run /\ cb' = NoCallback

\* retryOrFail
RetryOrFail ==
  /\ run' = IF run.attempt >= MaxAttempts THEN [run EXCEPT !.st = "Failed"] ELSE run
  /\ cb' = NoCallback

\* StepComplete: the output is recorded under the key, over one that is there.
Record ==
  LET h == NextHash(cb.at)
      e == [key |-> h, out |-> cb.answer.out]
  IN
  /\ cb.st = "answered" /\ cb.answer.op = "StepComplete"
  /\ steps' = IF h \in Keys THEN [i \in DOMAIN steps |-> IF steps[i].key = h THEN e ELSE steps[i]]
                            ELSE Append(steps, e)
  /\ trail' = [p \in 1 .. Len(steps) + 2 |->
                 IF p = Len(steps) + 2 THEN After(cb.at, e.out) ELSE trail[p]]
  /\ cb' = NoCallback
  /\ UNCHANGED <<run, strays, execs, lost, asked, acted>>

Complete ==
  /\ cb.st = "answered" /\ cb.answer.op = "RunComplete"
  /\ run' = [run EXCEPT !.st = "Completed", !.output = Result(cb.at)]
  /\ cb' = NoCallback
  /\ UNCHANGED <<steps, strays, execs, lost, asked, acted, trail>>

\* An error is tried again or ends the run.  The memo of a failed step is not
\* given to the function, so it leaves no trace here.
Fail ==
  /\ cb.st = "answered" /\ cb.answer.op \in {"StepError", "RunError"}
  /\ RetryOrFail
  /\ UNCHANGED <<steps, strays, execs, lost, asked, acted, trail>>

\* The platform gives the callback up, or crashes and takes the run up again.
\* In the app only a step under way is still of consequence.
Lose ==
  /\ cb.st # "none" /\ lost < MaxLost
  /\ lost' = lost + 1
  /\ strays' = IF cb.st = "executing" THEN strays \cup {cb.at} ELSE strays
  /\ RetryOrFail \/ (cb' = NoCallback /\ UNCHANGED run)
  /\ UNCHANGED <<steps, execs, asked, acted, trail>>

\* mutant: what a stray comes to is recorded
StrayRecords ==
  \E l \in strays : \E o \in Outputs(l) :
    LET e == [key |-> NextHash(l), out |-> o] IN
    /\ execs' = execs + 1
    /\ strays' = strays \ {l}
    /\ acted' = IF l.pc = "act" THEN acted \cup {Call(l)} ELSE acted
    /\ steps' = IF e.key \in Keys THEN [i \in DOMAIN steps |-> IF steps[i].key = e.key THEN e ELSE steps[i]]
                                  ELSE Append(steps, e)
    /\ trail' = [p \in 1 .. Len(steps') + 1 |-> IF p \in DOMAIN trail THEN trail[p] ELSE After(l, o)]
    /\ UNCHANGED <<run, cb, lost, asked>>

\* A stray step comes to its end.  Nobody reads the answer.
StrayEnds ==
  \E l \in strays :
    /\ strays' = strays \ {l}
    /\ acted' = IF l.pc = "act" THEN acted \cup {Call(l)} ELSE acted
    /\ UNCHANGED <<run, steps, cb, execs, lost, asked, trail>>

Next == \/ Callback \/ Replay \/ Execute \/ Interrupt \/ Return
        \/ Record \/ Complete \/ Fail \/ Lose \/ StrayEnds

\* The platform calls back (Engine: without a crash every run is carried on),
\* and the app's steps come to an end.  Nothing makes the platform lose an answer.
Fairness == WF_vars(Callback \/ Replay \/ Execute \/ Interrupt \/ Return \/ Record \/ Complete \/ Fail)
Spec == Init /\ [][Next]_vars /\ Fairness
-----------------------------------------------------------------------------
(* Properties. *)

RunOver == run.st \in {"Completed", "Failed"}
\* The outputs of the steps es that have one of the ids, in their order.
OutsOf(es, ids) ==
  LET outs[n \in 0 .. Len(es)] ==
        IF n = 0 THEN <<>>
        ELSE IF es[n].key[1] \in ids THEN Append(outs[n - 1], es[n].out) ELSE outs[n - 1]
  IN outs[Len(es)]
Total(s) ==
  LET sum[n \in 0 .. Len(s)] == IF n = 0 THEN 0 ELSE sum[n - 1] + s[n]
  IN sum[Len(s)]
LastOf(s, n) == SubSeq(s, Len(s) - n + 1, Len(s))

TypeOK ==
  /\ run.st \in {"Queued", "Running", "Completed", "Failed"}
  /\ run.attempt \in 0 .. MaxAttempts + Len(steps) + lost + 1
  /\ \A h \in Keys : h \in StepIds \X Nat
  /\ cb.st \in {"none", "running", "executing", "answered"}
  /\ cb.at.pc \in {"ask", "act", "done", "thrown"} /\ cb.hits \in 0 .. Len(steps)
  /\ \A l \in strays : l.pc \in {"ask", "act"}
  /\ execs \in Nat /\ lost \in 0 .. MaxLost

\* The model is asked one question per step: whenever an llm step is executed
\* again, after an error, a lost answer or beside a stray, the history it is
\* given is the one it was given the first time (agent.ts:299-312).
SameQuestion == \A a, b \in asked : a[1] = b[1] => a[2] = b[2]

\* A tool call is answered by the output of its own execution: in every history
\* the model sees and in the records, though the memo key names only the tool
\* and a count (agent.ts:353-377, execx.ts:64-68).
OwnOutput ==
  /\ \A a \in asked : \A i \in DOMAIN a[2] :
       a[2][i].role = "tool" => a[2][i].output.call = a[2][i].call
  /\ \A i \in DOMAIN cb.at.records : cb.at.records[i].output.call = cb.at.records[i].call

\* A tool acts only on a decision that is durable: every handler that was ever
\* executed, by a stray too, was asked for by a reply that is recorded and
\* stays (agent.ts:262-263, 348-358; step.ts:53-57).
DecisionDurable ==
  \A c \in acted : \E i \in DOMAIN steps :
    steps[i].key[1] = LlmStep /\ steps[i].out.no = c[1] /\ c[2] \in DOMAIN steps[i].out.calls

\* What is recorded of a run is neither changed nor reordered (step.ts:48-52).
RecordedStays == [][SubSeq(steps', 1, Len(steps)) = steps]_vars

\* The result is that of the recorded steps whatever executions were lost: the
\* tool records and the token usage of the last round, and its last text is
\* the last assistant message of the history (agent.ts:343-349, 154-166).
ResultOfMemos ==
  run.st = "Completed" =>
    LET res   == run.output
        asks  == OutsOf(steps, {LlmStep})
        acts  == OutsOf(steps, Tools)
        round == LastOf(asks, res.iterations)
    IN /\ [i \in DOMAIN res.toolCalls |-> res.toolCalls[i].output] = LastOf(acts, Len(res.toolCalls))
       /\ res.usage = Total([i \in DOMAIN round |-> round[i].used])
       /\ Len(res.toolCalls) = Total([i \in DOMAIN round |-> Len(round[i].calls)])
       /\ res.text = asks[Len(asks)].no
       /\ res.text = LastAssistant(res.output)

\* A run whose platform keeps calling back ends (executor.go:477-488).
Ends == <>RunOver
=============================================================================
