---------------------------- MODULE AgentProofs -----------------------------
(***************************************************************************)
(* The agent loop replays to where it was, for any model, any tools, any   *)
(* deterministic hook and any number of errors and lost answers.           *)
(***************************************************************************)
EXTENDS AgentRun, NatSets, SequenceTheorems, TLAPS

-----------------------------------------------------------------------------
(* The loop as a function: what one step does to its locals. *)

Fields == {"pc", "round", "count", "it", "msgs", "prev", "reply", "k", "records", "usage"}

\* The locals of the loop; at a tool call, the call is one of the reply.
Locals(l) == /\ DOMAIN l = Fields /\ l = [f \in Fields |-> l[f]]
             /\ l.count \in [StepIds -> Nat]
Acting(l) == /\ l.k \in Nat \ {0} /\ l.reply.calls \in Seq(STRING)
             /\ l.k <= Len(l.reply.calls) /\ ToolName(l) \in Tools
LocalsOK(l) == Locals(l) /\ (l.pc = "act" => Acting(l))
StepPc == {"ask", "act"}

\* The head of the loop changes neither counter nor shape.
LEMMA LoopHeadOK ==
  ASSUME NEW l, Locals(l)
  PROVE  /\ Locals(LoopHead(l)) /\ LoopHead(l).count = l.count
         /\ LoopHead(l).pc \in {"ask", "thrown"}
<1> DEFINE msgs == Prepare(l.msgs, l.it, l.prev)
<1>1. LoopHead(l) \in {[l EXCEPT !.pc = "thrown"], [l EXCEPT !.pc = "ask", !.msgs = msgs]}
  BY DEF LoopHead
<1>2. CASE LoopHead(l) = [l EXCEPT !.pc = "thrown"]
  BY <1>2 DEF Locals, Fields
<1>3. CASE LoopHead(l) = [l EXCEPT !.pc = "ask", !.msgs = msgs]
  BY <1>3 DEF Locals, Fields
<1> QED BY <1>1, <1>2, <1>3

\* So does the way to the next tool call, which is then one of the reply.
LEMMA NextCallOK ==
  ASSUME NEW l, Locals(l), l.k \in Nat \ {0}, l.reply.calls \in Seq(STRING)
  PROVE  /\ LocalsOK(NextCall(l)) /\ NextCall(l).count = l.count
         /\ NextCall(l).pc = "act" => NextCall(l).reply = l.reply
<1>1. CASE l.k > Len(l.reply.calls)
  <2> DEFINE m == [l EXCEPT !.it = @ + 1]
  <2>1. Locals(m) /\ m.count = l.count
    BY DEF Locals, Fields
  <2>2. NextCall(l) = LoopHead(m)
    BY <1>1 DEF NextCall
  <2> HIDE DEF m
  <2> QED BY <2>1, <2>2, LoopHeadOK DEF LocalsOK
<1>2. CASE ~ (l.k > Len(l.reply.calls)) /\ ToolName(l) \notin Tools
  <2>1. NextCall(l) = [l EXCEPT !.pc = "thrown"]
    BY <1>2 DEF NextCall
  <2> QED BY <2>1 DEF LocalsOK, Locals, Fields
<1>3. CASE ~ (l.k > Len(l.reply.calls)) /\ ToolName(l) \in Tools
  <2>1. NextCall(l) = [l EXCEPT !.pc = "act"]
    BY <1>3 DEF NextCall
  <2>2. l.k <= Len(l.reply.calls)
    BY <1>3
  <2> QED BY <2>1, <2>2, <1>3 DEF LocalsOK, Locals, Fields, Acting, ToolName
<1> QED BY <1>1, <1>2, <1>3

\* What the execution of a step may return.
OutputOf(l, out) ==
  IF l.pc = "ask" THEN out.calls \in Seq(STRING) /\ out.used \in Nat ELSE out.call = Call(l)

LEMMA CountedOK ==
  ASSUME NEW l, Locals(l), StepId(l) \in StepIds
  PROVE  /\ Locals(Counted(l)) /\ Counted(l).count = [l.count EXCEPT ![StepId(l)] = @ + 1]
         /\ Counted(l).k = l.k /\ Counted(l).reply = l.reply
<1>1. [l.count EXCEPT ![StepId(l)] = @ + 1] \in [StepIds -> Nat]
  BY DEF Locals
<1>2. Counted(l) = [l EXCEPT !.count = [l.count EXCEPT ![StepId(l)] = @ + 1]]
  BY DEF Counted
<1> QED BY <1>1, <1>2 DEF Locals, Fields

\* A step counts its own id once, and at a tool call the reply is the last recorded one.
LEMMA AfterOK ==
  ASSUME NEW l, LocalsOK(l), l.pc \in StepPc, NEW out, OutputOf(l, out)
  PROVE  /\ LocalsOK(After(l, out)) /\ StepId(l) \in StepIds
         /\ After(l, out).count = [l.count EXCEPT ![StepId(l)] = @ + 1]
         /\ After(l, out).pc = "act" => After(l, out).reply = IF l.pc = "ask" THEN out ELSE l.reply
<1>1. StepId(l) \in StepIds
  BY DEF StepId, StepIds, LocalsOK, Acting, StepPc
<1>2. CASE l.pc = "ask"
  <2> DEFINE n == [Counted(l) EXCEPT !.msgs = Append(@, Assistant(out)), !.usage = @ + out.used,
                                     !.prev = out.used, !.reply = out, !.k = 1]
             b == [pc |-> "ask", round |-> l.round + 1, count |-> n.count, it |-> 0,
                   msgs |-> <<User(l.round + 1)>>, prev |-> 0, reply |-> NoReply, k |-> 0,
                   records |-> <<>>, usage |-> 0]
  <2>1. /\ Locals(n) /\ n.count = [l.count EXCEPT ![StepId(l)] = @ + 1]
        /\ n.k = 1 /\ n.reply = out
    BY <1>1, CountedOK DEF LocalsOK, Locals, Fields
  <2>2. Locals(b) /\ b.count = n.count
    BY <2>1 DEF Locals, Fields
  <2>3. /\ Locals([n EXCEPT !.pc = "done"]) /\ [n EXCEPT !.pc = "done"].count = n.count
        /\ [n EXCEPT !.pc = "done"].pc = "done"
    BY <2>1 DEF Locals, Fields
  <2>4. out.calls \in Seq(STRING)
    BY <1>2 DEF OutputOf
  <2>5. After(l, out) \in {NextCall(n), LoopHead(b), [n EXCEPT !.pc = "done"]}
    BY <1>2 DEF After, AfterAsk, Begin
  <2> HIDE DEF n, b
  <2>6. CASE After(l, out) = NextCall(n)
    BY <2>6, <2>1, <2>4, <1>1, <1>2, NextCallOK
  <2>7. CASE After(l, out) = LoopHead(b)
    BY <2>7, <2>1, <2>2, <1>1, LoopHeadOK DEF LocalsOK
  <2>8. CASE After(l, out) = [n EXCEPT !.pc = "done"]
    BY <2>8, <2>1, <2>3, <1>1 DEF LocalsOK
  <2> QED BY <2>5, <2>6, <2>7, <2>8
<1>3. CASE l.pc = "act"
  <2> DEFINE n == [Counted(l) EXCEPT !.msgs    = Append(@, ToolMsg(Call(l), out)),
                                     !.records = Append(@, [call |-> Call(l), output |-> out]),
                                     !.k = @ + 1]
  <2>1. /\ Locals(n) /\ n.count = [l.count EXCEPT ![StepId(l)] = @ + 1]
        /\ n.k = l.k + 1 /\ n.reply = l.reply
    BY <1>1, CountedOK DEF LocalsOK, Locals, Fields
  <2>2. After(l, out) = NextCall(n)
    BY <1>3 DEF After, AfterAct
  <2>3. n.k \in Nat \ {0} /\ n.reply.calls \in Seq(STRING)
    BY <2>1, <1>3 DEF LocalsOK, Acting
  <2> HIDE DEF n
  <2> QED BY <2>1, <2>2, <2>3, <1>1, <1>3, NextCallOK
<1> QED BY <1>2, <1>3 DEF StepPc

LEMMA FreshOK == LocalsOK(Fresh) /\ Fresh.pc \in {"ask", "thrown"}
<1> DEFINE b == [pc |-> "ask", round |-> 1, count |-> [s \in StepIds |-> 0], it |-> 0,
                 msgs |-> <<User(1)>>, prev |-> 0, reply |-> NoReply, k |-> 0,
                 records |-> <<>>, usage |-> 0]
<1>1. Locals(b)
  BY DEF Locals, Fields
<1>2. Fresh = LoopHead(b)
  BY DEF Fresh, Begin
<1> HIDE DEF b
<1> QED BY <1>1, <1>2, LoopHeadOK DEF LocalsOK

-----------------------------------------------------------------------------
(* The invariant.  trail holds the position of the loop at every recorded   *)
(* step; a callback stands at one of these positions, whichever it is.      *)

Outcomes == [no : Nat, calls : Seq(STRING), used : Nat] \cup [no : Nat, call : Nat \X Nat]
Rows     == [key : StepIds \X Nat, out : Outcomes]

\* Each recorded step takes the loop from its position to the next.
Linked ==
  \A p \in 1 .. Len(steps) :
    /\ trail[p].pc \in StepPc /\ OutputOf(trail[p], steps[p].out)
    /\ steps[p].key = NextHash(trail[p])
    /\ trail[p + 1] = After(trail[p], steps[p].out)

\* A position has counted every step recorded before it.
CountedBefore ==
  \A p \in 1 .. Len(steps) + 1 : \A q \in 1 .. p - 1 :
    trail[p].count[steps[q].key[1]] > steps[q].key[2]

\* The reply whose tools are called is a recorded one.
ReplyRecorded ==
  \A p \in 1 .. Len(steps) + 1 : trail[p].pc = "act" =>
    \E q \in 1 .. p - 1 : steps[q].key[1] = LlmStep /\ steps[q].out = trail[p].reply

TrailOK ==
  /\ steps \in Seq(Rows) /\ trail[1] = Fresh
  /\ \A p \in 1 .. Len(steps) + 1 : LocalsOK(trail[p])
  /\ Linked /\ CountedBefore /\ ReplyRecorded

\* The step a callback executes is not among the recorded ones.
AtNewStep == cb.at.pc \in StepPc /\ NextHash(cb.at) \notin Keys
CallbackOK ==
  /\ cb = [st |-> cb.st, given |-> cb.given, at |-> cb.at, hits |-> cb.hits, answer |-> cb.answer]
  /\ cb.hits \in 0 .. Len(steps) /\ cb.at = trail[cb.hits + 1]
  /\ cb.st # "none" => cb.given = steps
  /\ cb.st = "executing" => AtNewStep
  /\ cb.st = "answered" /\ cb.answer.op = "StepComplete" =>
       AtNewStep /\ cb.answer.out \in Outcomes /\ OutputOf(cb.at, cb.answer.out)

AskedOK  == \A a \in asked : \E p \in 1 .. Len(steps) + 1 :
              trail[p].pc = "ask" /\ a = <<NextHash(trail[p]), trail[p].msgs>>
StraysOK == \A l \in strays : \E p \in 1 .. Len(steps) + 1 : l = trail[p] /\ l.pc \in StepPc

Inv == TrailOK /\ CallbackOK /\ AskedOK /\ StraysOK /\ DecisionDurable /\ execs \in Nat

-----------------------------------------------------------------------------
\* Two positions at which a step is due have different keys.
LEMMA KeysDiffer ==
  ASSUME TrailOK, NEW p \in 1 .. Len(steps) + 1, NEW q \in 1 .. p - 1, trail[p].pc \in StepPc
  PROVE  NextHash(trail[p]) # steps[q].key
<1>1. q \in 1 .. Len(steps) /\ steps[q] \in Rows
  BY DEF TrailOK
<1>2. trail[p].count[steps[q].key[1]] > steps[q].key[2]
  BY DEF TrailOK, CountedBefore
<1>3. trail[p].count[steps[q].key[1]] \in Nat /\ steps[q].key \in StepIds \X Nat
  BY <1>1 DEF TrailOK, LocalsOK, Locals, Rows
<1>4. ASSUME NextHash(trail[p]) = steps[q].key
      PROVE  FALSE
  <2>1. steps[q].key = <<StepId(trail[p]), trail[p].count[StepId(trail[p])]>>
    BY <1>4 DEF NextHash
  <2>2. steps[q].key[1] = StepId(trail[p]) /\ steps[q].key[2] = trail[p].count[StepId(trail[p])]
    BY <2>1
  <2> QED BY <1>2, <1>3, <2>2
<1> QED BY <1>4

\* The memo found under the key of a position is the one recorded there.
LEMMA MemoIsOwn ==
  ASSUME TrailOK, NEW p \in 1 .. Len(steps) + 1, trail[p].pc \in StepPc,
         NEW i \in 1 .. Len(steps), steps[i].key = NextHash(trail[p])
  PROVE  i = p
<1>1. ~ (i < p)
  BY KeysDiffer
<1>2. ASSUME p < i PROVE FALSE
  <2>1. steps[i].key = NextHash(trail[i]) /\ trail[i].pc \in StepPc /\ i \in 1 .. Len(steps) + 1
    BY DEF TrailOK, Linked
  <2>2. p \in 1 .. i - 1 /\ p \in 1 .. Len(steps) /\ steps[p].key = NextHash(trail[p])
    BY <1>2 DEF TrailOK, Linked
  <2> QED BY <2>1, <2>2, KeysDiffer
<1> QED BY <1>1, <1>2

\* A callback that has gone through fewer than all steps finds the next one.
LEMMA NewStepIsLast ==
  ASSUME TrailOK, CallbackOK, AtNewStep
  PROVE  cb.hits = Len(steps)
<1>1. ASSUME cb.hits < Len(steps) PROVE FALSE
  <2>1. cb.hits + 1 \in 1 .. Len(steps) /\ cb.hits + 1 \in DOMAIN steps
    BY <1>1 DEF CallbackOK, TrailOK
  <2>2. steps[cb.hits + 1].key = NextHash(cb.at)
    BY <2>1 DEF TrailOK, Linked, CallbackOK
  <2> QED BY <2>1, <2>2 DEF AtNewStep, Keys
<1> QED BY <1>1 DEF CallbackOK, TrailOK

-----------------------------------------------------------------------------
LEMMA InitInv == Init => Inv
<1> SUFFICES ASSUME Init PROVE Inv
  OBVIOUS
<1>1. Len(steps) = 0 /\ steps \in Seq(Rows) /\ trail[1] = Fresh
  BY DEF Init
<1>2. \A p \in 1 .. Len(steps) + 1 : p = 1
  BY <1>1
<1>3. TrailOK
  <2>1. Linked
    BY <1>1 DEF Linked
  <2>2. CountedBefore /\ ReplyRecorded
    BY <1>1, <1>2, FreshOK DEF CountedBefore, ReplyRecorded
  <2> QED BY <1>1, <1>2, <2>1, <2>2, FreshOK DEF TrailOK
<1>4. CallbackOK
  BY <1>1 DEF Init, CallbackOK, NoCallback
<1> QED BY <1>3, <1>4 DEF Inv, Init, AskedOK, StraysOK, DecisionDurable

\* A call the reply of a recorded step has asked for.
Decided(c) == \E i \in DOMAIN steps :
                steps[i].key[1] = LlmStep /\ steps[i].out.no = c[1] /\ c[2] \in DOMAIN steps[i].out.calls

LEMMA ActingIsDecided ==
  ASSUME TrailOK, NEW p \in 1 .. Len(steps) + 1, trail[p].pc = "act"
  PROVE  Decided(Call(trail[p]))
<1>1. PICK q \in 1 .. p - 1 : steps[q].key[1] = LlmStep /\ steps[q].out = trail[p].reply
  BY DEF TrailOK, ReplyRecorded
<1>2. Acting(trail[p])
  BY DEF TrailOK, LocalsOK
<1>3. trail[p].k \in DOMAIN trail[p].reply.calls
  BY <1>2 DEF Acting
<1>4. q \in DOMAIN steps
  BY DEF TrailOK
<1> QED BY <1>1, <1>3, <1>4 DEF Decided, Call

\* A step that leaves the log alone keeps what is said of the log.
LEMMA LogUnmoved ==
  ASSUME Inv, UNCHANGED <<steps, trail>>
  PROVE  /\ TrailOK'
         /\ asked' = asked => AskedOK'
         /\ strays' \subseteq strays => StraysOK'
         /\ acted' = acted => DecisionDurable'
<1>1. TrailOK'
  BY DEF Inv, TrailOK, Linked, CountedBefore, ReplyRecorded, NextHash, StepId, ToolName
<1>2. asked' = asked => AskedOK'
  BY DEF Inv, AskedOK, NextHash, StepId, ToolName
<1>3. strays' \subseteq strays => StraysOK'
  BY DEF Inv, StraysOK
<1>4. acted' = acted => DecisionDurable'
  BY DEF Inv, DecisionDurable
<1> QED BY <1>1, <1>2, <1>3, <1>4

\* The handler of a tool may be executed at a position of the trail.
LEMMA ActsDurably ==
  ASSUME Inv, UNCHANGED <<steps, trail>>, NEW p \in 1 .. Len(steps) + 1,
         acted' = IF trail[p].pc = "act" THEN acted \cup {Call(trail[p])} ELSE acted
  PROVE  DecisionDurable'
<1>1. trail[p].pc = "act" => Decided(Call(trail[p]))
  BY ActingIsDecided DEF Inv
<1> QED BY <1>1 DEF Inv, DecisionDurable, Decided

-----------------------------------------------------------------------------
LEMMA CallbackStep == Inv /\ Callback => Inv'
<1> SUFFICES ASSUME Inv, Callback PROVE Inv'
  OBVIOUS
<1>1. TrailOK' /\ AskedOK' /\ StraysOK' /\ DecisionDurable'
  BY LogUnmoved DEF Callback
<1>2. cb' = [st |-> "running", given |-> steps, at |-> Fresh, hits |-> 0, answer |-> NoOp]
  BY DEF Callback, NoCallback
<1>3. steps' = steps /\ trail' = trail /\ trail[1] = Fresh /\ Len(steps) \in Nat
  BY DEF Callback, Inv, TrailOK
<1>4. CallbackOK'
  BY <1>2, <1>3 DEF CallbackOK
<1> QED BY <1>1, <1>4 DEF Inv, Callback

LEMMA ReplayStep == Inv /\ Replay => Inv'
<1> SUFFICES ASSUME Inv, Replay PROVE Inv'
  OBVIOUS
<1>1. TrailOK' /\ AskedOK' /\ StraysOK' /\ DecisionDurable'
  BY LogUnmoved DEF Replay
<1>2. PICK i \in Given(NextHash(cb.at)) :
        cb' = [cb EXCEPT !.at = After(cb.at, cb.given[i].out), !.hits = @ + 1]
  BY DEF Replay
<1>3. /\ cb.st = "running" /\ cb.at = trail[cb.hits + 1] /\ cb.hits \in 0 .. Len(steps)
      /\ trail[cb.hits + 1].pc \in StepPc
      /\ i \in 1 .. Len(steps) /\ steps[i].key = NextHash(trail[cb.hits + 1])
      /\ cb.given[i] = steps[i]
  BY <1>2 DEF Replay, AtStep, Inv, CallbackOK, Given, TrailOK, StepPc
<1>4. i = cb.hits + 1
  BY <1>3, MemoIsOwn DEF Inv
<1>5. After(cb.at, cb.given[i].out) = trail[cb.hits + 2] /\ cb.hits + 1 \in 0 .. Len(steps)
  BY <1>3, <1>4 DEF Inv, TrailOK, Linked
<1>6. cb' = [st |-> "running", given |-> cb.given, at |-> trail[cb.hits + 2],
             hits |-> cb.hits + 1, answer |-> cb.answer]
  BY <1>2, <1>3, <1>5 DEF Inv, CallbackOK
<1>7. steps' = steps /\ trail' = trail /\ cb.given = steps /\ cb.hits \in Nat
  BY <1>3 DEF Replay, Inv, CallbackOK
<1>8. CallbackOK'
  BY <1>5, <1>6, <1>7 DEF CallbackOK
<1> QED BY <1>1, <1>8 DEF Inv, Replay

LEMMA ExecuteStep == Inv /\ Execute => Inv'
<1> SUFFICES ASSUME Inv, Execute PROVE Inv'
  OBVIOUS
<1>1. TrailOK' /\ StraysOK' /\ DecisionDurable'
  BY LogUnmoved DEF Execute
<1>2. cb.at = trail[cb.hits + 1] /\ cb.hits + 1 \in 1 .. Len(steps) + 1
  BY DEF Inv, CallbackOK, TrailOK
<1>3. AtNewStep
  BY DEF Execute, AtStep, AtNewStep, StepPc, Given, Keys, Inv, CallbackOK
<1>4. CallbackOK'
  <2>1. cb' = [st |-> "executing", given |-> cb.given, at |-> cb.at, hits |-> cb.hits,
               answer |-> cb.answer]
    BY DEF Execute, Inv, CallbackOK
  <2>2. steps' = steps /\ trail' = trail /\ cb.given = steps
    BY DEF Execute, AtStep, Inv, CallbackOK
  <2>3. AtNewStep'
    BY <1>3, <2>1, <2>2 DEF AtNewStep, Keys, NextHash, StepId, ToolName
  <2> QED BY <1>2, <2>1, <2>2, <2>3 DEF CallbackOK, Inv
<1>5. asked' \subseteq asked \cup {<<NextHash(cb.at), cb.at.msgs>>}
      /\ (cb.at.pc # "ask" => asked' = asked)
  BY DEF Execute
<1>6. AskedOK'
  <2>1. steps' = steps /\ trail' = trail
    BY DEF Execute
  <2>2. SUFFICES ASSUME NEW a \in asked'
                 PROVE \E p \in 1 .. Len(steps) + 1 :
                         trail[p].pc = "ask" /\ a = <<NextHash(trail[p]), trail[p].msgs>>
    BY <2>1 DEF AskedOK, NextHash, StepId, ToolName
  <2>3. CASE a \in asked
    BY <2>3 DEF Inv, AskedOK
  <2>4. CASE a \notin asked
    BY <1>2, <1>5, <2>4
  <2> QED BY <2>3, <2>4
<1> QED BY <1>1, <1>4, <1>6 DEF Inv, Execute

LEMMA OutputsOK ==
  ASSUME execs \in Nat, NEW l, l.pc = "act" => Acting(l), NEW o \in Outputs(l),
         Call(l) \in Nat \X Nat \/ l.pc = "ask"
  PROVE  o \in Outcomes /\ OutputOf(l, o)
<1>1. CASE l.pc = "ask"
  BY <1>1, AgentAssumption DEF Outputs, Outcomes, OutputOf
<1>2. CASE l.pc # "ask"
  BY <1>2 DEF Outputs, Outcomes, OutputOf
<1> QED BY <1>1, <1>2

\* A call is known by two numbers.
LEMMA CallType ==
  ASSUME TrailOK, NEW p \in 1 .. Len(steps) + 1, trail[p].pc = "act"
  PROVE  Call(trail[p]) \in Nat \X Nat
<1>1. PICK q \in 1 .. p - 1 : steps[q].out = trail[p].reply
  BY DEF TrailOK, ReplyRecorded
<1>2. steps[q] \in Rows
  BY DEF TrailOK
<1>3. trail[p].reply.no \in Nat
  BY <1>1, <1>2 DEF Rows, Outcomes
<1>4. trail[p].k \in Nat
  BY DEF TrailOK, LocalsOK, Acting
<1> QED BY <1>3, <1>4 DEF Call

LEMMA InterruptStep == Inv /\ Interrupt => Inv'
<1> SUFFICES ASSUME Inv, Interrupt PROVE Inv'
  OBVIOUS
<1>1. TrailOK' /\ AskedOK' /\ StraysOK'
  BY LogUnmoved DEF Interrupt
<1>2. /\ cb.at = trail[cb.hits + 1] /\ cb.hits + 1 \in 1 .. Len(steps) + 1
      /\ cb.given = steps /\ cb.st = "executing" /\ AtNewStep
      /\ steps' = steps /\ trail' = trail
  BY DEF Inv, CallbackOK, TrailOK, Interrupt
<1>3. DecisionDurable'
  BY <1>2, ActsDurably DEF Interrupt
<1>4. PICK a \in {[op |-> "StepComplete", out |-> o] : o \in Outputs(cb.at)} \cup {[op |-> "StepError"]} :
        cb' = [cb EXCEPT !.st = "answered", !.answer = a]
  BY DEF Interrupt
<1>5. cb' = [st |-> "answered", given |-> cb.given, at |-> cb.at, hits |-> cb.hits, answer |-> a]
  BY <1>4 DEF Inv, CallbackOK
<1>6. AtNewStep'
  BY <1>2, <1>5 DEF AtNewStep, Keys, NextHash, StepId, ToolName
<1>7. a.op = "StepComplete" => a.out \in Outputs(cb.at)
  BY <1>4
<1>8. a.op = "StepComplete" => a.out \in Outcomes /\ OutputOf(cb.at, a.out)
  BY <1>2, <1>7, OutputsOK, CallType DEF Inv, TrailOK, LocalsOK, AtNewStep, StepPc
<1>9. CallbackOK'
  BY <1>2, <1>5, <1>6, <1>8 DEF CallbackOK, Inv, OutputOf, Call
<1> QED BY <1>1, <1>3, <1>9 DEF Inv, Interrupt

LEMMA ReturnStep == Inv /\ Return => Inv'
<1> SUFFICES ASSUME Inv, Return PROVE Inv'
  OBVIOUS
<1>1. TrailOK' /\ AskedOK' /\ StraysOK' /\ DecisionDurable'
  BY LogUnmoved DEF Return
<1>2. PICK op \in {"RunComplete", "RunError"} :
        cb' = [st |-> "answered", given |-> cb.given, at |-> cb.at, hits |-> cb.hits,
               answer |-> [op |-> op]]
  BY DEF Inv, CallbackOK, Return
<1>3. steps' = steps /\ trail' = trail /\ cb.given = steps
  BY DEF Return, Inv, CallbackOK
<1>4. CallbackOK'
  BY <1>2, <1>3 DEF CallbackOK, Inv
<1> QED BY <1>1, <1>4 DEF Inv, Return

\* The three ways a callback ends without a record.
LEMMA CallbackGoneStep ==
  ASSUME Inv, UNCHANGED <<steps, trail, asked, acted, execs>>, cb' = NoCallback,
         StraysOK'
  PROVE  Inv'
<1>1. TrailOK' /\ AskedOK' /\ DecisionDurable'
  BY LogUnmoved
<1>2. CallbackOK'
  BY <1>1, cb' = [st |-> "none", given |-> <<>>, at |-> Fresh, hits |-> 0, answer |-> NoOp]
     DEF CallbackOK, TrailOK, NoCallback
<1> QED BY <1>1, <1>2 DEF Inv

LEMMA EndStep == Inv /\ (Complete \/ Fail \/ Lose) => Inv'
<1> SUFFICES ASSUME Inv, Complete \/ Fail \/ Lose PROVE Inv'
  OBVIOUS
<1>1. UNCHANGED <<steps, trail, asked, acted, execs>> /\ cb' = NoCallback
  BY DEF Complete, Fail, Lose, RetryOrFail
<1>2. strays' = strays \/ (strays' = strays \cup {cb.at} /\ cb.st = "executing")
  BY DEF Complete, Fail, Lose
<1>3. /\ cb.at = trail[cb.hits + 1] /\ cb.hits + 1 \in 1 .. Len(steps) + 1
      /\ cb.st = "executing" => cb.at.pc \in StepPc
  BY DEF Inv, CallbackOK, TrailOK, AtNewStep
<1>4. StraysOK'
  BY <1>1, <1>2, <1>3 DEF Inv, StraysOK
<1> QED BY <1>1, <1>4, CallbackGoneStep

LEMMA StrayEndsStep == Inv /\ StrayEnds => Inv'
<1> SUFFICES ASSUME Inv, StrayEnds PROVE Inv'
  OBVIOUS
<1>1. PICK l \in strays :
        /\ strays' = strays \ {l}
        /\ acted' = IF l.pc = "act" THEN acted \cup {Call(l)} ELSE acted
        /\ UNCHANGED <<run, steps, cb, execs, lost, asked, trail>>
  BY DEF StrayEnds
<1>2. PICK p \in 1 .. Len(steps) + 1 : l = trail[p]
  BY DEF Inv, StraysOK
<1>3. TrailOK' /\ AskedOK' /\ StraysOK'
  BY <1>1, LogUnmoved
<1>4. DecisionDurable'
  BY <1>1, <1>2, ActsDurably
<1>5. CallbackOK'
  BY <1>1 DEF Inv, CallbackOK, AtNewStep, Keys, NextHash, StepId, ToolName, OutputOf, Call
<1> QED BY <1>1, <1>3, <1>4, <1>5 DEF Inv

LEMMA RecordStep == Inv /\ Record => Inv'
<1> SUFFICES ASSUME Inv, Record PROVE Inv'
  OBVIOUS
<1> DEFINE n == Len(steps)
           l == trail[n + 1]
           e == [key |-> NextHash(cb.at), out |-> cb.answer.out]
<1>1. /\ n \in Nat /\ cb.at = l /\ AtNewStep
      /\ e.out \in Outcomes /\ OutputOf(l, e.out) /\ e.key = NextHash(l)
  BY NewStepIsLast DEF Inv, CallbackOK, TrailOK, Record
<1>2. /\ steps' = Append(steps, e) /\ cb' = NoCallback
      /\ trail' = [p \in 1 .. n + 2 |-> IF p = n + 2 THEN After(l, e.out) ELSE trail[p]]
      /\ UNCHANGED <<strays, asked, acted, execs>>
  BY <1>1 DEF Record, AtNewStep
<1>3. LocalsOK(l) /\ l.pc \in StepPc
  BY <1>1 DEF Inv, TrailOK, AtNewStep
<1>4. /\ LocalsOK(After(l, e.out)) /\ StepId(l) \in StepIds
      /\ After(l, e.out).count = [l.count EXCEPT ![StepId(l)] = @ + 1]
      /\ After(l, e.out).pc = "act" => After(l, e.out).reply = IF l.pc = "ask" THEN e.out ELSE l.reply
  BY <1>1, <1>3, AfterOK
<1>5. e.key = <<StepId(l), l.count[StepId(l)]>> /\ l.count \in [StepIds -> Nat]
  BY <1>1, <1>3 DEF NextHash, LocalsOK, Locals
<1>6. e \in Rows
  BY <1>1, <1>4, <1>5 DEF Rows
<1> HIDE DEF e
<1>7. /\ Len(steps') = n + 1 /\ steps' \in Seq(Rows)
      /\ \A p \in 1 .. n : steps'[p] = steps[p]
      /\ steps'[n + 1] = e
  BY <1>1, <1>2, <1>6 DEF Inv, TrailOK
<1>8. /\ \A p \in 1 .. n + 1 : trail'[p] = trail[p]
      /\ trail'[n + 2] = After(l, e.out)
  BY <1>1, <1>2
<1>9. \A p \in 1 .. n + 2 : p \in 1 .. n + 1 \/ p = n + 2
  BY <1>1
<1>10. TrailOK'
  <2>1. trail'[1] = Fresh /\ \A p \in 1 .. n + 2 : LocalsOK(trail'[p])
    BY <1>1, <1>4, <1>8, <1>9 DEF Inv, TrailOK
  <2>2. ASSUME NEW p \in 1 .. n + 1
        PROVE  /\ trail'[p].pc \in StepPc /\ OutputOf(trail'[p], steps'[p].out)
               /\ steps'[p].key = NextHash(trail'[p])
               /\ trail'[p + 1] = After(trail'[p], steps'[p].out)
    <3>1. CASE p \in 1 .. n
      BY <1>1, <1>7, <1>8, <3>1 DEF Inv, TrailOK, Linked
    <3>2. CASE p = n + 1
      BY <1>1, <1>3, <1>7, <1>8, <3>2
    <3> QED BY <3>1, <3>2, <1>1
  <2>3. ASSUME NEW p \in 1 .. n + 2, NEW q \in 1 .. p - 1
        PROVE  trail'[p].count[steps'[q].key[1]] > steps'[q].key[2]
    <3>1. CASE p \in 1 .. n + 1
      <4>1. q \in 1 .. n /\ steps'[q] = steps[q] /\ trail'[p] = trail[p]
        BY <1>1, <1>7, <1>8, <3>1
      <4>2. trail[p].count[steps[q].key[1]] > steps[q].key[2]
        BY <1>1, <3>1 DEF Inv, TrailOK, CountedBefore
      <4> QED BY <4>1, <4>2
    <3>2. CASE p = n + 2 /\ q \in 1 .. n
      <4>1. l.count[steps[q].key[1]] > steps[q].key[2] /\ steps[q] \in Rows
        BY <1>1, <3>2 DEF Inv, TrailOK, CountedBefore
      <4>2. steps[q].key[1] \in StepIds /\ steps[q].key[2] \in Nat
        BY <4>1 DEF Rows
      <4>3. After(l, e.out).count[steps[q].key[1]] > steps[q].key[2]
        <5>1. CASE steps[q].key[1] = StepId(l)
          BY <1>4, <1>5, <4>1, <4>2, <5>1
        <5>2. CASE steps[q].key[1] # StepId(l)
          BY <1>4, <1>5, <4>1, <4>2, <5>2
        <5> QED BY <5>1, <5>2
      <4> QED BY <1>7, <1>8, <3>2, <4>3
    <3>3. CASE p = n + 2 /\ q = n + 1
      BY <1>4, <1>5, <1>7, <1>8, <3>3
    <3> QED BY <1>9, <3>1, <3>2, <3>3, <1>1
  <2>4. ASSUME NEW p \in 1 .. n + 2, trail'[p].pc = "act"
        PROVE  \E q \in 1 .. p - 1 : steps'[q].key[1] = LlmStep /\ steps'[q].out = trail'[p].reply
    <3>1. CASE p \in 1 .. n + 1
      <4>1. PICK q \in 1 .. p - 1 : steps[q].key[1] = LlmStep /\ steps[q].out = trail[p].reply
        BY <1>8, <3>1, <2>4 DEF Inv, TrailOK, ReplyRecorded
      <4> QED BY <1>1, <1>7, <1>8, <3>1, <4>1
    <3>2. CASE p = n + 2 /\ l.pc = "ask"
      <4>1. e.key[1] = LlmStep
        BY <1>5, <3>2 DEF StepId
      <4>2. trail'[p].reply = e.out
        BY <1>4, <1>8, <3>2, <2>4
      <4> QED BY <1>1, <1>7, <3>2, <4>1, <4>2
    <3>3. CASE p = n + 2 /\ l.pc = "act"
      <4>1. PICK q \in 1 .. n : steps[q].key[1] = LlmStep /\ steps[q].out = l.reply
        BY <1>1, <3>3 DEF Inv, TrailOK, ReplyRecorded
      <4>2. trail'[p].reply = l.reply
        BY <1>4, <1>8, <3>3, <2>4
      <4> QED BY <1>1, <1>7, <3>3, <4>1, <4>2
    <3> QED BY <1>3, <1>9, <3>1, <3>2, <3>3 DEF StepPc
  <2>5. Linked'
    BY <1>7, <2>2 DEF Linked, NextHash, StepId, ToolName, OutputOf, Call
  <2>6. CountedBefore'
    BY <1>1, <1>7, <2>3 DEF CountedBefore
  <2>7. ReplyRecorded'
    BY <1>1, <1>7, <2>4 DEF ReplyRecorded
  <2> QED BY <1>1, <1>7, <2>1, <2>5, <2>6, <2>7 DEF TrailOK
<1>11. CallbackOK'
  BY <1>2, <1>10, cb' = [st |-> "none", given |-> <<>>, at |-> Fresh, hits |-> 0, answer |-> NoOp]
     DEF CallbackOK, TrailOK, NoCallback
<1>12. AskedOK'
  <2>0. Len(steps') + 1 = n + 2 /\ asked' = asked
    BY <1>1, <1>2, <1>7
  <2>1. SUFFICES ASSUME NEW a \in asked
                 PROVE \E p \in 1 .. n + 2 :
                         trail'[p].pc = "ask" /\ a = <<NextHash(trail'[p]), trail'[p].msgs>>
    BY <2>0 DEF AskedOK, NextHash, StepId, ToolName
  <2>2. PICK p \in 1 .. n + 1 : trail[p].pc = "ask" /\ a = <<NextHash(trail[p]), trail[p].msgs>>
    BY DEF Inv, AskedOK
  <2> QED BY <1>1, <1>8, <2>2
<1>13. StraysOK'
  BY <1>1, <1>2, <1>7, <1>8 DEF Inv, StraysOK
<1>14. DecisionDurable'
  <2>1. acted' = acted /\ DOMAIN steps = 1 .. n /\ DOMAIN steps' = 1 .. n + 1
    BY <1>1, <1>2, <1>7 DEF Inv, TrailOK
  <2>2. SUFFICES ASSUME NEW c \in acted
                 PROVE \E i \in 1 .. n + 1 : /\ steps'[i].key[1] = LlmStep
                                             /\ steps'[i].out.no = c[1]
                                             /\ c[2] \in DOMAIN steps'[i].out.calls
    BY <2>1 DEF DecisionDurable
  <2>3. PICK i \in 1 .. n : /\ steps[i].key[1] = LlmStep /\ steps[i].out.no = c[1]
                            /\ c[2] \in DOMAIN steps[i].out.calls
    BY <2>1 DEF Inv, DecisionDurable
  <2>4. i \in 1 .. n + 1 /\ steps'[i] = steps[i]
    BY <1>1, <1>7
  <2> QED BY <2>3, <2>4
<1> QED BY <1>2, <1>10, <1>11, <1>12, <1>13, <1>14 DEF Inv

\* The attempt, the end of the run and the count of losses play no part.
LEMMA InvPreserved == Inv /\ [Next]_vars => Inv'
<1> SUFFICES ASSUME Inv, [Next]_vars PROVE Inv'
  OBVIOUS
<1>1. CASE Callback   BY <1>1, CallbackStep
<1>2. CASE Replay     BY <1>2, ReplayStep
<1>3. CASE Execute    BY <1>3, ExecuteStep
<1>4. CASE Interrupt  BY <1>4, InterruptStep
<1>5. CASE Return     BY <1>5, ReturnStep
<1>6. CASE Record     BY <1>6, RecordStep
<1>7. CASE Complete \/ Fail \/ Lose  BY <1>7, EndStep
<1>8. CASE StrayEnds  BY <1>8, StrayEndsStep
<1>9. CASE UNCHANGED vars
  <2>1. TrailOK' /\ AskedOK' /\ StraysOK' /\ DecisionDurable'
    BY <1>9, LogUnmoved DEF vars
  <2>2. CallbackOK'
    BY <1>9 DEF vars, Inv, CallbackOK, AtNewStep, Keys, NextHash, StepId, ToolName, OutputOf, Call
  <2> QED BY <1>9, <2>1, <2>2 DEF vars, Inv
<1> QED BY <1>1, <1>2, <1>3, <1>4, <1>5, <1>6, <1>7, <1>8, <1>9 DEF Next

\* What is recorded of an agent run determines where its loop stands, and the
\* callbacks and strays on their way agree with it (agent.ts, execx.ts).
THEOREM AgentInvariant == Spec => []Inv
<1> QED BY InitInv, InvPreserved, PTL DEF Spec

-----------------------------------------------------------------------------
\* Whenever a step of the model is executed again, it is asked the same
\* question: a key belongs to one position of the trail.
THEOREM SameQuestionAlways == Spec => []SameQuestion
<1>1. Inv => SameQuestion
  <2> SUFFICES ASSUME Inv, NEW a \in asked, NEW b \in asked, a[1] = b[1]
               PROVE  a[2] = b[2]
    BY DEF SameQuestion
  <2>1. PICK p \in 1 .. Len(steps) + 1 :
          trail[p].pc = "ask" /\ a = <<NextHash(trail[p]), trail[p].msgs>>
    BY DEF Inv, AskedOK
  <2>2. PICK q \in 1 .. Len(steps) + 1 :
          trail[q].pc = "ask" /\ b = <<NextHash(trail[q]), trail[q].msgs>>
    BY DEF Inv, AskedOK
  <2>3. NextHash(trail[p]) = NextHash(trail[q])
    BY <2>1, <2>2
  <2>4. ASSUME NEW r \in 1 .. Len(steps) + 1, NEW s \in 1 .. Len(steps) + 1, s < r,
               trail[r].pc = "ask", NextHash(trail[r]) = NextHash(trail[s])
        PROVE  FALSE
    <3>1. s \in 1 .. r - 1 /\ s \in 1 .. Len(steps)
      BY <2>4 DEF Inv, TrailOK
    <3>2. steps[s].key = NextHash(trail[s])
      BY <3>1 DEF Inv, TrailOK, Linked
    <3> QED BY <2>4, <3>1, <3>2, KeysDiffer DEF Inv, StepPc
  <2>5. p = q
    BY <2>1, <2>2, <2>3, <2>4
  <2> QED BY <2>1, <2>2, <2>5
<1> QED BY <1>1, AgentInvariant, PTL

\* No tool acts, not even as a stray, unless a recorded reply asked for the call.
THEOREM DecisionDurableAlways == Spec => []DecisionDurable
<1>1. Inv => DecisionDurable
  BY DEF Inv
<1> QED BY <1>1, AgentInvariant, PTL

\* What is recorded stays: an answer is recorded only under a new key.
THEOREM RecordedStaysAlways == Spec => RecordedStays
<1>1. Inv /\ [Next]_vars => SubSeq(steps', 1, Len(steps)) = steps
  <2> SUFFICES ASSUME Inv, [Next]_vars PROVE SubSeq(steps', 1, Len(steps)) = steps
    OBVIOUS
  <2>1. steps \in Seq(Rows)
    BY DEF Inv, TrailOK
  <2>2. CASE Record
    <3>1. AtNewStep
      BY <2>2 DEF Record, Inv, CallbackOK
    <3>2. PICK e : steps' = Append(steps, e)
      BY <2>2, <3>1 DEF Record, AtNewStep
    <3> QED BY <2>1, <3>2
  <2>3. CASE UNCHANGED steps
    BY <2>1, <2>3
  <2> QED BY <2>2, <2>3 DEF Next, vars, Callback, Replay, Execute, Interrupt, Return,
             Complete, Fail, Lose, StrayEnds
<1> QED BY <1>1, AgentInvariant, PTL DEF Spec, RecordedStays
-----------------------------------------------------------------------------
(* Every tool message and every record holds the output of its own call.    *)

IsSequence(s) == s \in Seq({s[i] : i \in DOMAIN s})
OwnMsgs(m)    == IsSequence(m) /\ \A i \in DOMAIN m : m[i].role = "tool" => m[i].output.call = m[i].call
OwnRecords(s) == IsSequence(s) /\ \A i \in DOMAIN s : s[i].output.call = s[i].call

\* A hook may drop, reorder, reword and add messages, but puts no output under
\* another call.
HonestHook == \A msgs, it, prev : OwnMsgs(msgs) => OwnMsgs(Prepare(msgs, it, prev))

LoopPcs  == {"ask", "act", "done", "thrown"}
Owned(l) == l.pc \in LoopPcs /\ OwnRecords(l.records) /\ (HonestHook => OwnMsgs(l.msgs))

\* A sequence is one over its own elements.
LEMMA OwnElements ==
  ASSUME NEW S, NEW t \in Seq(S)
  PROVE  IsSequence(t)
<1> DEFINE T == {t[i] : i \in DOMAIN t}
<1>1. t \in [1 .. Len(t) -> S] /\ Len(t) \in Nat /\ DOMAIN t = 1 .. Len(t)
  BY LenProperties
<1>2. t \in [1 .. Len(t) -> T]
  BY <1>1
<1>3. t \in Seq(T)
  BY <1>1, <1>2, SeqDef
<1> QED BY <1>3 DEF IsSequence

\* What is appended is the last element, and the others stay.
LEMMA AppendOne ==
  ASSUME NEW s, IsSequence(s), NEW x
  PROVE  /\ IsSequence(Append(s, x))
         /\ \A i \in DOMAIN Append(s, x) : (i \in DOMAIN s /\ Append(s, x)[i] = s[i]) \/ Append(s, x)[i] = x
<1> DEFINE S == {s[i] : i \in DOMAIN s} \cup {x}
           t == Append(s, x)
<1>1. s \in Seq(S)
  BY DEF IsSequence
<1>2. t \in Seq(S) /\ Len(t) = Len(s) + 1 /\ t[Len(s) + 1] = x /\ \A i \in 1 .. Len(s) : t[i] = s[i]
  BY <1>1
<1>3. DOMAIN s = 1 .. Len(s) /\ DOMAIN t = 1 .. Len(s) + 1 /\ Len(s) \in Nat
  BY <1>1, <1>2
<1>4. \A i \in DOMAIN t : (i \in DOMAIN s /\ t[i] = s[i]) \/ t[i] = x
  BY <1>2, <1>3
<1>5. IsSequence(t)
  BY <1>2, OwnElements
<1> QED BY <1>4, <1>5

\* The head of the loop only leaves the history to the hook.
LEMMA LoopHeadOwned ==
  ASSUME NEW l, Locals(l), OwnRecords(l.records), HonestHook => OwnMsgs(l.msgs)
  PROVE  Owned(LoopHead(l))
<1> DEFINE msgs == Prepare(l.msgs, l.it, l.prev)
<1>1. HonestHook => OwnMsgs(msgs)
  BY DEF HonestHook
<1>2. LoopHead(l) \in {[l EXCEPT !.pc = "thrown"], [l EXCEPT !.pc = "ask", !.msgs = msgs]}
  BY DEF LoopHead
<1> HIDE DEF msgs
<1>3. CASE LoopHead(l) = [l EXCEPT !.pc = "thrown"]
  <2>1. LoopHead(l).pc = "thrown" /\ LoopHead(l).records = l.records /\ LoopHead(l).msgs = l.msgs
    BY <1>3 DEF Locals, Fields
  <2> QED BY <2>1 DEF Owned, LoopPcs
<1>4. CASE LoopHead(l) = [l EXCEPT !.pc = "ask", !.msgs = msgs]
  <2>1. LoopHead(l).pc = "ask" /\ LoopHead(l).records = l.records /\ LoopHead(l).msgs = msgs
    BY <1>4 DEF Locals, Fields
  <2> QED BY <1>1, <2>1 DEF Owned, LoopPcs
<1> QED BY <1>2, <1>3, <1>4

\* The way to the next tool call leaves it alone, or leads to the head.
LEMMA NextCallOwned ==
  ASSUME NEW l, Locals(l), OwnRecords(l.records), HonestHook => OwnMsgs(l.msgs)
  PROVE  Owned(NextCall(l))
<1> DEFINE m == [l EXCEPT !.it = @ + 1]
<1>1. Locals(m) /\ m.records = l.records /\ m.msgs = l.msgs
  BY DEF Locals, Fields
<1>2. NextCall(l) \in {LoopHead(m), [l EXCEPT !.pc = "thrown"], [l EXCEPT !.pc = "act"]}
  BY DEF NextCall
<1> HIDE DEF m
<1>3. CASE NextCall(l) = LoopHead(m)
  BY <1>1, <1>3, LoopHeadOwned
<1>4. ASSUME NEW to \in {"thrown", "act"}, NextCall(l) = [l EXCEPT !.pc = to] PROVE Owned(NextCall(l))
  <2>1. NextCall(l).pc = to /\ NextCall(l).records = l.records /\ NextCall(l).msgs = l.msgs
    BY <1>4 DEF Locals, Fields
  <2> QED BY <2>1 DEF Owned, LoopPcs
<1> QED BY <1>2, <1>3, <1>4

\* The start of a round has a user message and no record.
LEMMA BeginOwned ==
  ASSUME NEW round, NEW count \in [StepIds -> Nat]
  PROVE  Owned(Begin(round, count))
<1> DEFINE b == [pc |-> "ask", round |-> round, count |-> count, it |-> 0, msgs |-> <<User(round)>>,
                 prev |-> 0, reply |-> NoReply, k |-> 0, records |-> <<>>, usage |-> 0]
<1>1. Locals(b) /\ b.records = <<>> /\ b.msgs = <<User(round)>>
  BY DEF Locals, Fields
<1>2. OwnRecords(<<>>)
  BY DEF OwnRecords, IsSequence
<1>3. OwnMsgs(<<User(round)>>)
  <2> DEFINE u == User(round)
  <2>1. u.role = "user"
    BY DEF User
  <2> HIDE DEF u
  <2>2. DOMAIN <<u>> = {1} /\ <<u>>[1] = u
    OBVIOUS
  <2>3. {<<u>>[i] : i \in DOMAIN <<u>>} = {u}
    BY <2>2
  <2>4. <<u>> \in Seq({u})
    OBVIOUS
  <2>5. OwnMsgs(<<u>>)
    BY <2>1, <2>2, <2>3, <2>4 DEF OwnMsgs, IsSequence
  <2> QED BY <2>5 DEF u
<1>4. Begin(round, count) = LoopHead(b)
  BY DEF Begin
<1> HIDE DEF b
<1> QED BY <1>1, <1>2, <1>3, <1>4, LoopHeadOwned

\* A step adds a message without an output, or the output of its own call.
LEMMA AfterOwned ==
  ASSUME NEW l, LocalsOK(l), l.pc \in StepPc, Owned(l), NEW out, OutputOf(l, out)
  PROVE  Owned(After(l, out))
<1>1. StepId(l) \in StepIds
  BY DEF StepId, StepIds, LocalsOK, Acting, StepPc
<1>2. CASE l.pc = "ask"
  <2> DEFINE n == [Counted(l) EXCEPT !.msgs = Append(@, Assistant(out)), !.usage = @ + out.used,
                                     !.prev = out.used, !.reply = out, !.k = 1]
             d == [n EXCEPT !.pc = "done"]
  <2>1. /\ Locals(n) /\ n.records = l.records /\ n.msgs = Append(l.msgs, Assistant(out))
        /\ d.pc = "done" /\ d.records = n.records /\ d.msgs = n.msgs
    BY <1>1, CountedOK DEF LocalsOK, Locals, Fields, Counted
  <2>2. After(l, out) \in {NextCall(n), Begin(l.round + 1, n.count), d}
    BY <1>2 DEF After, AfterAsk
  <2> HIDE DEF n, d
  <2>3. HonestHook => OwnMsgs(n.msgs)
    <3>1. Assistant(out).role = "assistant"
      BY DEF Assistant
    <3> QED BY <2>1, <3>1, AppendOne DEF Owned, OwnMsgs
  <2>4. OwnRecords(n.records)
    BY <2>1 DEF Owned
  <2>5. n.count \in [StepIds -> Nat]
    BY <2>1 DEF Locals
  <2>6. Owned(d)
    BY <2>1, <2>3, <2>4 DEF Owned, LoopPcs
  <2> QED BY <2>1, <2>2, <2>3, <2>4, <2>5, <2>6, NextCallOwned, BeginOwned
<1>3. CASE l.pc = "act"
  <2> DEFINE msg == ToolMsg(Call(l), out)
             rec == [call |-> Call(l), output |-> out]
             n == [Counted(l) EXCEPT !.msgs = Append(@, ToolMsg(Call(l), out)),
                                     !.records = Append(@, [call |-> Call(l), output |-> out]), !.k = @ + 1]
  <2>1. Locals(n) /\ n.records = Append(l.records, rec) /\ n.msgs = Append(l.msgs, msg)
    BY <1>1, CountedOK DEF LocalsOK, Locals, Fields, Counted
  <2>2. After(l, out) = NextCall(n)
    BY <1>3 DEF After, AfterAct
  <2>3. msg.output.call = msg.call /\ rec.output.call = rec.call
    BY <1>3 DEF OutputOf, ToolMsg
  <2> HIDE DEF n, msg, rec
  <2>4. OwnRecords(n.records)
    BY <2>1, <2>3, AppendOne DEF Owned, OwnRecords
  <2>5. HonestHook => OwnMsgs(n.msgs)
    BY <2>1, <2>3, AppendOne DEF Owned, OwnMsgs
  <2> QED BY <2>1, <2>2, <2>4, <2>5, NextCallOwned
<1> QED BY <1>2, <1>3 DEF StepPc

-----------------------------------------------------------------------------
(* So it is of every position of the trail; and the attempts are counted.   *)

\* Every attempt but the one under way, and those the limit allows, was followed
\* by a record or was lost.
AttemptsOK ==
  /\ run = [st |-> run.st, attempt |-> run.attempt, output |-> run.output]
  /\ run.st \in {"Queued", "Running", "Completed", "Failed"} /\ run.attempt \in Nat
  /\ run.attempt <= MaxAttempts + Len(steps) + lost + 1
  /\ cb.st = "none" /\ run.st \in {"Queued", "Running"} => run.attempt <= MaxAttempts + Len(steps) + lost
  /\ cb.st \in {"none", "running", "executing", "answered"}
  /\ lost \in 0 .. MaxLost

OwnInv == AttemptsOK /\ \A p \in 1 .. Len(steps) + 1 : Owned(trail[p])

\* The run begins with the loop at its head and nothing recorded.
LEMMA OwnInit == Init => OwnInv
<1> SUFFICES ASSUME Init PROVE OwnInv
  OBVIOUS
<1>1. Len(steps) = 0 /\ trail[1] = Fresh
  BY DEF Init
<1>2. Owned(Fresh)
  BY BeginOwned DEF Fresh
<1>3. AttemptsOK
  BY <1>1, RunAssumption DEF Init, AttemptsOK, NoCallback
<1> QED BY <1>1, <1>2, <1>3 DEF OwnInv

\* A callback counts an attempt; it ends with a record, a loss or a look at the limit.
LEMMA AttemptsKept == Inv /\ AttemptsOK /\ [Next]_vars => AttemptsOK'
<1> SUFFICES ASSUME Inv, AttemptsOK, [Next]_vars PROVE AttemptsOK'
  OBVIOUS
<1>0. /\ MaxAttempts \in Nat /\ MaxLost \in Nat /\ Len(steps) \in Nat
      /\ cb = [st |-> cb.st, given |-> cb.given, at |-> cb.at, hits |-> cb.hits, answer |-> cb.answer]
  BY RunAssumption DEF Inv, TrailOK, CallbackOK
<1> USE <1>0 DEF AttemptsOK
<1>1. CASE Callback
  <2>1. /\ cb.st = "none" /\ run.st \in {"Queued", "Running"} /\ UNCHANGED <<steps, lost>>
        /\ run' = [st |-> "Running", attempt |-> run.attempt + 1, output |-> run.output]
    BY <1>1 DEF Callback
  <2>2. cb'.st = "running"
    BY <1>1 DEF Callback, NoCallback
  <2> QED BY <2>1, <2>2
<1>2. CASE Replay \/ Execute \/ Interrupt \/ Return
  <2>1. UNCHANGED <<run, steps, lost>> /\ cb'.st \in {"running", "executing", "answered"}
    BY <1>2 DEF Replay, AtStep, Execute, Interrupt, Return
  <2> QED BY <2>1
<1>3. CASE Record
  <2>1. AtNewStep
    BY <1>3 DEF Record, Inv, CallbackOK
  <2>2. PICK e : steps' = Append(steps, e)
    BY <1>3, <2>1 DEF Record, AtNewStep
  <2>3. Len(steps') = Len(steps) + 1
    BY <2>2 DEF Inv, TrailOK
  <2>4. UNCHANGED <<run, lost>> /\ cb'.st = "none"
    BY <1>3 DEF Record, NoCallback
  <2> QED BY <2>3, <2>4
<1>4. CASE Complete
  BY <1>4 DEF Complete, NoCallback
<1>5. CASE Fail
  BY <1>5 DEF Fail, RetryOrFail, NoCallback
<1>6. CASE Lose
  BY <1>6 DEF Lose, RetryOrFail, NoCallback
<1>7. CASE StrayEnds \/ UNCHANGED vars
  <2>1. UNCHANGED <<run, steps, cb, lost>>
    BY <1>7 DEF StrayEnds, vars
  <2> QED BY <2>1
<1> QED BY <1>1, <1>2, <1>3, <1>4, <1>5, <1>6, <1>7 DEF Next

\* Only a record adds a position to the trail, one step after the last.
LEMMA OwnNext == Inv /\ OwnInv /\ [Next]_vars => OwnInv'
<1> SUFFICES ASSUME Inv, OwnInv, [Next]_vars PROVE OwnInv'
  OBVIOUS
<1>1. AttemptsOK'
  BY AttemptsKept DEF OwnInv
<1>2. CASE Record
  <2> DEFINE n == Len(steps)
             l == trail[n + 1]
             out == cb.answer.out
  <2>1. /\ n \in Nat /\ cb.at = l /\ AtNewStep /\ OutputOf(l, out) /\ LocalsOK(l) /\ l.pc \in StepPc
    BY <1>2, NewStepIsLast DEF Inv, CallbackOK, TrailOK, Record, AtNewStep
  <2>2. Owned(l)
    BY <2>1 DEF OwnInv
  <2>3. PICK e : steps' = Append(steps, e)
    BY <1>2, <2>1 DEF Record, AtNewStep
  <2>4. Len(steps') = n + 1
    BY <2>3 DEF Inv, TrailOK
  <2>5. trail' = [p \in 1 .. n + 2 |-> IF p = n + 2 THEN After(l, out) ELSE trail[p]]
    BY <1>2, <2>1 DEF Record
  <2>6. Owned(After(l, out))
    BY <2>1, <2>2, AfterOwned
  <2> HIDE DEF l, out
  <2>7. ASSUME NEW p \in 1 .. n + 2 PROVE Owned(trail'[p])
    <3>1. CASE p = n + 2
      BY <2>1, <2>5, <2>6, <3>1
    <3>2. CASE p # n + 2
      <4>1. p \in 1 .. n + 1 /\ trail'[p] = trail[p]
        BY <2>1, <2>5, <3>2
      <4> QED BY <4>1 DEF OwnInv
    <3> QED BY <3>1, <3>2
  <2> QED BY <1>1, <2>1, <2>4, <2>7 DEF OwnInv, Owned
<1>3. CASE UNCHANGED <<steps, trail>>
  BY <1>1, <1>3 DEF OwnInv, Owned
<1> QED BY <1>2, <1>3 DEF Next, vars, Callback, Replay, Execute, Interrupt, Return, Complete, Fail, Lose,
         StrayEnds

\* Both invariants hold throughout.
LEMMA OwnHolds == Spec => [](Inv /\ OwnInv)
<1> QED BY InitInv, InvPreserved, OwnInit, OwnNext, PTL DEF Spec

\* The variables keep their types, and every attempt beyond the limit was
\* earned by a recorded step or is owed to a lost answer.
THEOREM AgentTypesHold == Spec => []TypeOK
<1>1. Inv /\ OwnInv => TypeOK
  <2> SUFFICES ASSUME Inv, OwnInv PROVE TypeOK
    OBVIOUS
  <2>1. /\ Len(steps) \in Nat /\ MaxAttempts \in Nat
        /\ cb.hits \in 0 .. Len(steps) /\ cb.at = trail[cb.hits + 1]
    BY RunAssumption DEF Inv, TrailOK, CallbackOK
  <2>2. run.attempt \in 0 .. MaxAttempts + Len(steps) + lost + 1
    BY <2>1 DEF OwnInv, AttemptsOK
  <2>3. \A h \in Keys : h \in StepIds \X Nat
    <3>1. \A i \in DOMAIN steps : steps[i] \in Rows
      BY DEF Inv, TrailOK
    <3> QED BY <3>1 DEF Keys, Rows
  <2>4. cb.at.pc \in {"ask", "act", "done", "thrown"}
    BY <2>1 DEF OwnInv, Owned, LoopPcs
  <2> QED BY <2>1, <2>2, <2>3, <2>4 DEF TypeOK, Inv, OwnInv, AttemptsOK, StraysOK, StepPc
<1> QED BY <1>1, OwnHolds, PTL

\* Under a hook that puts no output under another call, every history the model
\* is asked with, and every record, holds the output of its own tool call.
THEOREM OwnOutputAlways == ASSUME HonestHook PROVE Spec => []OwnOutput
<1>1. Inv /\ OwnInv => OwnOutput
  <2> SUFFICES ASSUME Inv, OwnInv PROVE OwnOutput
    OBVIOUS
  <2>1. \A p \in 1 .. Len(steps) + 1 : OwnRecords(trail[p].records) /\ OwnMsgs(trail[p].msgs)
    BY DEF OwnInv, Owned
  <2>2. ASSUME NEW a \in asked PROVE OwnMsgs(a[2])
    BY <2>1 DEF Inv, AskedOK
  <2>3. OwnRecords(cb.at.records)
    BY <2>1 DEF Inv, TrailOK, CallbackOK
  <2> QED BY <2>2, <2>3 DEF OwnOutput, OwnMsgs, OwnRecords
<1> QED BY <1>1, OwnHolds, PTL

-----------------------------------------------------------------------------
(* The result is that of the recorded steps: what the loop has counted and  *)
(* collected in its round is what the last of them say.                     *)

\* The outputs with an id, and a total, as OutsOf and Total build them up.
OutsUpTo(es, ids, n, g) ==
  g = [i \in 0 .. n |-> IF i = 0 THEN <<>>
                        ELSE IF es[i].key[1] \in ids THEN Append(g[i - 1], es[i].out) ELSE g[i - 1]]
TotalUpTo(s, n, g) == g = [i \in 0 .. n |-> IF i = 0 THEN 0 ELSE g[i - 1] + s[i]]

LEMMA OutsOneMore ==
  ASSUME NEW es, NEW ids, NEW n \in Nat, NEW g, OutsUpTo(es, ids, n, g)
  PROVE  \E h : /\ OutsUpTo(es, ids, n + 1, h)
                /\ h[n + 1] = IF es[n + 1].key[1] \in ids THEN Append(g[n], es[n + 1].out) ELSE g[n]
<1>x. PICK x : x = IF es[n + 1].key[1] \in ids THEN Append(g[n], es[n + 1].out) ELSE g[n]
  OBVIOUS
<1>h. PICK h : h = [i \in 0 .. n + 1 |-> IF i = n + 1 THEN x ELSE g[i]]
  OBVIOUS
<1>1. ASSUME NEW i \in 0 .. n + 1
      PROVE  h[i] = IF i = 0 THEN <<>>
                    ELSE IF es[i].key[1] \in ids THEN Append(h[i - 1], es[i].out) ELSE h[i - 1]
  <2>1. CASE i = n + 1
    <3>1. h[i] = x /\ h[i - 1] = g[n]
      BY <1>h, <2>1
    <3> QED BY <1>x, <2>1, <3>1
  <2>2. CASE i # n + 1
    <3>1. i \in 0 .. n /\ h[i] = g[i]
      BY <1>h, <2>2
    <3>2. g[i] = IF i = 0 THEN <<>>
                 ELSE IF es[i].key[1] \in ids THEN Append(g[i - 1], es[i].out) ELSE g[i - 1]
      BY <3>1 DEF OutsUpTo
    <3>3. i # 0 => h[i - 1] = g[i - 1]
      BY <1>h, <3>1
    <3> QED BY <3>1, <3>2, <3>3
  <2> QED BY <2>1, <2>2
<1>2. h = [i \in 0 .. n + 1 |-> h[i]] /\ h[n + 1] = x
  BY <1>h
<1>3. OutsUpTo(es, ids, n + 1, h)
  BY <1>1, <1>2 DEF OutsUpTo
<1> QED BY <1>2, <1>3, <1>x

LEMMA OutsExist ==
  ASSUME NEW es, NEW ids
  PROVE  \A n \in Nat : \E g : OutsUpTo(es, ids, n, g)
<1> DEFINE S == {n \in Nat : \E g : OutsUpTo(es, ids, n, g)}
<1>1. 0 \in S
  <2> DEFINE g == [i \in 0 .. 0 |-> <<>>]
  <2>1. OutsUpTo(es, ids, 0, g)
    BY DEF OutsUpTo
  <2> QED BY <2>1
<1>2. ASSUME NEW n \in S PROVE n + 1 \in S
  <2>1. PICK g : OutsUpTo(es, ids, n, g)
    BY <1>2
  <2>2. \E h : OutsUpTo(es, ids, n + 1, h)
    BY <2>1, OutsOneMore
  <2> QED BY <2>2
<1> HIDE DEF S
<1>3. S = Nat
  BY <1>1, <1>2, SetInduction DEF S
<1> QED BY <1>3 DEF S

LEMMA OutsAgree ==
  ASSUME NEW es, NEW ids, NEW n \in Nat, NEW g, OutsUpTo(es, ids, n, g), NEW h, OutsUpTo(es, ids, n, h)
  PROVE  g = h
<1> DEFINE S == {k \in Nat : k \in 0 .. n => g[k] = h[k]}
<1>1. \A i \in 0 .. n :
        /\ g[i] = IF i = 0 THEN <<>> ELSE IF es[i].key[1] \in ids THEN Append(g[i - 1], es[i].out) ELSE g[i - 1]
        /\ h[i] = IF i = 0 THEN <<>> ELSE IF es[i].key[1] \in ids THEN Append(h[i - 1], es[i].out) ELSE h[i - 1]
  BY DEF OutsUpTo
<1>2. 0 \in S
  BY <1>1
<1>3. ASSUME NEW k \in S PROVE k + 1 \in S
  BY <1>1, <1>3
<1> HIDE DEF S
<1>4. S = Nat
  BY <1>2, <1>3, SetInduction DEF S
<1>5. \A i \in 0 .. n : g[i] = h[i]
  BY <1>4 DEF S
<1>6. g = [i \in 0 .. n |-> g[i]] /\ h = [i \in 0 .. n |-> h[i]]
  BY DEF OutsUpTo
<1> QED BY <1>5, <1>6

LEMMA OutsAre ==
  ASSUME NEW es, NEW ids, Len(es) \in Nat, NEW g, OutsUpTo(es, ids, Len(es), g)
  PROVE  OutsOf(es, ids) = g[Len(es)]
<1> DEFINE c == CHOOSE f : f = [n \in 0 .. Len(es) |->
                                  IF n = 0 THEN <<>>
                                  ELSE IF es[n].key[1] \in ids THEN Append(f[n - 1], es[n].out) ELSE f[n - 1]]
<1>1. OutsOf(es, ids) = c[Len(es)]
  BY DEF OutsOf
<1>2. OutsUpTo(es, ids, Len(es), c)
  BY DEF OutsUpTo
<1> HIDE DEF c
<1>3. c = g
  BY <1>2, OutsAgree
<1> QED BY <1>1, <1>3

\* A step more gives its output to those of its id.
LEMMA OutsLonger ==
  ASSUME NEW es, NEW fs, NEW ids, NEW n \in Nat, Len(es) = n, Len(fs) = n + 1, \A i \in 1 .. n : fs[i] = es[i]
  PROVE  OutsOf(fs, ids)
           = IF fs[n + 1].key[1] \in ids THEN Append(OutsOf(es, ids), fs[n + 1].out) ELSE OutsOf(es, ids)
<1>1. PICK g : OutsUpTo(es, ids, n, g)
  BY OutsExist
<1>0. OutsUpTo(fs, ids, n, g)
  <2>1. ASSUME NEW i \in 0 .. n
        PROVE  g[i] = IF i = 0 THEN <<>>
                      ELSE IF fs[i].key[1] \in ids THEN Append(g[i - 1], fs[i].out) ELSE g[i - 1]
    <3>1. i # 0 => fs[i] = es[i]
      OBVIOUS
    <3>2. g[i] = IF i = 0 THEN <<>>
                 ELSE IF es[i].key[1] \in ids THEN Append(g[i - 1], es[i].out) ELSE g[i - 1]
      BY <1>1 DEF OutsUpTo
    <3> QED BY <3>1, <3>2
  <2>2. g = [i \in 0 .. n |-> g[i]]
    BY <1>1 DEF OutsUpTo
  <2> QED BY <2>1, <2>2 DEF OutsUpTo
<1>2. PICK h : /\ OutsUpTo(fs, ids, n + 1, h)
               /\ h[n + 1] = IF fs[n + 1].key[1] \in ids THEN Append(g[n], fs[n + 1].out) ELSE g[n]
  BY <1>0, OutsOneMore
<1>3. Len(fs) \in Nat /\ OutsUpTo(fs, ids, Len(fs), h)
  BY <1>2
<1>4. OutsOf(fs, ids) = h[n + 1]
  BY <1>3, OutsAre
<1>5. OutsOf(es, ids) = g[n]
  BY <1>1, OutsAre
<1> QED BY <1>2, <1>4, <1>5

LEMMA OutsAppend ==
  ASSUME NEW S, NEW es \in Seq(S), NEW e \in S, NEW ids
  PROVE  OutsOf(Append(es, e), ids)
           = IF e.key[1] \in ids THEN Append(OutsOf(es, ids), e.out) ELSE OutsOf(es, ids)
<1> DEFINE n  == Len(es)
           fs == Append(es, e)
<1>1. n \in Nat /\ Len(fs) = n + 1 /\ fs[n + 1] = e /\ \A i \in 1 .. n : fs[i] = es[i]
  OBVIOUS
<1>2. Len(es) = n
  OBVIOUS
<1> HIDE DEF n, fs
<1>3. OutsOf(fs, ids)
        = IF fs[n + 1].key[1] \in ids THEN Append(OutsOf(es, ids), fs[n + 1].out) ELSE OutsOf(es, ids)
  BY <1>1, <1>2, OutsLonger
<1> QED BY <1>1, <1>3 DEF fs

LEMMA OutsOfNone ==
  ASSUME NEW es, Len(es) = 0, NEW ids
  PROVE  OutsOf(es, ids) = <<>>
<1> DEFINE g == [i \in 0 .. 0 |-> <<>>]
<1>1. OutsUpTo(es, ids, 0, g) /\ g[0] = <<>>
  BY DEF OutsUpTo
<1> HIDE DEF g
<1> QED BY <1>1, OutsAre

\* A total grows by what is appended.
LEMMA TotalOneMore ==
  ASSUME NEW s, NEW n \in Nat, NEW g, TotalUpTo(s, n, g)
  PROVE  \E h : TotalUpTo(s, n + 1, h) /\ h[n + 1] = g[n] + s[n + 1]
<1>x. PICK x : x = g[n] + s[n + 1]
  OBVIOUS
<1>h. PICK h : h = [i \in 0 .. n + 1 |-> IF i = n + 1 THEN x ELSE g[i]]
  OBVIOUS
<1>1. ASSUME NEW i \in 0 .. n + 1
      PROVE  h[i] = IF i = 0 THEN 0 ELSE h[i - 1] + s[i]
  <2>1. CASE i = n + 1
    <3>1. h[i] = x /\ h[i - 1] = g[n]
      BY <1>h, <2>1
    <3> QED BY <1>x, <2>1, <3>1
  <2>2. CASE i # n + 1
    <3>1. i \in 0 .. n /\ h[i] = g[i]
      BY <1>h, <2>2
    <3>2. g[i] = IF i = 0 THEN 0 ELSE g[i - 1] + s[i]
      BY <3>1 DEF TotalUpTo
    <3>3. i # 0 => h[i - 1] = g[i - 1]
      BY <1>h, <3>1
    <3> QED BY <3>1, <3>2, <3>3
  <2> QED BY <2>1, <2>2
<1>2. h = [i \in 0 .. n + 1 |-> h[i]] /\ h[n + 1] = x
  BY <1>h
<1>3. TotalUpTo(s, n + 1, h)
  BY <1>1, <1>2 DEF TotalUpTo
<1> QED BY <1>2, <1>3, <1>x

LEMMA TotalExists ==
  ASSUME NEW s
  PROVE  \A n \in Nat : \E g : TotalUpTo(s, n, g)
<1> DEFINE S == {n \in Nat : \E g : TotalUpTo(s, n, g)}
<1>1. 0 \in S
  <2> DEFINE g == [i \in 0 .. 0 |-> 0]
  <2>1. TotalUpTo(s, 0, g)
    BY DEF TotalUpTo
  <2> QED BY <2>1
<1>2. ASSUME NEW n \in S PROVE n + 1 \in S
  <2>1. PICK g : TotalUpTo(s, n, g)
    BY <1>2
  <2>2. \E h : TotalUpTo(s, n + 1, h)
    BY <2>1, TotalOneMore
  <2> QED BY <2>2
<1> HIDE DEF S
<1>3. S = Nat
  BY <1>1, <1>2, SetInduction DEF S
<1> QED BY <1>3 DEF S

LEMMA TotalAgrees ==
  ASSUME NEW s, NEW n \in Nat, NEW g, TotalUpTo(s, n, g), NEW h, TotalUpTo(s, n, h)
  PROVE  g = h
<1> DEFINE S == {k \in Nat : k \in 0 .. n => g[k] = h[k]}
<1>1. \A i \in 0 .. n : /\ g[i] = IF i = 0 THEN 0 ELSE g[i - 1] + s[i]
                        /\ h[i] = IF i = 0 THEN 0 ELSE h[i - 1] + s[i]
  BY DEF TotalUpTo
<1>2. 0 \in S
  BY <1>1
<1>3. ASSUME NEW k \in S PROVE k + 1 \in S
  BY <1>1, <1>3
<1> HIDE DEF S
<1>4. S = Nat
  BY <1>2, <1>3, SetInduction DEF S
<1>5. \A i \in 0 .. n : g[i] = h[i]
  BY <1>4 DEF S
<1>6. g = [i \in 0 .. n |-> g[i]] /\ h = [i \in 0 .. n |-> h[i]]
  BY DEF TotalUpTo
<1> QED BY <1>5, <1>6

LEMMA TotalIs ==
  ASSUME NEW s, Len(s) \in Nat, NEW g, TotalUpTo(s, Len(s), g)
  PROVE  Total(s) = g[Len(s)]
<1> DEFINE c == CHOOSE f : f = [n \in 0 .. Len(s) |-> IF n = 0 THEN 0 ELSE f[n - 1] + s[n]]
<1>1. Total(s) = c[Len(s)]
  BY DEF Total
<1>2. TotalUpTo(s, Len(s), c)
  BY DEF TotalUpTo
<1> HIDE DEF c
<1>3. c = g
  BY <1>2, TotalAgrees
<1> QED BY <1>1, <1>3

LEMMA TotalLonger ==
  ASSUME NEW s, NEW t, NEW n \in Nat, Len(s) = n, Len(t) = n + 1, \A i \in 1 .. n : t[i] = s[i]
  PROVE  Total(t) = Total(s) + t[n + 1]
<1>1. PICK g : TotalUpTo(s, n, g)
  BY TotalExists
<1>2. TotalUpTo(t, n, g)
  <2>1. ASSUME NEW i \in 0 .. n
        PROVE  g[i] = IF i = 0 THEN 0 ELSE g[i - 1] + t[i]
    <3>1. i # 0 => t[i] = s[i]
      OBVIOUS
    <3>2. g[i] = IF i = 0 THEN 0 ELSE g[i - 1] + s[i]
      BY <1>1 DEF TotalUpTo
    <3> QED BY <3>1, <3>2
  <2>2. g = [i \in 0 .. n |-> g[i]]
    BY <1>1 DEF TotalUpTo
  <2> QED BY <2>1, <2>2 DEF TotalUpTo
<1>3. PICK h : TotalUpTo(t, n + 1, h) /\ h[n + 1] = g[n] + t[n + 1]
  BY <1>2, TotalOneMore
<1>4. Len(t) \in Nat /\ TotalUpTo(t, Len(t), h)
  BY <1>3
<1>5. Total(t) = h[n + 1]
  BY <1>4, TotalIs
<1>6. Total(s) = g[n]
  BY <1>1, TotalIs
<1> QED BY <1>3, <1>5, <1>6

LEMMA TotalOfNone == ASSUME NEW s, Len(s) = 0 PROVE Total(s) = 0
<1> DEFINE g == [i \in 0 .. 0 |-> 0]
<1>1. TotalUpTo(s, 0, g) /\ g[0] = 0
  BY DEF TotalUpTo
<1> HIDE DEF g
<1> QED BY <1>1, TotalIs

\* One turn more: the last n + 1 are the last n with what is appended.
LEMMA LastOfAppend ==
  ASSUME NEW S, NEW s \in Seq(S), NEW x \in S, NEW n \in 0 .. Len(s)
  PROVE  /\ LastOf(s, n) \in Seq(S) /\ Len(LastOf(s, n)) = n
         /\ LastOf(Append(s, x), n + 1) = Append(LastOf(s, n), x)
<1> DEFINE m == Len(s) - n + 1
<1>1. m \in 1 .. Len(s) + 1 /\ Len(s) \in Nat
  OBVIOUS
<1>2. LastOf(s, n) = SubSeq(s, m, Len(s))
  BY DEF LastOf
<1>3. LastOf(Append(s, x), n + 1) = SubSeq(Append(s, x), m, Len(s) + 1)
  BY DEF LastOf
<1>4. /\ SubSeq(s, m, Len(s)) \in Seq(S) /\ Len(SubSeq(s, m, Len(s))) = n
      /\ \A i \in 1 .. n : SubSeq(s, m, Len(s))[i] = s[m + i - 1]
  BY <1>1, SubSeqProperties
<1>5. Append(s, x) \in Seq(S) /\ Len(Append(s, x)) = Len(s) + 1
  OBVIOUS
<1>6. /\ SubSeq(Append(s, x), m, Len(s) + 1) \in Seq(S)
      /\ Len(SubSeq(Append(s, x), m, Len(s) + 1)) = n + 1
      /\ \A i \in 1 .. n + 1 : SubSeq(Append(s, x), m, Len(s) + 1)[i] = Append(s, x)[m + i - 1]
  BY <1>1, <1>5, SubSeqProperties
<1>7. ASSUME NEW i \in 1 .. n + 1
      PROVE  Append(s, x)[m + i - 1] = IF i = n + 1 THEN x ELSE s[m + i - 1]
  BY <1>1
<1> DEFINE a == SubSeq(s, m, Len(s))
           b == SubSeq(Append(s, x), m, Len(s) + 1)
<1>8. \A i \in 1 .. n + 1 : b[i] = IF i = n + 1 THEN x ELSE a[i]
  BY <1>4, <1>6, <1>7
<1>9. /\ Append(a, x) \in Seq(S) /\ Len(Append(a, x)) = n + 1
      /\ \A i \in 1 .. n + 1 : Append(a, x)[i] = IF i = n + 1 THEN x ELSE a[i]
  BY <1>4
<1> HIDE DEF a, b, m
<1>10. b = Append(a, x)
  BY <1>6, <1>8, <1>9, SeqEqual DEF b
<1> QED BY <1>2, <1>3, <1>4, <1>10 DEF a, b

LEMMA LastOfNone ==
  ASSUME NEW S, NEW s \in Seq(S)
  PROVE  LastOf(s, 0) = <<>>
BY DEF LastOf

\* What a list of replies, or of records, is looked at for.
UsedOf(r)     == [i \in DOMAIN r |-> r[i].used]
CallsOf(r)    == [i \in DOMAIN r |-> Len(r[i].calls)]
OutputsOf(rs) == [i \in DOMAIN rs |-> rs[i].output]

\* A function on 1 .. n is a list.
LEMMA ListOf ==
  ASSUME NEW n \in Nat, NEW f, DOMAIN f = 1 .. n, f = [i \in 1 .. n |-> f[i]]
  PROVE  IsSequence(f) /\ Len(f) = n
<1> DEFINE T == {f[i] : i \in DOMAIN f}
<1>1. f \in [1 .. n -> T]
  OBVIOUS
<1>2. f \in Seq(T)
  BY <1>1, SeqDef
<1>3. Len(f) = n
  BY <1>2, LenProperties
<1> QED BY <1>2, <1>3 DEF IsSequence

LEMMA UsedAppend ==
  ASSUME NEW S, NEW r \in Seq(S), NEW x \in S
  PROVE  Total(UsedOf(Append(r, x))) = Total(UsedOf(r)) + x.used
<1> DEFINE n == Len(r)
           s == UsedOf(r)
           t == UsedOf(Append(r, x))
<1>1. /\ n \in Nat /\ DOMAIN r = 1 .. n /\ DOMAIN Append(r, x) = 1 .. n + 1
      /\ Append(r, x)[n + 1] = x /\ \A i \in 1 .. n : Append(r, x)[i] = r[i]
  OBVIOUS
<1>2. DOMAIN s = 1 .. n /\ s = [i \in 1 .. n |-> s[i]] /\ \A i \in 1 .. n : s[i] = r[i].used
  BY <1>1 DEF UsedOf
<1>3. /\ DOMAIN t = 1 .. n + 1 /\ t = [i \in 1 .. n + 1 |-> t[i]]
      /\ \A i \in 1 .. n + 1 : t[i] = Append(r, x)[i].used
  BY <1>1 DEF UsedOf
<1>4. t[n + 1] = x.used /\ \A i \in 1 .. n : t[i] = s[i]
  BY <1>1, <1>2, <1>3
<1> HIDE DEF s, t, n
<1>5. Len(s) = n
  BY <1>1, <1>2, ListOf
<1>6. Len(t) = n + 1
  BY <1>1, <1>3, ListOf
<1> QED BY <1>1, <1>4, <1>5, <1>6, TotalLonger DEF s, t

LEMMA CallsAppend ==
  ASSUME NEW S, NEW r \in Seq(S), NEW x \in S
  PROVE  Total(CallsOf(Append(r, x))) = Total(CallsOf(r)) + Len(x.calls)
<1> DEFINE n == Len(r)
           s == CallsOf(r)
           q == Append(r, x)
           t == CallsOf(q)
<1>1. /\ n \in Nat /\ DOMAIN r = 1 .. n /\ DOMAIN q = 1 .. n + 1
      /\ q[n + 1] = x /\ \A i \in 1 .. n : q[i] = r[i]
  OBVIOUS
<1> HIDE DEF q
<1>2. DOMAIN s = 1 .. n /\ s = [i \in 1 .. n |-> s[i]] /\ \A i \in 1 .. n : s[i] = Len(r[i].calls)
  BY <1>1 DEF CallsOf
<1>3. /\ DOMAIN t = 1 .. n + 1 /\ t = [i \in 1 .. n + 1 |-> t[i]]
      /\ \A i \in 1 .. n + 1 : t[i] = Len(q[i].calls)
  BY <1>1 DEF CallsOf
<1> HIDE DEF s, t, n
<1>4. t[n + 1] = Len(x.calls) /\ \A i \in 1 .. n : t[i] = s[i]
  <2>1. t[n + 1] = Len(x.calls)
    BY <1>1, <1>3
  <2>2. ASSUME NEW i \in 1 .. n PROVE t[i] = s[i]
    <3>1. t[i] = Len(q[i].calls) /\ q[i] = r[i]
      BY <1>1, <1>3
    <3> QED BY <3>1, <1>2
  <2> QED BY <2>1, <2>2
<1>5. Len(s) = n
  BY <1>1, <1>2, ListOf
<1>6. Len(t) = n + 1
  BY <1>1, <1>3, ListOf
<1> QED BY <1>1, <1>4, <1>5, <1>6, TotalLonger DEF q, s, t

LEMMA OutputsAppend ==
  ASSUME NEW rs, IsSequence(rs), NEW rec
  PROVE  OutputsOf(Append(rs, rec)) = Append(OutputsOf(rs), rec.output)
<1> DEFINE S == {rs[i] : i \in DOMAIN rs} \cup {rec}
           n == Len(rs)
           a == OutputsOf(rs)
           b == OutputsOf(Append(rs, rec))
           T == {b[i] : i \in DOMAIN b}
<1>1. rs \in Seq(S)
  BY DEF IsSequence
<1>2. /\ n \in Nat /\ DOMAIN rs = 1 .. n /\ DOMAIN Append(rs, rec) = 1 .. n + 1
      /\ Append(rs, rec)[n + 1] = rec /\ \A i \in 1 .. n : Append(rs, rec)[i] = rs[i]
  BY <1>1
<1>3. DOMAIN a = 1 .. n /\ a = [i \in 1 .. n |-> a[i]] /\ \A i \in 1 .. n : a[i] = rs[i].output
  BY <1>2 DEF OutputsOf
<1>4. /\ DOMAIN b = 1 .. n + 1 /\ b = [i \in 1 .. n + 1 |-> b[i]]
      /\ \A i \in 1 .. n + 1 : b[i] = Append(rs, rec)[i].output
  BY <1>2 DEF OutputsOf
<1>5. b[n + 1] = rec.output /\ \A i \in 1 .. n : b[i] = a[i]
  BY <1>2, <1>3, <1>4
<1> HIDE DEF a, b, n
<1>6. IsSequence(b) /\ Len(b) = n + 1
  BY <1>2, <1>4, ListOf
<1>7. a \in [1 .. n -> T] /\ rec.output \in T
  BY <1>2, <1>3, <1>4, <1>5
<1>8. IsSequence(a) /\ Len(a) = n
  BY <1>2, <1>3, ListOf
<1>9. a \in Seq(T)
  BY <1>2, <1>7, SeqDef
<1>10. b \in Seq(T)
  BY <1>6 DEF IsSequence
<1> DEFINE c == Append(a, rec.output)
<1>11. c \in Seq(T) /\ Len(c) = n + 1 /\ c[n + 1] = rec.output /\ \A i \in 1 .. n : c[i] = a[i]
  BY <1>2, <1>7, <1>8, <1>9
<1>12. \A i \in 1 .. n + 1 : b[i] = c[i]
  BY <1>2, <1>5, <1>11
<1> HIDE DEF c, T
<1>13. b = c
  BY <1>6, <1>10, <1>11, <1>12, SeqEqual
<1> QED BY <1>13 DEF a, b, c

-----------------------------------------------------------------------------
(* The loop and the outputs recorded so far: asks are those of the model,   *)
(* acts those of the tools.                                                 *)

\* The hook returns a list, as its type says (agent.ts, prepareMessages).
ListHook == \A msgs, it, prev : IsSequence(msgs) => IsSequence(Prepare(msgs, it, prev))

\* So many turns of the round have been answered, and so many of the calls of
\* the last answer are still due: that is what was used, and recorded.
RoundIs(l, turns, due, asks, acts) ==
  /\ l.it \in Nat /\ IsSequence(l.records) /\ IsSequence(l.msgs)
  /\ turns \in 0 .. Len(asks) /\ due \in Nat /\ Len(l.records) <= Len(acts)
  /\ l.usage = Total(UsedOf(LastOf(asks, turns)))
  /\ OutputsOf(l.records) = LastOf(acts, Len(l.records))
  /\ Total(CallsOf(LastOf(asks, turns))) = Len(l.records) + due

\* Where the loop stands, by its pc.
Tallied(l, asks, acts) ==
  /\ l.pc = "ask" => RoundIs(l, l.it, 0, asks, acts)
  /\ l.pc \in {"act", "done"} => asks # <<>> /\ l.reply = asks[Len(asks)]
  /\ l.pc = "act" => RoundIs(l, l.it + 1, Len(l.reply.calls) - l.k + 1, asks, acts)
  /\ l.pc = "done" => /\ RoundIs(l, l.it + 1, 0, asks, acts)
                      /\ l.msgs # <<>> /\ l.msgs[Len(l.msgs)] = Assistant(l.reply)

LEMMA LoopHeadTallied ==
  ASSUME ListHook, NEW l, Locals(l), NEW asks, NEW acts, RoundIs(l, l.it, 0, asks, acts)
  PROVE  Tallied(LoopHead(l), asks, acts)
<1> DEFINE msgs == Prepare(l.msgs, l.it, l.prev)
<1>1. IsSequence(msgs)
  BY DEF ListHook, RoundIs
<1>2. LoopHead(l) \in {[l EXCEPT !.pc = "thrown"], [l EXCEPT !.pc = "ask", !.msgs = msgs]}
  BY DEF LoopHead
<1> HIDE DEF msgs
<1>3. CASE LoopHead(l) = [l EXCEPT !.pc = "thrown"]
  <2>1. LoopHead(l).pc = "thrown"
    BY <1>3 DEF Locals, Fields
  <2> QED BY <2>1 DEF Tallied
<1>4. CASE LoopHead(l) = [l EXCEPT !.pc = "ask", !.msgs = msgs]
  <2>1. /\ LoopHead(l).pc = "ask" /\ LoopHead(l).records = l.records /\ LoopHead(l).msgs = msgs
        /\ LoopHead(l).it = l.it /\ LoopHead(l).usage = l.usage
    BY <1>4 DEF Locals, Fields
  <2> QED BY <1>1, <2>1 DEF Tallied, RoundIs
<1> QED BY <1>2, <1>3, <1>4

\* With all calls answered the next turn begins; otherwise one of them is next.
LEMMA NextCallTallied ==
  ASSUME ListHook, NEW l, Locals(l), NEW asks, NEW acts,
         l.k \in Nat \ {0}, Len(l.reply.calls) \in Nat, l.k <= Len(l.reply.calls) + 1,
         asks # <<>>, l.reply = asks[Len(asks)],
         RoundIs(l, l.it + 1, Len(l.reply.calls) - l.k + 1, asks, acts)
  PROVE  Tallied(NextCall(l), asks, acts)
<1>1. CASE l.k > Len(l.reply.calls)
  <2> DEFINE m == [l EXCEPT !.it = @ + 1]
  <2>1. /\ Locals(m) /\ m.it = l.it + 1 /\ m.records = l.records /\ m.msgs = l.msgs
        /\ m.usage = l.usage
    BY DEF Locals, Fields
  <2>2. NextCall(l) = LoopHead(m)
    BY <1>1 DEF NextCall
  <2>3. Len(l.reply.calls) - l.k + 1 = 0
    BY <1>1
  <2> HIDE DEF m
  <2>4. RoundIs(m, m.it, 0, asks, acts)
    BY <2>1, <2>3 DEF RoundIs
  <2> QED BY <2>1, <2>2, <2>4, LoopHeadTallied
<1>2. CASE ~ (l.k > Len(l.reply.calls)) /\ ToolName(l) \notin Tools
  <2>1. NextCall(l) = [l EXCEPT !.pc = "thrown"]
    BY <1>2 DEF NextCall
  <2>2. NextCall(l).pc = "thrown"
    BY <2>1 DEF Locals, Fields
  <2> QED BY <2>2 DEF Tallied
<1>3. CASE ~ (l.k > Len(l.reply.calls)) /\ ToolName(l) \in Tools
  <2> DEFINE m == [l EXCEPT !.pc = "act"]
  <2>1. NextCall(l) = m
    BY <1>3 DEF NextCall
  <2>2. /\ m.pc = "act" /\ m.it = l.it /\ m.records = l.records /\ m.msgs = l.msgs
        /\ m.usage = l.usage /\ m.reply = l.reply /\ m.k = l.k
    BY DEF Locals, Fields
  <2> HIDE DEF m
  <2>3. RoundIs(m, m.it + 1, Len(m.reply.calls) - m.k + 1, asks, acts)
    BY <2>2 DEF RoundIs
  <2> QED BY <2>1, <2>2, <2>3 DEF Tallied
<1> QED BY <1>1, <1>2, <1>3

\* A round begins with nothing.
LEMMA BeginTallied ==
  ASSUME ListHook, NEW round, NEW count \in [StepIds -> Nat], NEW S, NEW asks \in Seq(S), NEW acts \in Seq(S)
  PROVE  Tallied(Begin(round, count), asks, acts)
<1> DEFINE b == [pc |-> "ask", round |-> round, count |-> count, it |-> 0, msgs |-> <<User(round)>>,
                 prev |-> 0, reply |-> NoReply, k |-> 0, records |-> <<>>, usage |-> 0]
<1>1. Locals(b) /\ b.it = 0 /\ b.records = <<>> /\ b.msgs = <<User(round)>> /\ b.usage = 0
  BY DEF Locals, Fields
<1>2. Begin(round, count) = LoopHead(b)
  BY DEF Begin
<1> HIDE DEF b
<1>3. IsSequence(<<>>) /\ Len(<<>>) = 0 /\ Len(asks) \in Nat /\ Len(acts) \in Nat
  BY DEF IsSequence
<1>4. IsSequence(<<User(round)>>)
  <2> DEFINE u == User(round)
  <2> HIDE DEF u
  <2>1. <<u>> \in Seq({u})
    OBVIOUS
  <2>2. IsSequence(<<u>>)
    BY <2>1, OwnElements
  <2> QED BY <2>2 DEF u
<1>5. LastOf(asks, 0) = <<>> /\ LastOf(acts, 0) = <<>>
  BY LastOfNone
<1>6. Len(UsedOf(<<>>)) = 0 /\ Len(CallsOf(<<>>)) = 0
  BY DEF UsedOf, CallsOf
<1>7. OutputsOf(<<>>) = <<>>
  BY DEF OutputsOf
<1>8. Total(UsedOf(<<>>)) = 0 /\ Total(CallsOf(<<>>)) = 0
  BY <1>6, TotalOfNone
<1>9. RoundIs(b, b.it, 0, asks, acts)
  BY <1>1, <1>3, <1>4, <1>5, <1>7, <1>8 DEF RoundIs
<1> QED BY <1>1, <1>2, <1>9, LoopHeadTallied

\* The last message of a history is what LastAssistant finds, if it is the assistant's.
LEMMA LastMessage ==
  ASSUME NEW msgs, IsSequence(msgs), msgs # <<>>, NEW reply, msgs[Len(msgs)] = Assistant(reply)
  PROVE  LastAssistant(msgs) = reply.no
<1> DEFINE from == {i \in DOMAIN msgs : msgs[i].role = "assistant"}
           n == Len(msgs)
<1>1. n \in Nat \ {0} /\ DOMAIN msgs = 1 .. n
  BY DEF IsSequence
<1>2. n \in from /\ msgs[n].from = reply.no
  BY <1>1 DEF Assistant
<1>3. \A i \in from : i \in Nat /\ i <= n
  BY <1>1
<1>4. LastAssistant(msgs)
        = IF from = {} THEN 0 ELSE msgs[CHOOSE i \in from : \A j \in from : j <= i].from
  BY DEF LastAssistant
<1> HIDE DEF from, n
<1>5. (CHOOSE i \in from : \A j \in from : j <= i) = n
  <2> DEFINE c == CHOOSE i \in from : \A j \in from : j <= i
  <2>1. c \in from /\ \A j \in from : j <= c
    BY <1>2, <1>3
  <2> HIDE DEF c
  <2>2. c \in Nat /\ n \in Nat /\ n <= c /\ c <= n
    BY <1>1, <1>2, <1>3, <2>1
  <2>3. c = n
    BY <2>2
  <2> QED BY <2>3 DEF c
<1> QED BY <1>2, <1>4, <1>5

\* A step is tallied: a reply with its tokens and calls, a record with its output.
LEMMA AfterTallied ==
  ASSUME ListHook, NEW l, LocalsOK(l), l.pc \in StepPc, NEW S, NEW out \in S, OutputOf(l, out),
         NEW asks \in Seq(S), NEW acts \in Seq(S), Tallied(l, asks, acts)
  PROVE  IF l.pc = "ask" THEN Tallied(After(l, out), Append(asks, out), acts)
                         ELSE Tallied(After(l, out), asks, Append(acts, out))
<1>1. StepId(l) \in StepIds
  BY DEF StepId, StepIds, LocalsOK, Acting, StepPc
<1>2. Len(asks) \in Nat /\ Len(acts) \in Nat
  OBVIOUS
<1>3. CASE l.pc = "ask"
  <2> DEFINE more == Append(asks, out)
             n == [Counted(l) EXCEPT !.msgs = Append(@, Assistant(out)), !.usage = @ + out.used,
                                     !.prev = out.used, !.reply = out, !.k = 1]
             d == [n EXCEPT !.pc = "done"]
  <2>1. /\ Locals(n) /\ n.records = l.records /\ n.msgs = Append(l.msgs, Assistant(out))
        /\ n.it = l.it /\ n.usage = l.usage + out.used /\ n.reply = out /\ n.k = 1
    BY <1>1, CountedOK DEF LocalsOK, Locals, Fields, Counted
  <2>2. /\ d.pc = "done" /\ d.records = n.records /\ d.msgs = n.msgs /\ d.it = n.it
        /\ d.usage = n.usage /\ d.reply = n.reply
    BY <2>1 DEF Locals, Fields
  <2>3. After(l, out) = IF out.calls # <<>> THEN NextCall(n)
                        ELSE IF l.round < Rounds THEN Begin(l.round + 1, n.count) ELSE d
    BY <1>3 DEF After, AfterAsk
  <2>4. out.calls \in Seq(STRING) /\ out.used \in Nat /\ Len(out.calls) \in Nat
    BY <1>3 DEF OutputOf
  <2> HIDE DEF n, d
  <2>5. RoundIs(l, l.it, 0, asks, acts)
    BY <1>3 DEF Tallied
  <2>6. more \in Seq(S) /\ Len(more) = Len(asks) + 1 /\ more # <<>> /\ more[Len(more)] = out
    BY <1>2
  <2>7. /\ LastOf(asks, l.it) \in Seq(S)
        /\ LastOf(more, l.it + 1) = Append(LastOf(asks, l.it), out)
    BY <2>5, LastOfAppend DEF RoundIs
  <2>8. /\ Total(UsedOf(LastOf(more, l.it + 1))) = l.usage + out.used
        /\ Total(CallsOf(LastOf(more, l.it + 1))) = Len(l.records) + Len(out.calls)
    <3>1. /\ Total(UsedOf(LastOf(more, l.it + 1))) = Total(UsedOf(LastOf(asks, l.it))) + out.used
          /\ Total(CallsOf(LastOf(more, l.it + 1))) = Total(CallsOf(LastOf(asks, l.it))) + Len(out.calls)
      BY <2>7, UsedAppend, CallsAppend
    <3>2. Len(l.records) \in Nat
      BY <2>5 DEF RoundIs, IsSequence
    <3>3. Total(UsedOf(LastOf(asks, l.it))) = l.usage /\ Total(CallsOf(LastOf(asks, l.it))) = Len(l.records)
      BY <2>5, <3>2 DEF RoundIs
    <3> QED BY <3>1, <3>3
  <2> HIDE DEF more
  <2>9. RoundIs(n, n.it + 1, Len(out.calls), more, acts)
    <3>1. IsSequence(n.msgs)
      BY <2>1, <2>5, AppendOne DEF RoundIs
    <3>2. n.it + 1 \in 0 .. Len(more)
      BY <1>2, <2>1, <2>5, <2>6 DEF RoundIs
    <3> QED BY <2>1, <2>4, <2>5, <2>8, <3>1, <3>2 DEF RoundIs
  <2>10. CASE out.calls # <<>>
    <3>1. Len(out.calls) >= 1 /\ Len(n.reply.calls) - n.k + 1 = Len(out.calls)
      BY <2>1, <2>4, <2>10
    <3>2. Tallied(NextCall(n), more, acts)
      BY <2>1, <2>4, <2>6, <2>9, <3>1, NextCallTallied
    <3> QED BY <1>3, <2>3, <2>10, <3>2 DEF more
  <2>11. CASE out.calls = <<>> /\ l.round < Rounds
    <3>1. Tallied(Begin(l.round + 1, n.count), more, acts)
      BY <2>1, <2>6, BeginTallied DEF Locals
    <3> QED BY <1>3, <2>3, <2>11, <3>1 DEF more
  <2>12. CASE out.calls = <<>> /\ ~ (l.round < Rounds)
    <3>1. Len(out.calls) = 0
      BY <2>12
    <3>2. RoundIs(d, d.it + 1, 0, more, acts)
      BY <2>2, <2>9, <3>1 DEF RoundIs
    <3>3. d.msgs # <<>> /\ d.msgs[Len(d.msgs)] = Assistant(out)
      <4>1. l.msgs \in Seq({l.msgs[i] : i \in DOMAIN l.msgs} \cup {Assistant(out)})
        BY <2>5 DEF RoundIs, IsSequence
      <4> DEFINE a == Assistant(out)
      <4> HIDE DEF a
      <4> QED BY <2>1, <2>2, <4>1 DEF a
    <3>4. Tallied(d, more, acts)
      BY <2>1, <2>2, <2>6, <3>2, <3>3 DEF Tallied
    <3> QED BY <1>3, <2>3, <2>12, <3>4 DEF more
  <2> QED BY <2>10, <2>11, <2>12
<1>4. CASE l.pc = "act"
  <2> DEFINE more == Append(acts, out)
             rec == [call |-> Call(l), output |-> out]
             msg == ToolMsg(Call(l), out)
             n == [Counted(l) EXCEPT !.msgs = Append(@, ToolMsg(Call(l), out)),
                                     !.records = Append(@, [call |-> Call(l), output |-> out]), !.k = @ + 1]
  <2>1. /\ Locals(n) /\ n.records = Append(l.records, rec) /\ n.msgs = Append(l.msgs, msg)
        /\ n.it = l.it /\ n.usage = l.usage /\ n.reply = l.reply /\ n.k = l.k + 1
    BY <1>1, CountedOK DEF LocalsOK, Locals, Fields, Counted
  <2>2. After(l, out) = NextCall(n)
    BY <1>4 DEF After, AfterAct
  <2>3. rec.output = out
    OBVIOUS
  <2> HIDE DEF n, rec, msg
  <2>4. /\ RoundIs(l, l.it + 1, Len(l.reply.calls) - l.k + 1, asks, acts)
        /\ asks # <<>> /\ l.reply = asks[Len(asks)]
    BY <1>4 DEF Tallied
  <2>5. l.k \in Nat \ {0} /\ Len(l.reply.calls) \in Nat /\ l.k <= Len(l.reply.calls)
    BY <1>4 DEF LocalsOK, Acting
  <2>6. Len(l.records) \in Nat /\ Len(n.records) = Len(l.records) + 1
    <3>1. l.records \in Seq({l.records[i] : i \in DOMAIN l.records} \cup {rec})
      BY <2>4 DEF RoundIs, IsSequence
    <3> QED BY <2>1, <3>1
  <2>7. Len(more) = Len(acts) + 1
    BY <1>2
  <2>8. OutputsOf(n.records) = LastOf(more, Len(n.records))
    <3>1. OutputsOf(n.records) = Append(OutputsOf(l.records), out)
      BY <2>1, <2>3, <2>4, OutputsAppend DEF RoundIs
    <3>2. Len(l.records) \in 0 .. Len(acts)
      BY <1>2, <2>4, <2>6 DEF RoundIs
    <3>3. LastOf(more, Len(l.records) + 1) = Append(LastOf(acts, Len(l.records)), out)
      BY <3>2, LastOfAppend
    <3> QED BY <2>4, <2>6, <3>1, <3>3 DEF RoundIs
  <2> HIDE DEF more
  <2>9. IsSequence(n.records) /\ IsSequence(n.msgs)
    BY <2>1, <2>4, AppendOne DEF RoundIs
  <2>10. RoundIs(n, n.it + 1, Len(n.reply.calls) - n.k + 1, asks, more)
    <3>0. \A i, j, r \in Nat : i - (j + 1) + 1 = i - j /\ r + (i - j + 1) = r + 1 + (i - j)
      OBVIOUS
    <3>1. Len(n.reply.calls) - n.k + 1 = Len(l.reply.calls) - l.k
      BY <2>1, <2>5, <3>0
    <3>2. Len(l.reply.calls) - l.k \in Nat
      BY <2>5
    <3>3. Total(CallsOf(LastOf(asks, n.it + 1))) = Len(n.records) + (Len(l.reply.calls) - l.k)
      <4>1. Total(CallsOf(LastOf(asks, n.it + 1))) = Len(l.records) + (Len(l.reply.calls) - l.k + 1)
        BY <2>1, <2>4 DEF RoundIs
      <4>2. Len(l.records) + (Len(l.reply.calls) - l.k + 1) = Len(l.records) + 1 + (Len(l.reply.calls) - l.k)
        BY <2>5, <2>6, <3>0
      <4> QED BY <2>6, <4>1, <4>2
    <3>4. Len(n.records) <= Len(more)
      BY <1>2, <2>4, <2>6, <2>7 DEF RoundIs
    <3> QED BY <2>1, <2>4, <2>8, <2>9, <3>1, <3>2, <3>3, <3>4 DEF RoundIs
  <2>11. n.k \in Nat \ {0} /\ Len(n.reply.calls) \in Nat /\ n.k <= Len(n.reply.calls) + 1
    BY <2>1, <2>5
  <2>12. Tallied(NextCall(n), asks, more)
    BY <2>1, <2>4, <2>10, <2>11, NextCallTallied
  <2> QED BY <1>4, <2>2, <2>12 DEF more
<1> QED BY <1>3, <1>4 DEF StepPc

-----------------------------------------------------------------------------
(* So it is of the last position of the trail, and the run is completed     *)
(* with the result of that one.                                             *)

Asked == OutsOf(steps, {LlmStep})
Acted == OutsOf(steps, Tools)
LastPosition == trail[Len(steps) + 1]

ResultInv ==
  /\ Asked \in Seq(Outcomes) /\ Acted \in Seq(Outcomes)
  /\ Tallied(LastPosition, Asked, Acted)
  /\ cb.st = "answered" /\ cb.answer.op = "RunComplete" => cb.at.pc = "done"
  /\ run.st = "Completed" => /\ cb.st = "none"
                             /\ LastPosition.pc = "done" /\ run.output = Result(LastPosition)

LEMMA ResultInit == ASSUME ListHook PROVE Init => ResultInv
<1> SUFFICES ASSUME Init PROVE ResultInv
  OBVIOUS
<1>1. Len(steps) = 0 /\ LastPosition = Fresh
  BY DEF Init, LastPosition
<1>2. Asked = <<>> /\ Acted = <<>>
  BY <1>1, OutsOfNone DEF Asked, Acted
<1>3. <<>> \in Seq(Outcomes) /\ [s \in StepIds |-> 0] \in [StepIds -> Nat]
  OBVIOUS
<1>4. Tallied(Fresh, <<>>, <<>>)
  BY <1>3, BeginTallied DEF Fresh
<1>5. run.st = "Queued" /\ cb.st = "none"
  BY DEF Init, NoCallback
<1> QED BY <1>1, <1>2, <1>3, <1>4, <1>5 DEF ResultInv

\* A recorded step goes to the asks or to the acts, and takes the loop on.
LEMMA RecordTallied ==
  ASSUME ListHook, Inv, ResultInv, Record
  PROVE  Asked' \in Seq(Outcomes) /\ Acted' \in Seq(Outcomes) /\ Tallied(LastPosition, Asked, Acted)'
<1> DEFINE n == Len(steps)
           l == trail[n + 1]
           out == cb.answer.out
           e == [key |-> NextHash(cb.at), out |-> cb.answer.out]
<1>1. /\ n \in Nat /\ steps \in Seq(Rows) /\ cb.at = l /\ AtNewStep /\ out \in Outcomes /\ OutputOf(l, out)
      /\ LocalsOK(l) /\ l.pc \in StepPc
  BY NewStepIsLast DEF Inv, CallbackOK, TrailOK, Record, AtNewStep
<1>2. /\ steps' = Append(steps, e)
      /\ trail' = [p \in 1 .. n + 2 |-> IF p = n + 2 THEN After(l, out) ELSE trail[p]]
  BY <1>1 DEF Record, AtNewStep
<1>3. StepId(l) \in StepIds
  BY <1>1, AfterOK
<1>4. e.key[1] = StepId(l) /\ e.out = out /\ e \in Rows
  BY <1>1, <1>3 DEF NextHash, LocalsOK, Locals, Rows
<1>5. LastPosition = l
  BY DEF LastPosition
<1> HIDE DEF e, l, out
<1>6. Len(steps') = n + 1
  BY <1>1, <1>2, <1>4
<1>7. LastPosition' = After(l, out)
  BY <1>1, <1>2, <1>6 DEF LastPosition
<1>8. /\ Asked' = IF StepId(l) \in {LlmStep} THEN Append(Asked, out) ELSE Asked
      /\ Acted' = IF StepId(l) \in Tools THEN Append(Acted, out) ELSE Acted
  BY <1>1, <1>2, <1>4, OutsAppend DEF Asked, Acted
<1>9. Asked \in Seq(Outcomes) /\ Acted \in Seq(Outcomes) /\ Tallied(l, Asked, Acted)
  BY <1>5 DEF ResultInv
<1>10. CASE l.pc = "ask"
  <2>1. StepId(l) = LlmStep /\ LlmStep \notin Tools
    BY <1>10, AgentAssumption DEF StepId
  <2>2. Asked' = Append(Asked, out) /\ Acted' = Acted
    BY <1>8, <2>1
  <2>3. Tallied(After(l, out), Append(Asked, out), Acted)
    BY <1>1, <1>9, <1>10, AfterTallied
  <2>4. Append(Asked, out) \in Seq(Outcomes)
    BY <1>1, <1>9
  <2>5. Tallied(LastPosition', Asked', Acted')
    BY <1>7, <2>2, <2>3
  <2> QED BY <1>9, <2>2, <2>4, <2>5 DEF Tallied, RoundIs
<1>11. CASE l.pc = "act"
  <2>1. StepId(l) \in Tools /\ StepId(l) # LlmStep
    BY <1>1, <1>11, AgentAssumption DEF StepId, LocalsOK, Acting
  <2>2. Asked' = Asked /\ Acted' = Append(Acted, out)
    BY <1>8, <2>1
  <2>3. Tallied(After(l, out), Asked, Append(Acted, out))
    BY <1>1, <1>9, <1>11, AfterTallied
  <2>4. Append(Acted, out) \in Seq(Outcomes)
    BY <1>1, <1>9
  <2>5. Tallied(LastPosition', Asked', Acted')
    BY <1>7, <2>2, <2>3
  <2> QED BY <1>9, <2>2, <2>4, <2>5 DEF Tallied, RoundIs
<1> QED BY <1>1, <1>10, <1>11 DEF StepPc

LEMMA ResultNext == ASSUME ListHook PROVE Inv /\ OwnInv /\ ResultInv /\ [Next]_vars => ResultInv'
<1> SUFFICES ASSUME Inv, OwnInv, ResultInv, [Next]_vars PROVE ResultInv'
  OBVIOUS
<1>0. /\ cb = [st |-> cb.st, given |-> cb.given, at |-> cb.at, hits |-> cb.hits, answer |-> cb.answer]
      /\ run = [st |-> run.st, attempt |-> run.attempt, output |-> run.output]
  BY DEF Inv, CallbackOK, OwnInv, AttemptsOK
<1>1. CASE Record
  <2>1. cb.st = "answered" /\ run' = run /\ cb'.st = "none"
    BY <1>1 DEF Record, NoCallback
  <2>2. run.st # "Completed"
    BY <2>1 DEF ResultInv
  <2>3. Asked' \in Seq(Outcomes) /\ Acted' \in Seq(Outcomes) /\ Tallied(LastPosition, Asked, Acted)'
    BY <1>1, RecordTallied
  <2> QED BY <2>1, <2>2, <2>3 DEF ResultInv
<1>2. ASSUME UNCHANGED <<steps, trail>>
      PROVE  /\ Asked' = Asked /\ Acted' = Acted /\ LastPosition' = LastPosition
             /\ Asked' \in Seq(Outcomes) /\ Acted' \in Seq(Outcomes)
             /\ Tallied(LastPosition, Asked, Acted)'
  <2>1. Asked' = Asked /\ Acted' = Acted /\ LastPosition' = LastPosition
    BY <1>2 DEF Asked, Acted, LastPosition, OutsOf
  <2> QED BY <1>2, <2>1 DEF ResultInv, Tallied, RoundIs
<1>3. CASE Callback
  <2>1. UNCHANGED <<steps, trail>> /\ run'.st = "Running" /\ cb'.st = "running"
    BY <1>0, <1>3 DEF Callback, NoCallback
  <2> QED BY <1>2, <2>1 DEF ResultInv
<1>7. CASE Replay \/ Execute \/ Interrupt \/ Return
  <2>1. UNCHANGED <<steps, trail, run>> /\ cb.st # "none"
    BY <1>7 DEF Replay, AtStep, Execute, Interrupt, Return
  <2>2. cb'.st = "answered" /\ cb'.answer.op = "RunComplete" => cb'.at.pc = "done"
    <3>1. CASE Replay \/ Execute
      BY <1>0, <3>1 DEF Replay, AtStep, Execute
    <3>2. CASE Interrupt
      <4>1. PICK a \in {[op |-> "StepComplete", out |-> o] : o \in Outputs(cb.at)} \cup {[op |-> "StepError"]} :
              cb' = [cb EXCEPT !.st = "answered", !.answer = a]
        BY <3>2 DEF Interrupt
      <4>2. cb'.answer = a /\ a.op # "RunComplete"
        BY <1>0, <4>1
      <4> QED BY <4>2
    <3>3. CASE Return
      BY <1>0, <3>3 DEF Return
    <3> QED BY <1>7, <3>1, <3>2, <3>3
  <2> QED BY <1>2, <2>1, <2>2 DEF ResultInv
<1>4. CASE Complete
  <2>1. UNCHANGED <<steps, trail>> /\ cb'.st = "none" /\ cb.at.pc = "done"
        /\ run' = [run EXCEPT !.st = "Completed", !.output = Result(cb.at)]
    BY <1>4 DEF Complete, NoCallback, ResultInv
  <2>2. cb.at = LastPosition
    <3>1. cb.hits \in 0 .. Len(steps) /\ cb.at = trail[cb.hits + 1] /\ Len(steps) \in Nat
      BY DEF Inv, CallbackOK, TrailOK
    <3>2. \A p \in 1 .. Len(steps) : trail[p].pc # "done"
      BY DEF Inv, TrailOK, Linked, StepPc
    <3> QED BY <2>1, <3>1, <3>2 DEF LastPosition
  <2>3. run'.st = "Completed" => run'.output = Result(LastPosition)
    BY <2>1, <2>2
  <2> QED BY <1>2, <2>1, <2>2, <2>3 DEF ResultInv
<1>5. CASE Fail \/ Lose
  <2>1. UNCHANGED <<steps, trail>> /\ cb'.st = "none" /\ cb.st # "none"
    BY <1>5 DEF Fail, Lose, RetryOrFail, NoCallback
  <2>2. run'.st # "Completed"
    <3>1. run.st # "Completed"
      BY <2>1 DEF ResultInv
    <3>2. run' = run \/ run' = [run EXCEPT !.st = "Failed"]
      BY <1>5 DEF Fail, Lose, RetryOrFail
    <3> QED BY <1>0, <3>1, <3>2
  <2> QED BY <1>2, <2>1, <2>2 DEF ResultInv
<1>6. CASE StrayEnds \/ UNCHANGED vars
  <2>1. UNCHANGED <<steps, trail, cb, run>>
    BY <1>6 DEF StrayEnds, vars
  <2> QED BY <1>2, <2>1 DEF ResultInv
<1> QED BY <1>1, <1>3, <1>4, <1>5, <1>6, <1>7 DEF Next

\* With a hook that returns a list: whatever executions were lost, repeated or
\* went on as strays, the result of a completed run is that of the recorded
\* steps: records, usage, number of calls and last text (agent.ts:343-349, 154-166).
THEOREM ResultOfMemosAlways == ASSUME ListHook PROVE Spec => []ResultOfMemos
<1>1. ResultInv => ResultOfMemos
  <2> SUFFICES ASSUME ResultInv, run.st = "Completed"
               PROVE  LET res   == run.output
                          asks  == OutsOf(steps, {LlmStep})
                          acts  == OutsOf(steps, Tools)
                          round == LastOf(asks, res.iterations)
                      IN /\ [i \in DOMAIN res.toolCalls |-> res.toolCalls[i].output]
                              = LastOf(acts, Len(res.toolCalls))
                         /\ res.usage = Total([i \in DOMAIN round |-> round[i].used])
                         /\ Len(res.toolCalls) = Total([i \in DOMAIN round |-> Len(round[i].calls)])
                         /\ res.text = asks[Len(asks)].no
                         /\ res.text = LastAssistant(res.output)
    BY DEF ResultOfMemos
  <2> DEFINE l == LastPosition
             res == run.output
             round == LastOf(Asked, res.iterations)
  <2>1. /\ res.text = l.reply.no /\ res.iterations = l.it + 1 /\ res.usage = l.usage
        /\ res.toolCalls = l.records /\ res.output = l.msgs
    BY DEF ResultInv, Result
  <2>2. /\ RoundIs(l, l.it + 1, 0, Asked, Acted)
        /\ Asked # <<>> /\ l.reply = Asked[Len(Asked)]
        /\ l.msgs # <<>> /\ l.msgs[Len(l.msgs)] = Assistant(l.reply)
    BY DEF ResultInv, Tallied
  <2> HIDE DEF l, res
  <2>3. OutputsOf(res.toolCalls) = LastOf(Acted, Len(res.toolCalls))
    BY <2>1, <2>2 DEF RoundIs
  <2>4. res.usage = Total(UsedOf(round))
    BY <2>1, <2>2 DEF RoundIs
  <2>5. Len(res.toolCalls) = Total(CallsOf(round))
    <3>1. Len(l.records) \in Nat
      BY <2>2 DEF RoundIs, IsSequence
    <3> QED BY <2>1, <2>2, <3>1 DEF RoundIs
  <2>6. res.text = Asked[Len(Asked)].no
    BY <2>1, <2>2
  <2>7. res.text = LastAssistant(res.output)
    BY <2>1, <2>2, LastMessage DEF RoundIs
  <2> HIDE DEF round
  <2> QED BY <2>3, <2>4, <2>5, <2>6, <2>7 DEF Asked, Acted, OutputsOf, UsedOf, CallsOf, round, res
<1>2. Init => Inv /\ OwnInv /\ ResultInv
  BY InitInv, OwnInit, ResultInit
<1>3. Inv /\ OwnInv /\ ResultInv /\ [Next]_vars => (Inv /\ OwnInv /\ ResultInv)'
  BY InvPreserved, OwnNext, ResultNext
<1> QED BY <1>1, <1>2, <1>3, PTL DEF Spec

=============================================================================
