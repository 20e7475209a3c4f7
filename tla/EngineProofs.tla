---------------------------- MODULE EngineProofs ----------------------------
(***************************************************************************)
(* Safety of the engine for any number of runs and queue items, any        *)
(* program, any limits, and any number of crashes and failed calls: the    *)
(* shape of the state, what is never undone, and what is never recorded    *)
(* too early.                                                              *)
(***************************************************************************)
EXTENDS Engine, TLAPS

-----------------------------------------------------------------------------
(* The shape of the state: what the locals of a goroutine hold at each of   *)
(* its calls, and how they agree with the queue.                            *)

StepOps == {"StepComplete", "StepError", "Sleep", "SendEvent", "WaitForEvent"}

\* A row belongs to a run; a worker owns a leased row of its run until it
\* deletes it, and holds an answer only after the callback.
WorkerOK(i) ==
  /\ queue[i].st = "free" <=> queue[i].run = NoRun
  /\ pc[i] # "idle" => work[i].run \in Runs
  /\ pc[i] \notin {"idle", "enqueue"} => queue[i].st = "leased" /\ queue[i].run = work[i].run
  /\ pc[i] = "enqueue" => queue[i].st # "pending"
  /\ faults = 0 /\ pc[i] = "enqueue" => queue[i].st = "free"
  /\ work[i].op \in StepOps => /\ work[i].step \in Steps
                               /\ work[i].op \in Opcodes(Program[work[i].step])
  /\ pc[i] \in {"leased", "start", "claim", "mark", "wake", "load", "call"} => work[i].op = "none"
  /\ pc[i] = "recheck" => work[i].op # "none"
  /\ pc[i] = "save" => work[i].op \in StepOps
  /\ pc[i] = "send" => work[i].op = "SendEvent"
  /\ pc[i] = "wait" => work[i].op = "WaitForEvent"
  /\ pc[i] = "enqueue" => Advances(work[i].op)

RunnerOK ==
  /\ rn.pc # "idle" => rn.run \in Runs
  /\ rn.pc \in {"memo", "resolve"} =>
       rn.step \in Steps /\ rn.to # "none" /\ waits[rn.run][rn.step] = "waiting"

LoopOK ==
  /\ loop.pc = "announce" => loop.run \in Runs
  /\ loop.pc = "boot" => \A i \in Items : pc[i] = "idle"

Shape == TypeOK /\ (\A i \in Items : WorkerOK(i)) /\ RunnerOK /\ LoopOK

-----------------------------------------------------------------------------
(* Types of the values the store calls write. *)

MemoStates == {"none", "completed", "failed", "sleeping", "waiting"}
WaitStates == {"none", "waiting", "resolved", "timeout", "cancelled"}
Rows   == [st : {"free", "pending", "leased"}, run : Runs \cup {NoRun}, wake : Steps \cup {0}]
Locals == [run : Runs \cup {NoRun}, attempt : Nat, seen : SUBSET Steps,
           op : Ops \cup {"none"}, step : Steps \cup {0}]

\* An answer that interrupts the function names a step, with an opcode of its kind.
LEMMA AnswerType ==
  ASSUME NEW seen, NEW a \in Answers(seen)
  PROVE  /\ a[1] \in Ops /\ a[2] \in Steps \cup {0}
         /\ a[1] \in StepOps => a[2] \in Steps /\ a[1] \in Opcodes(Program[a[2]])
<1>1. CASE a = <<"RunError", 0>>
  BY <1>1 DEF Ops, StepOps
<1>2. CASE a = <<"RunComplete", 0>>
  BY <1>2 DEF Ops, StepOps
<1>3. CASE a \in {b \in Ops \X Steps : Interrupts(b[2], seen) /\ b[1] \in Opcodes(Program[b[2]])}
  BY <1>3
<1> QED BY <1>1, <1>2, <1>3 DEF Answers

\* The memo of an answer is one of the memo's states.
LEMMA MemoType == ASSUME NEW op \in StepOps PROVE MemoOf(op) \in MemoStates
BY DEF MemoOf, StepOps, MemoStates

\* Saving a memo keeps the table of memos well-formed.
LEMMA SaveType ==
  ASSUME StoreTypeOK, NEW r, NEW s, NEW to \in MemoStates, SaveStepResult(r, s, to)
  PROVE  memo' \in [Runs -> [Steps -> MemoStates]]
BY DEF StoreTypeOK, SaveStepResult, MemoStates

\* So does completing the sleeping steps of a run.
LEMMA SleepersType ==
  ASSUME StoreTypeOK, NEW r \in Runs, CompleteSleepingSteps(r)
  PROVE  memo' \in [Runs -> [Steps -> MemoStates]]
<1> DEFINE m == [s \in Steps |-> IF memo[r][s] = "sleeping" THEN "completed" ELSE memo[r][s]]
<1>1. m \in [Steps -> MemoStates]
  BY DEF StoreTypeOK, MemoStates
<1>2. memo' = [memo EXCEPT ![r] = m]
  BY DEF CompleteSleepingSteps
<1> HIDE DEF m
<1> QED BY <1>1, <1>2 DEF StoreTypeOK, MemoStates

\* Giving a row back keeps the queue well-formed.
LEMMA ReleaseType ==
  ASSUME StoreTypeOK, NEW i \in Items, ReleaseLease(i)
  PROVE  queue' \in [Items -> Rows]
<1> DEFINE row == [queue[i] EXCEPT !.st = "pending"]
<1>1. queue \in [Items -> Rows]
  BY DEF StoreTypeOK, Rows
<1>2. row \in Rows
  BY <1>1 DEF Rows
<1>3. queue' = [queue EXCEPT ![i] = row]
  BY DEF ReleaseLease
<1> HIDE DEF row
<1> QED BY <1>1, <1>2, <1>3

\* So does adding one ...
LEMMA EnqueueType ==
  ASSUME StoreTypeOK, NEW i \in Items, NEW r \in Runs, NEW wake \in Steps \cup {0}, Enqueue(i, r, wake)
  PROVE  queue' \in [Items -> Rows]
<1> DEFINE row == [st |-> "pending", run |-> r, wake |-> wake]
<1>1. queue \in [Items -> Rows]
  BY DEF StoreTypeOK, Rows
<1>2. row \in Rows
  BY DEF Rows
<1>3. queue' = [queue EXCEPT ![i] = row]
  BY DEF Enqueue
<1> HIDE DEF row
<1> QED BY <1>1, <1>2, <1>3

\* ... and taking expired leases back.
LEMMA RequeueType ==
  ASSUME StoreTypeOK, NEW expired, RequeueExpiredLeases(expired)
  PROVE  queue' \in [Items -> Rows]
<1>1. queue \in [Items -> Rows]
  BY DEF StoreTypeOK, Rows
<1>2. ASSUME NEW i \in Items PROVE [queue[i] EXCEPT !.st = "pending"] \in Rows
  BY <1>1 DEF Rows
<1> QED BY <1>1, <1>2, Zenon DEF RequeueExpiredLeases

\* Ending a run keeps the statuses well-formed.
LEMMA EndRunType ==
  ASSUME StoreTypeOK, NEW r, NEW to \in Terminal, EndRun(r, to)
  PROVE  status' \in [Runs -> {"None"} \cup Active \cup Terminal]
BY DEF StoreTypeOK, EndRun

-----------------------------------------------------------------------------
(* The calls of a worker keep the shape. *)

Untouched(j) == queue'[j] = queue[j] /\ pc'[j] = pc[j] /\ work'[j] = work[j]
WaitsKept    == \A r \in Runs, s \in Steps : waits[r][s] = "waiting" => waits'[r][s] = "waiting"

\* What a call touches: its own worker and row, and no open wait.
OnlyWorker(i) ==
  /\ \A j \in Items : j # i => Untouched(j)
  /\ faults' = 0 => faults = 0
  /\ WaitsKept

\* A worker that a step does not touch stays as it should be.
LEMMA WorkerFrame ==
  ASSUME NEW j \in Items, WorkerOK(j), Untouched(j), faults' = 0 => faults = 0
  PROVE  WorkerOK(j)'
BY DEF WorkerOK, Advances, Untouched

\* A step that leaves the loop and the runner alone, and keeps every worker as
\* it should be, keeps the shape.
LEMMA WorkersShape ==
  ASSUME Shape, NEW i \in Items, pc[i] # "idle", StoreTypeOK', ExecutorTypeOK',
         \A j \in Items : WorkerOK(j)', WaitsKept, UNCHANGED <<loop, rn, crashes>>
  PROVE  Shape'
<1>1. TypeOK'
  BY DEF Shape, TypeOK, RunnerTypeOK
<1>2. RunnerOK'
  BY DEF Shape, RunnerOK, WaitsKept, TypeOK, RunnerTypeOK
<1>3. LoopOK'
  BY DEF Shape, LoopOK, TypeOK, ExecutorTypeOK
<1> QED BY <1>1, <1>2, <1>3 DEF Shape

\* The same for a call that touches its own worker only.
LEMMA WorkerShape ==
  ASSUME Shape, NEW i \in Items, pc[i] # "idle", StoreTypeOK', ExecutorTypeOK', WorkerOK(i)',
         OnlyWorker(i), UNCHANGED <<loop, rn, crashes>>
  PROVE  Shape'
<1>1. ASSUME NEW j \in Items PROVE WorkerOK(j)'
  <2>1. CASE j = i
    BY <2>1
  <2>2. CASE j # i
    BY <2>2, WorkerFrame DEF OnlyWorker, Shape
  <2> QED BY <2>1, <2>2
<1> QED BY <1>1, WorkersShape DEF OnlyWorker

\* Admitting an item keeps the shape.
LEMMA AdmitShape ==
  ASSUME Shape, NEW i \in Items, Admit(i), UNCHANGED <<rn, crashes>>
  PROVE  Shape'
<1> USE DEF Shape, TypeOK
<1>1. StoreTypeOK'
  BY DEF Admit, StoreTypeOK, storeVars
<1>2. ExecutorTypeOK'
  BY DEF Admit, ExecutorTypeOK, Goto, PCs
<1>3. WorkerOK(i)'
  BY DEF Admit, ExecutorTypeOK, WorkerOK, StepOps, Goto, storeVars
<1>4. OnlyWorker(i)
  BY DEF Admit, OnlyWorker, Untouched, WaitsKept, StoreTypeOK, ExecutorTypeOK,
    Goto, storeVars
<1> QED BY <1>1, <1>2, <1>3, <1>4, WorkerShape DEF Admit

\* So does putting it back ...
LEMMA RejectShape ==
  ASSUME Shape, NEW i \in Items, Reject(i), UNCHANGED <<rn, crashes>>
  PROVE  Shape'
<1> USE DEF Shape, TypeOK
<1>1. StoreTypeOK'
  <2>1. queue' \in [Items -> Rows]
    <3>1. CASE ReleaseLease(i)
      BY <3>1, ReleaseType
    <3>2. CASE UNCHANGED queue
      BY <3>2 DEF StoreTypeOK, Rows
    <3> QED BY <3>1, <3>2 DEF Reject
  <2>2. UNCHANGED <<status, attempt, memo, waits, asleep, sent, announced>> /\ faults' \in Nat
    BY DEF Reject, StoreTypeOK, Succeeds, Errs
  <2> QED BY <2>1, <2>2 DEF StoreTypeOK, Rows
<1>2. ExecutorTypeOK'
  BY DEF Reject, ExecutorTypeOK, Goto, PCs, Return, NoWork
<1>3. WorkerOK(i)'
  <2>1. pc'[i] = "idle" /\ work'[i].op = "none"
    BY DEF Reject, Return, Goto, NoWork, ExecutorTypeOK
  <2>2. queue[i].st = "leased" /\ queue[i].run # NoRun
    BY StoreAssumption DEF Reject, WorkerOK
  <2>3. queue'[i].run = queue[i].run /\ queue'[i].st \in {"leased", "pending"}
    BY <2>2 DEF Reject, ReleaseLease, StoreTypeOK
  <2> QED BY <2>1, <2>2, <2>3 DEF WorkerOK, StepOps
<1>4. OnlyWorker(i)
  BY DEF Reject, OnlyWorker, Untouched, WaitsKept, StoreTypeOK,
    ExecutorTypeOK, Goto, Return, Succeeds, Errs, ReleaseLease
<1> QED BY <1>1, <1>2, <1>3, <1>4, WorkerShape DEF Reject

\* ... the first read of its run ...
LEMMA StartShape ==
  ASSUME Shape, NEW i \in Items, Start(i), UNCHANGED <<rn, crashes>>
  PROVE  Shape'
<1> USE DEF Shape, TypeOK
<1>1. StoreTypeOK'
  BY DEF Start, WorkerOK, StoreTypeOK, Succeeds, Errs
<1>2. ExecutorTypeOK'
  BY DEF Start, ExecutorTypeOK, Goto, PCs
<1>3. WorkerOK(i)'
  BY DEF Start, ExecutorTypeOK, WorkerOK, StepOps, Goto, NoWork
<1>4. OnlyWorker(i)
  BY DEF Start, OnlyWorker, Untouched, WaitsKept, StoreTypeOK, ExecutorTypeOK,
    Goto, Succeeds, Errs
<1> QED BY <1>1, <1>2, <1>3, <1>4, WorkerShape DEF Start

\* ... an unregistered function ...
LEMMA StartUnregisteredShape ==
  ASSUME Shape, NEW i \in Items, StartUnregistered(i), UNCHANGED <<rn, crashes>>
  PROVE  Shape'
<1> USE DEF Shape, TypeOK
<1>1. StoreTypeOK'
  BY DEF StartUnregistered, StoreTypeOK, storeVars
<1>2. ExecutorTypeOK'
  BY DEF StartUnregistered, ExecutorTypeOK, Goto, PCs
<1>3. WorkerOK(i)'
  BY DEF StartUnregistered, ExecutorTypeOK, WorkerOK, StepOps, Goto, storeVars
<1>4. OnlyWorker(i)
  BY DEF StartUnregistered, OnlyWorker, Untouched, WaitsKept, StoreTypeOK,
    ExecutorTypeOK, Goto, storeVars
<1> QED BY <1>1, <1>2, <1>3, <1>4, WorkerShape DEF StartUnregistered

\* ... a full throttle window ...
LEMMA StartThrottledShape ==
  ASSUME Shape, NEW i \in Items, StartThrottled(i), UNCHANGED <<rn, crashes>>
  PROVE  Shape'
<1> USE DEF Shape, TypeOK
<1>1. StoreTypeOK'
  BY DEF StartThrottled, StoreTypeOK, storeVars
<1>2. ExecutorTypeOK'
  BY DEF StartThrottled, ExecutorTypeOK, Goto, PCs
<1>3. WorkerOK(i)'
  BY DEF StartThrottled, ExecutorTypeOK, WorkerOK, StepOps, Goto, storeVars
<1>4. OnlyWorker(i)
  BY DEF StartThrottled, OnlyWorker, Untouched, WaitsKept, StoreTypeOK,
    ExecutorTypeOK, Goto, storeVars
<1> QED BY <1>1, <1>2, <1>3, <1>4, WorkerShape DEF StartThrottled

\* ... the claim of an attempt ...
LEMMA ClaimShape ==
  ASSUME Shape, NEW i \in Items, Claim(i), UNCHANGED <<rn, crashes>>
  PROVE  Shape'
<1> USE DEF Shape, TypeOK
<1>0. attempt[work[i].run] \in Nat /\ attempt[work[i].run] + 1 \in Nat
  BY DEF StoreTypeOK, Claim, WorkerOK
<1>1. StoreTypeOK'
  BY <1>0 DEF Claim, WorkerOK, StoreTypeOK, Succeeds, Errs,
    IncrementRunAttempt
<1>2. ExecutorTypeOK'
  BY <1>0 DEF Claim, ExecutorTypeOK, Goto, PCs
<1>3. WorkerOK(i)'
  BY DEF Claim, ExecutorTypeOK, WorkerOK, StepOps, Goto
<1>4. OnlyWorker(i)
  BY DEF Claim, OnlyWorker, Untouched, WaitsKept, StoreTypeOK, ExecutorTypeOK,
    Goto, Succeeds, Errs
<1> QED BY <1>1, <1>2, <1>3, <1>4, WorkerShape DEF Claim

\* ... marking the run running ...
LEMMA MarkShape ==
  ASSUME Shape, NEW i \in Items, Mark(i), UNCHANGED <<rn, crashes>>
  PROVE  Shape'
<1> USE DEF Shape, TypeOK
<1>1. StoreTypeOK'
  BY DEF Mark, WorkerOK, StoreTypeOK, Succeeds, Errs, MarkRunRunning, Active
<1>2. ExecutorTypeOK'
  BY DEF Mark, ExecutorTypeOK, Goto, PCs
<1>3. WorkerOK(i)'
  BY DEF Mark, ExecutorTypeOK, WorkerOK, StepOps, Goto
<1>4. OnlyWorker(i)
  BY DEF Mark, OnlyWorker, Untouched, WaitsKept, StoreTypeOK, ExecutorTypeOK,
    Goto, Succeeds, Errs
<1> QED BY <1>1, <1>2, <1>3, <1>4, WorkerShape DEF Mark

\* ... completing its sleeps ...
LEMMA WakeSleepingShape ==
  ASSUME Shape, NEW i \in Items, WakeSleeping(i), UNCHANGED <<rn, crashes>>
  PROVE  Shape'
<1> USE DEF Shape, TypeOK
<1>1. StoreTypeOK'
  <2>1. memo' \in [Runs -> [Steps -> MemoStates]]
    BY SleepersType DEF WakeSleeping, WorkerOK, StoreTypeOK, MemoStates
  <2>2. UNCHANGED <<status, attempt, waits, queue, asleep, sent, announced>> /\ faults' \in Nat
    BY DEF WakeSleeping, StoreTypeOK, Succeeds, Errs
  <2> QED BY <2>1, <2>2 DEF StoreTypeOK, MemoStates
<1>2. ExecutorTypeOK'
  BY DEF WakeSleeping, ExecutorTypeOK, Goto, PCs, RetryOrFail
<1>3. WorkerOK(i)'
  BY DEF WakeSleeping, ExecutorTypeOK, WorkerOK, StepOps, Goto, RetryOrFail
<1>4. OnlyWorker(i)
  BY DEF WakeSleeping, OnlyWorker, Untouched, WaitsKept, StoreTypeOK,
    ExecutorTypeOK, Goto, Succeeds, Errs
<1> QED BY <1>1, <1>2, <1>3, <1>4, WorkerShape DEF WakeSleeping

\* ... loading its memos ...
LEMMA LoadShape ==
  ASSUME Shape, NEW i \in Items, Load(i), UNCHANGED <<rn, crashes>>
  PROVE  Shape'
<1> USE DEF Shape, TypeOK
<1>1. StoreTypeOK'
  BY DEF Load, WorkerOK, StoreTypeOK, Succeeds, Errs
<1>2. ExecutorTypeOK'
  <2>1. CompletedSteps(work[i].run) \in SUBSET Steps
    BY DEF CompletedSteps
  <2>2. work' = [work EXCEPT ![i].seen = CompletedSteps(work[i].run)] \/ UNCHANGED work
    BY DEF Load
  <2>3. work' \in [Items -> Locals]
    BY <2>1, <2>2 DEF ExecutorTypeOK, Locals
  <2>4. UNCHANGED loop /\ pc' \in [Items -> PCs]
    BY DEF Load, ExecutorTypeOK, Goto, PCs, RetryOrFail
  <2> QED BY <2>3, <2>4 DEF ExecutorTypeOK, Locals
<1>3. WorkerOK(i)'
  BY DEF Load, ExecutorTypeOK, WorkerOK, StepOps, Goto, RetryOrFail
<1>4. OnlyWorker(i)
  BY DEF Load, OnlyWorker, Untouched, WaitsKept, StoreTypeOK, ExecutorTypeOK,
    Goto, Succeeds, Errs
<1> QED BY <1>1, <1>2, <1>3, <1>4, WorkerShape DEF Load

\* An answer names a step of its own kind.
LEMMA AnswerShape ==
  ASSUME Shape, NEW i \in Items, Answer(i), UNCHANGED <<rn, crashes>>
  PROVE  Shape'
<1> USE DEF Shape, TypeOK
<1>0. PICK a \in Answers(work[i].seen) :
        /\ work' = [work EXCEPT ![i] = [run |-> work[i].run, attempt |-> work[i].attempt,
                                        seen |-> work[i].seen, op |-> a[1], step |-> a[2]]]
        /\ asleep' = IF a[1] = "Sleep" THEN asleep \cup {<<work[i].run, a[2]>>} ELSE asleep
  BY DEF Answer
<1>5. a[1] \in Ops /\ a[2] \in Steps \cup {0}
  BY AnswerType
<1>6. a[1] \in StepOps => a[2] \in Steps /\ a[1] \in Opcodes(Program[a[2]])
  BY AnswerType
<1>1. StoreTypeOK'
  <2>1. work[i].run \in Runs
    BY DEF Answer, WorkerOK
  <2>2. asleep' \subseteq Runs \X Steps
    BY <1>0, <1>6, <2>1 DEF StoreTypeOK, StepOps
  <2> QED BY <2>2 DEF Answer, StoreTypeOK
<1>2. ExecutorTypeOK'
  <2>1. work' \in [Items -> Locals]
    BY <1>0, <1>5 DEF ExecutorTypeOK, Locals
  <2>2. UNCHANGED loop /\ pc' \in [Items -> PCs]
    BY DEF Answer, ExecutorTypeOK, Goto, PCs
  <2> QED BY <2>1, <2>2 DEF ExecutorTypeOK, Locals
<1>3. WorkerOK(i)'
  BY <1>0, <1>5, <1>6 DEF WorkerOK, Answer, ExecutorTypeOK, Goto, StepOps, Ops
<1>4. OnlyWorker(i)
  BY DEF Answer, OnlyWorker, Untouched, WaitsKept, StoreTypeOK,
    ExecutorTypeOK, Goto, Succeeds, Errs
<1> QED BY <1>1, <1>2, <1>3, <1>4, WorkerShape DEF Answer

\* No answer leads to a retry or to the failure of the run.
LEMMA NoAnswerShape ==
  ASSUME Shape, NEW i \in Items, NoAnswer(i), UNCHANGED <<rn, crashes>>
  PROVE  Shape'
<1> USE DEF Shape, TypeOK
<1>1. StoreTypeOK'
  BY DEF NoAnswer, StoreTypeOK, storeVars
<1>2. ExecutorTypeOK'
  BY DEF NoAnswer, ExecutorTypeOK, Goto, PCs, RetryOrFail
<1>3. WorkerOK(i)'
  BY DEF NoAnswer, ExecutorTypeOK, WorkerOK, StepOps, Goto, RetryOrFail,
    storeVars
<1>4. OnlyWorker(i)
  BY DEF NoAnswer, OnlyWorker, Untouched, WaitsKept, StoreTypeOK,
    ExecutorTypeOK, Goto, storeVars
<1> QED BY <1>1, <1>2, <1>3, <1>4, WorkerShape DEF NoAnswer

\* The second read of the run picks the call that handles the answer.
LEMMA RecheckShape ==
  ASSUME Shape, NEW i \in Items, Recheck(i), UNCHANGED <<rn, crashes>>
  PROVE  Shape'
<1> USE DEF Shape, TypeOK
<1>1. StoreTypeOK'
  BY DEF Recheck, WorkerOK, StoreTypeOK, Succeeds, Errs
<1>2. ExecutorTypeOK'
  <2>1. work' \in [Items -> Locals]
    BY DEF Recheck, ExecutorTypeOK, Locals
  <2>2. work[i].op \in Ops
    BY DEF Recheck, ExecutorTypeOK, WorkerOK
  <2>3. work[i].op # "RunError" => Handles(work[i].op) \in PCs
    BY <2>2 DEF Handles, PCs, Ops
  <2>4. UNCHANGED loop /\ pc' \in [Items -> PCs]
    BY <2>3 DEF Recheck, ExecutorTypeOK, Goto, PCs, RetryOrFail
  <2> QED BY <2>1, <2>4 DEF ExecutorTypeOK, Locals
<1>3. WorkerOK(i)'
  BY DEF Recheck, ExecutorTypeOK, WorkerOK, StepOps, Goto, RetryOrFail,
    Handles, Ops
<1>4. OnlyWorker(i)
  BY DEF Recheck, OnlyWorker, Untouched, WaitsKept, StoreTypeOK,
    ExecutorTypeOK, Goto, Succeeds, Errs
<1> QED BY <1>1, <1>2, <1>3, <1>4, WorkerShape DEF Recheck

\* Storing the events of a step keeps the shape.
LEMMA SendEventsShape ==
  ASSUME Shape, NEW i \in Items, SendEvents(i), UNCHANGED <<rn, crashes>>
  PROVE  Shape'
<1> USE DEF Shape, TypeOK
<1>1. StoreTypeOK'
  <2>1. work[i].run \in Runs /\ work[i].step \in Steps
    BY DEF SendEvents, WorkerOK, StepOps
  <2>2. sent' \subseteq Runs \X Steps
    BY <2>1 DEF SendEvents, StoreTypeOK
  <2>3. UNCHANGED <<status, attempt, memo, waits, queue, asleep, announced>> /\ faults' \in Nat
    BY DEF SendEvents, StoreTypeOK, Succeeds, Errs
  <2> QED BY <2>2, <2>3 DEF StoreTypeOK
<1>2. ExecutorTypeOK'
  BY DEF SendEvents, ExecutorTypeOK, Goto, PCs, RetryOrFail
<1>3. WorkerOK(i)'
  BY DEF SendEvents, ExecutorTypeOK, WorkerOK, StepOps, Goto, RetryOrFail
<1>4. OnlyWorker(i)
  BY DEF SendEvents, OnlyWorker, Untouched, WaitsKept, StoreTypeOK,
    ExecutorTypeOK, Goto, Succeeds, Errs
<1> QED BY <1>1, <1>2, <1>3, <1>4, WorkerShape DEF SendEvents

\* So does saving its memo ...
LEMMA SaveShape ==
  ASSUME Shape, NEW i \in Items, Save(i), UNCHANGED <<rn, crashes>>
  PROVE  Shape'
<1> USE DEF Shape, TypeOK
<1>1. StoreTypeOK'
  <2>1. MemoOf(work[i].op) \in MemoStates
    BY MemoType DEF Save, WorkerOK
  <2>2. memo' \in [Runs -> [Steps -> MemoStates]]
    <3>1. CASE SaveStepResult(work[i].run, work[i].step, MemoOf(work[i].op))
      BY <2>1, <3>1, SaveType
    <3>2. CASE UNCHANGED memo
      BY <3>2 DEF StoreTypeOK, MemoStates
    <3> QED BY <3>1, <3>2 DEF Save
  <2>3. UNCHANGED <<status, attempt, waits, queue, asleep, sent, announced>> /\ faults' \in Nat
    BY DEF Save, StoreTypeOK, Succeeds, Errs
  <2> QED BY <2>2, <2>3 DEF StoreTypeOK, MemoStates
<1>2. ExecutorTypeOK'
  BY DEF Save, ExecutorTypeOK, Goto, PCs, RetryOrFail
<1>3. WorkerOK(i)'
  BY DEF Save, ExecutorTypeOK, WorkerOK, StepOps, Goto, RetryOrFail
<1>4. OnlyWorker(i)
  BY DEF Save, OnlyWorker, Untouched, WaitsKept, StoreTypeOK, ExecutorTypeOK,
    Goto, Succeeds, Errs
<1> QED BY <1>1, <1>2, <1>3, <1>4, WorkerShape DEF Save

\* ... parking the run on a wait, which opens waits only ...
LEMMA ParkShape ==
  ASSUME Shape, NEW i \in Items, Park(i), UNCHANGED <<rn, crashes>>
  PROVE  Shape'
<1> USE DEF Shape, TypeOK
<1>1. StoreTypeOK'
  BY DEF Park, WorkerOK, StoreTypeOK, Succeeds, Errs, CreateWait
<1>2. ExecutorTypeOK'
  BY DEF Park, ExecutorTypeOK, Goto, PCs, RetryOrFail
<1>3. WorkerOK(i)'
  BY DEF Park, ExecutorTypeOK, WorkerOK, StepOps, Goto, RetryOrFail
<1>4. OnlyWorker(i)
  <2>1. WaitsKept
    <3>1. CASE UNCHANGED waits
      BY <3>1 DEF WaitsKept
    <3>2. CASE CreateWait(work[i].run, work[i].step)
      BY <3>2 DEF CreateWait, StoreTypeOK, WaitsKept
    <3> QED BY <3>1, <3>2 DEF Park
  <2> QED BY <2>1 DEF OnlyWorker, Untouched, Park, Goto, Succeeds, Errs, StoreTypeOK, ExecutorTypeOK
<1> QED BY <1>1, <1>2, <1>3, <1>4, WorkerShape DEF Park

\* ... completing the run ...
LEMMA CompleteShape ==
  ASSUME Shape, NEW i \in Items, Complete(i), UNCHANGED <<rn, crashes>>
  PROVE  Shape'
<1> USE DEF Shape, TypeOK
<1>1. StoreTypeOK'
  <2>1. CASE UNCHANGED status
    BY <2>1 DEF Complete, StoreTypeOK, Succeeds, Errs
  <2>2. CASE CompleteRun(work[i].run)
    <3>1. status' \in [Runs -> {"None"} \cup Active \cup Terminal]
      BY <2>2, EndRunType DEF CompleteRun, Terminal
    <3> QED BY <3>1 DEF Complete, StoreTypeOK, Succeeds, Errs
  <2> QED BY <2>1, <2>2 DEF Complete
<1>2. ExecutorTypeOK'
  BY DEF Complete, ExecutorTypeOK, Goto, PCs
<1>3. WorkerOK(i)'
  BY DEF Complete, ExecutorTypeOK, WorkerOK, StepOps, Goto
<1>4. OnlyWorker(i)
  BY DEF Complete, OnlyWorker, Untouched, WaitsKept, StoreTypeOK,
    ExecutorTypeOK, Goto, Succeeds, Errs
<1> QED BY <1>1, <1>2, <1>3, <1>4, WorkerShape DEF Complete

\* ... failing it ...
LEMMA FailShape ==
  ASSUME Shape, NEW i \in Items, Fail(i), UNCHANGED <<rn, crashes>>
  PROVE  Shape'
<1> USE DEF Shape, TypeOK
<1>1. StoreTypeOK'
  <2>1. CASE UNCHANGED status
    BY <2>1 DEF Fail, StoreTypeOK, Succeeds, Errs
  <2>2. CASE FailRun(work[i].run)
    <3>1. status' \in [Runs -> {"None"} \cup Active \cup Terminal]
      BY <2>2, EndRunType DEF FailRun, Terminal
    <3>2. UNCHANGED <<attempt, memo, waits, queue, asleep, sent, announced>> /\ faults' \in Nat
      BY DEF Fail, StoreTypeOK, Succeeds, Errs
    <3> QED BY <3>1, <3>2 DEF StoreTypeOK
  <2> QED BY <2>1, <2>2 DEF Fail
<1>2. ExecutorTypeOK'
  <2>1. "none" \in Ops \cup {"none"} /\ "announce" \in PCs /\ "finish" \in PCs
    BY DEF PCs
  <2>2. pc' \in [Items -> PCs] /\ UNCHANGED loop
    BY <2>1 DEF Fail, ExecutorTypeOK, Goto
  <2>3. work' \in [Items -> Locals]
    BY <2>1 DEF Fail, ExecutorTypeOK, Locals
  <2> QED BY <2>2, <2>3 DEF ExecutorTypeOK, Locals
<1>3. WorkerOK(i)'
  BY DEF Fail, ExecutorTypeOK, WorkerOK, StepOps, Goto
<1>4. OnlyWorker(i)
  BY DEF Fail, OnlyWorker, Untouched, WaitsKept, StoreTypeOK, ExecutorTypeOK,
    Goto, Succeeds, Errs
<1> QED BY <1>1, <1>2, <1>3, <1>4, WorkerShape DEF Fail

\* ... announcing its failure ...
LEMMA AnnounceShape ==
  ASSUME Shape, NEW i \in Items, Announce(i), UNCHANGED <<rn, crashes>>
  PROVE  Shape'
<1> USE DEF Shape, TypeOK
<1>1. StoreTypeOK'
  <2>1. announced' \subseteq Runs
    BY DEF Announce, WorkerOK, StoreTypeOK
  <2>2. UNCHANGED <<status, attempt, memo, waits, queue, asleep, sent>> /\ faults' \in Nat
    BY DEF Announce, StoreTypeOK, Succeeds, Errs
  <2> QED BY <2>1, <2>2 DEF StoreTypeOK
<1>2. ExecutorTypeOK'
  BY DEF Announce, ExecutorTypeOK, Goto, PCs
<1>3. WorkerOK(i)'
  BY DEF Announce, ExecutorTypeOK, WorkerOK, StepOps, Goto
<1>4. OnlyWorker(i)
  BY DEF Announce, OnlyWorker, Untouched, WaitsKept, StoreTypeOK,
    ExecutorTypeOK, Goto, Succeeds, Errs
<1> QED BY <1>1, <1>2, <1>3, <1>4, WorkerShape DEF Announce

\* ... and putting the item back.
LEMMA ReleaseShape ==
  ASSUME Shape, NEW i \in Items, Release(i), UNCHANGED <<rn, crashes>>
  PROVE  Shape'
<1> USE DEF Shape, TypeOK
<1>1. StoreTypeOK'
  <2>1. queue' \in [Items -> Rows]
    <3>1. CASE ReleaseLease(i)
      BY <3>1, ReleaseType
    <3>2. CASE UNCHANGED queue
      BY <3>2 DEF StoreTypeOK, Rows
    <3> QED BY <3>1, <3>2 DEF Release
  <2>2. UNCHANGED <<status, attempt, memo, waits, asleep, sent, announced>> /\ faults' \in Nat
    BY DEF Release, StoreTypeOK, Succeeds, Errs
  <2> QED BY <2>1, <2>2 DEF StoreTypeOK, Rows
<1>2. ExecutorTypeOK'
  BY DEF Release, ExecutorTypeOK, Goto, PCs, Return, NoWork
<1>3. WorkerOK(i)'
  BY DEF Release, ExecutorTypeOK, WorkerOK, StepOps, Goto, ReleaseLease,
    Return, NoWork, StoreTypeOK
<1>4. OnlyWorker(i)
  BY DEF Release, OnlyWorker, Untouched, WaitsKept, StoreTypeOK,
    ExecutorTypeOK, Goto, Return, Succeeds, Errs, ReleaseLease
<1> QED BY <1>1, <1>2, <1>3, <1>4, WorkerShape DEF Release

\* A worker that goes on to enqueueNext has deleted its row, unless the call failed.
LEMMA FinishShape ==
  ASSUME Shape, NEW i \in Items, Finish(i), UNCHANGED <<rn, crashes>>
  PROVE  Shape'
<1> USE DEF Shape, TypeOK
<1>1. StoreTypeOK'
  <2>1. queue' \in [Items -> Rows]
    BY DEF Finish, CompleteQueueItem, NoItem, StoreTypeOK, Rows
  <2>2. UNCHANGED <<status, attempt, memo, waits, asleep, sent, announced>> /\ faults' \in Nat
    BY DEF Finish, StoreTypeOK, Succeeds, Errs
  <2> QED BY <2>1, <2>2 DEF StoreTypeOK, Rows
<1>2. ExecutorTypeOK'
  <2>1. NoWork \in Locals
    BY DEF NoWork, Locals
  <2>2. \/ pc' = [pc EXCEPT ![i] = "enqueue"] /\ work' = work
        \/ pc' = [pc EXCEPT ![i] = "idle"] /\ work' = [work EXCEPT ![i] = NoWork]
    BY DEF Finish, Goto, Return
  <2>3. UNCHANGED loop
    BY DEF Finish
  <2> QED BY <2>1, <2>2, <2>3 DEF ExecutorTypeOK, PCs, Locals
<1>3. WorkerOK(i)'
  BY StoreAssumption DEF Finish, ExecutorTypeOK, WorkerOK, StepOps, Goto,
    Return, NoWork, NoItem, CompleteQueueItem, Advances, Succeeds, Errs,
    StoreTypeOK
<1>4. OnlyWorker(i)
  BY DEF Finish, OnlyWorker, Untouched, WaitsKept, StoreTypeOK,
    ExecutorTypeOK, Goto, Return, Succeeds, Errs, CompleteQueueItem
<1> QED BY <1>1, <1>2, <1>3, <1>4, WorkerShape DEF Finish

\* enqueueNext takes a free row, which no other worker holds.
LEMMA EnqueueNextShape ==
  ASSUME Shape, NEW i \in Items, EnqueueNext(i), UNCHANGED <<rn, crashes>>
  PROVE  Shape'
<1> USE DEF Shape, TypeOK
<1>1. \/ UNCHANGED queue /\ Errs
      \/ /\ Succeeds
         /\ \E j \in Items, wake \in Steps \cup {0} : Fresh(j, i) /\ Enqueue(j, work[i].run, wake)
  BY DEF EnqueueNext, ExecutorTypeOK
<1>2. /\ pc[i] = "enqueue" /\ work[i].run \in Runs /\ queue[i].st # "pending"
      /\ pc' = [pc EXCEPT ![i] = "idle"] /\ work' = [work EXCEPT ![i] = NoWork]
      /\ UNCHANGED <<status, attempt, memo, waits, asleep, sent, announced, loop>>
  BY DEF EnqueueNext, WorkerOK, Return, Goto
<1>3. StoreTypeOK'
  <2>1. queue' \in [Items -> Rows]
    BY <1>1, <1>2 DEF Enqueue, StoreTypeOK, Rows
  <2> QED BY <1>1, <1>2, <2>1 DEF StoreTypeOK, Succeeds, Errs, Rows
<1>4. ExecutorTypeOK'
  <2>1. NoWork \in Locals
    BY DEF NoWork, Locals
  <2> QED BY <1>2, <2>1 DEF ExecutorTypeOK, PCs, Locals
<1>5. ASSUME NEW k \in Items PROVE WorkerOK(k)'
  <2>1. faults' = 0 => faults = 0
    BY <1>1 DEF StoreTypeOK, Succeeds, Errs
  <2>2. CASE Untouched(k)
    BY <2>1, <2>2, WorkerFrame
  <2>3. CASE queue'[k] = queue[k] /\ k = i
    BY <1>2, <2>3 DEF WorkerOK, NoWork, ExecutorTypeOK, StepOps
  <2>4. CASE \E wake : /\ Fresh(k, i)
                       /\ queue'[k] = [st |-> "pending", run |-> work[i].run, wake |-> wake]
    <3>1. pc'[k] = "idle" /\ work'[k] \in {work[k], NoWork}
      BY <1>2, <2>4 DEF Fresh, ExecutorTypeOK
    <3>2. /\ queue'[k].st = "pending" /\ queue'[k].run = work[i].run /\ work[i].run # NoRun
      BY <1>2, <2>4, StoreAssumption
    <3>3. work'[k].op \in StepOps => work'[k] = work[k]
      BY <3>1 DEF NoWork, StepOps
    <3>4. \/ work[k].op \notin StepOps
          \/ work[k].step \in Steps /\ work[k].op \in Opcodes(Program[work[k].step])
      BY DEF WorkerOK
    <3> QED BY <3>1, <3>2, <3>3, <3>4 DEF WorkerOK
  <2>5. (k # i => pc'[k] = pc[k] /\ work'[k] = work[k]) /\ queue \in [Items -> Rows]
    BY <1>2 DEF StoreTypeOK, ExecutorTypeOK, Rows
  <2>6. CASE UNCHANGED queue
    BY <2>2, <2>3, <2>5, <2>6 DEF Untouched
  <2>7. ASSUME NEW j \in Items, NEW wake, Fresh(j, i), Enqueue(j, work[i].run, wake)
        PROVE  WorkerOK(k)'
    <3>1. CASE k = j
      BY <2>4, <2>5, <2>7, <3>1 DEF Enqueue
    <3>2. CASE k # j
      BY <2>2, <2>3, <2>5, <2>7, <3>2 DEF Enqueue, Untouched
    <3> QED BY <3>1, <3>2
  <2> QED BY <1>1, <2>6, <2>7
<1>6. WaitsKept
  BY <1>2 DEF WaitsKept
<1> QED BY <1>2, <1>3, <1>4, <1>5, <1>6, WorkersShape

\* Every call of a worker keeps the shape.
LEMMA DispatchShape ==
  ASSUME Shape, NEW i \in Items, Dispatch(i), UNCHANGED <<rn, crashes>>
  PROVE  Shape'
BY StartShape, StartUnregisteredShape, StartThrottledShape, ClaimShape, MarkShape,
   WakeSleepingShape, LoadShape, AnswerShape, NoAnswerShape, RecheckShape, SendEventsShape,
   SaveShape, ParkShape, CompleteShape, FailShape, AnnounceShape, ReleaseShape, FinishShape,
   EnqueueNextShape DEF Dispatch

-----------------------------------------------------------------------------
(* The loop. *)

\* A step that leaves the workers alone keeps them as they should be.
LEMMA WorkersFrame ==
  ASSUME \A j \in Items : WorkerOK(j), UNCHANGED <<queue, pc, work>>, faults' = 0 => faults = 0
  PROVE  \A j \in Items : WorkerOK(j)'
BY WorkerFrame DEF Untouched

\* Ending a run deletes pending rows only, which no worker holds.
LEMMA EndRunAndPendingShape ==
  ASSUME Shape, NEW r \in Runs, NEW to \in Terminal, EndRunAndPending(r, to),
         UNCHANGED <<attempt, memo, waits, asleep, sent, announced, faults, pc, work>>
  PROVE  StoreTypeOK' /\ \A j \in Items : WorkerOK(j)'
<1> USE DEF Shape, TypeOK, EndRunAndPending
<1>1. status' \in [Runs -> {"None"} \cup Active \cup Terminal]
  BY DEF StoreTypeOK
<1>2. queue' \in [Items -> Rows]
  BY DEF StoreTypeOK, Rows, NoItem
<1>3. StoreTypeOK'
  BY <1>1, <1>2 DEF StoreTypeOK, Rows
<1>4. ASSUME NEW j \in Items PROVE WorkerOK(j)'
  <2>1. CASE queue'[j] = queue[j]
    BY <2>1, WorkerFrame DEF Untouched
  <2>2. CASE queue[j].st = "pending" /\ queue'[j] = NoItem
    BY <2>2 DEF WorkerOK, NoItem, Advances, ExecutorTypeOK, PCs
  <2> QED BY <2>1, <2>2
<1> QED BY <1>3, <1>4

\* Leases are taken back at startup, when there is no worker.
LEMMA ReconcileShape ==
  ASSUME Shape, Reconcile, UNCHANGED <<rn, crashes>>
  PROVE  Shape'
<1> USE DEF Shape, TypeOK
<1>1. PICK expired \in SUBSET Items :
        /\ RequeueExpiredLeases(expired)
        /\ \A i \in expired : queue[i].st = "leased"
  <2>1. CASE UNCHANGED queue
    <3>1. RequeueExpiredLeases({})
      BY <2>1 DEF RequeueExpiredLeases, StoreTypeOK
    <3> QED BY <3>1
  <2> QED BY <2>1 DEF Reconcile
<1>2. queue' \in [Items -> Rows]
  BY <1>1, RequeueType
<1>3. StoreTypeOK'
  BY <1>2 DEF Reconcile, StoreTypeOK, Rows, Succeeds, Errs
<1>4. ExecutorTypeOK' /\ LoopOK'
  BY DEF Reconcile, ExecutorTypeOK, LoopOK
<1>5. ASSUME NEW j \in Items PROVE WorkerOK(j)'
  <2>1. pc[j] = "idle"
    BY DEF Reconcile, LoopOK
  <2>2. /\ queue'[j].run = queue[j].run
        /\ \/ queue'[j].st = queue[j].st
           \/ queue[j].st = "leased" /\ queue'[j].st = "pending"
    BY <1>1 DEF RequeueExpiredLeases, StoreTypeOK
  <2> QED BY <2>1, <2>2 DEF WorkerOK, Reconcile
<1> QED BY <1>3, <1>4, <1>5 DEF Reconcile, RunnerTypeOK, RunnerOK

\* A batch is leased: every row in it gets a worker of its run.
LEMMA LeaseShape ==
  ASSUME Shape, Lease, UNCHANGED <<rn, crashes>>
  PROVE  Shape'
<1> USE DEF Shape, TypeOK
<1>1. PICK batch \in SUBSET {i \in Items : Due(i)} :
        /\ LeaseBatch(batch)
        /\ pc' = [i \in Items |-> IF i \in batch THEN "leased" ELSE pc[i]]
        /\ work' = [i \in Items |-> IF i \in batch THEN [NoWork EXCEPT !.run = queue[i].run]
                                                   ELSE work[i]]
  BY DEF Lease
<1>2. queue' \in [Items -> Rows]
  BY <1>1 DEF LeaseBatch, StoreTypeOK, Rows
<1>3. StoreTypeOK'
  BY <1>2 DEF Lease, StoreTypeOK, Rows
<1>4. ExecutorTypeOK' /\ LoopOK'
  <2>1. \A i \in Items : [NoWork EXCEPT !.run = queue[i].run] \in Locals
    BY DEF NoWork, Locals, StoreTypeOK
  <2>2. work' \in [Items -> Locals]
    BY <1>1, <2>1 DEF ExecutorTypeOK, Locals
  <2>3. pc' \in [Items -> PCs]
    BY <1>1 DEF ExecutorTypeOK, PCs
  <2>4. UNCHANGED loop /\ loop.pc = "poll"
    BY DEF Lease, Polling
  <2> QED BY <2>2, <2>3, <2>4 DEF ExecutorTypeOK, Locals, LoopOK
<1>5. ASSUME NEW j \in Items PROVE WorkerOK(j)'
  <2>1. CASE j \notin batch
    BY <1>1, <2>1, WorkerFrame DEF Untouched, LeaseBatch, Lease
  <2>2. CASE j \in batch
    <3>1. queue[j].st = "pending"
      BY <2>2 DEF Due
    <3>2. /\ queue'[j] = [st |-> "leased", run |-> queue[j].run, wake |-> 0]
          /\ pc'[j] = "leased" /\ work'[j] = [NoWork EXCEPT !.run = queue[j].run]
      BY <1>1, <2>2 DEF LeaseBatch
    <3>3. queue[j].run \in Runs
      BY <3>1 DEF WorkerOK, StoreTypeOK
    <3> QED BY <3>2, <3>3, StoreAssumption DEF WorkerOK, NoWork, StepOps
  <2> QED BY <2>1, <2>2
<1> QED BY <1>3, <1>4, <1>5 DEF Lease, RunnerTypeOK, RunnerOK

\* A timed out run is ended with its pending rows.
LEMMA TimeoutRunShape ==
  ASSUME Shape, NEW r \in Runs, TimeoutRun(r), UNCHANGED <<rn, crashes>>
  PROVE  Shape'
<1>1. StoreTypeOK' /\ \A j \in Items : WorkerOK(j)'
  BY EndRunAndPendingShape DEF TimeoutRun, Terminal
<1>2. ExecutorTypeOK' /\ LoopOK'
  BY DEF TimeoutRun, Shape, TypeOK, ExecutorTypeOK, LoopOK
<1> QED BY <1>1, <1>2 DEF TimeoutRun, Shape, TypeOK, RunnerTypeOK, RunnerOK

\* Its failure is announced.
LEMMA AnnounceTimeoutShape ==
  ASSUME Shape, AnnounceTimeout, UNCHANGED <<rn, crashes>>
  PROVE  Shape'
<1>1. StoreTypeOK' /\ (faults' = 0 => faults = 0)
  BY DEF AnnounceTimeout, Shape, TypeOK, StoreTypeOK, LoopOK, Succeeds, Errs
<1>2. ExecutorTypeOK' /\ LoopOK'
  BY DEF AnnounceTimeout, Shape, TypeOK, ExecutorTypeOK, LoopOK
<1>3. \A j \in Items : WorkerOK(j)'
  BY <1>1, WorkersFrame DEF AnnounceTimeout, Shape
<1> QED BY <1>1, <1>2, <1>3 DEF AnnounceTimeout, Shape, TypeOK, RunnerTypeOK, RunnerOK

\* Every step of the executor keeps the shape.
LEMMA ExecutorShape == ASSUME Shape, ExecutorStep PROVE Shape'
BY DispatchShape, ReconcileShape, LeaseShape, AdmitShape, RejectShape, AnnounceTimeoutShape,
   TimeoutRunShape DEF ExecutorStep, Loop

-----------------------------------------------------------------------------
(* The runner. *)

\* A step of the runner that touches no row keeps the shape.
LEMMA RunnerShape ==
  ASSUME Shape, StoreTypeOK', RunnerTypeOK', RunnerOK', UNCHANGED <<queue, executorVars, crashes>>,
         faults' = 0 => faults = 0
  PROVE  Shape'
<1>1. \A j \in Items : WorkerOK(j)'
  BY WorkersFrame DEF Shape, executorVars
<1> QED BY <1>1 DEF Shape, TypeOK, executorVars, ExecutorTypeOK, LoopOK

\* Setting the status of a wait keeps the table of waits well-formed.
LEMMA WaitType ==
  ASSUME StoreTypeOK, NEW r, NEW s, NEW to \in WaitStates, SetWaitStatus(r, s, to)
  PROVE  waits' \in [Runs -> [Steps -> WaitStates]]
BY DEF StoreTypeOK, SetWaitStatus, WaitStates

\* A run is created before its first row.
LEMMA TriggerShape ==
  ASSUME Shape, NEW r \in Runs, Trigger(r), UNCHANGED <<executorVars, crashes>>
  PROVE  Shape'
<1> USE DEF Shape, TypeOK, Trigger
<1>1. StoreTypeOK'
  BY DEF StoreTypeOK, CreateRun, Active
<1>2. RunnerTypeOK' /\ RunnerOK'
  BY DEF RunnerTypeOK, RunnerOK
<1> QED BY <1>1, <1>2, RunnerShape

\* The runner takes up waits that are open.
LEMMA TakeWaitShape ==
  ASSUME Shape, NEW r \in Runs, NEW s \in Steps, TakeWait(r, s), UNCHANGED <<executorVars, crashes>>
  PROVE  Shape'
<1> USE DEF Shape, TypeOK, TakeWait
<1>1. StoreTypeOK'
  <2>1. waits' \in [Runs -> [Steps -> WaitStates]]
    <3>1. CASE SetWaitStatus(r, s, "cancelled")
      BY <3>1, WaitType DEF WaitStates
    <3>2. CASE UNCHANGED waits
      BY <3>2 DEF StoreTypeOK, WaitStates
    <3> QED BY <3>1, <3>2
  <2> QED BY <2>1 DEF StoreTypeOK, WaitStates
<1>2. RunnerTypeOK' /\ RunnerOK'
  <2>1. CASE UNCHANGED rn
    BY <2>1 DEF RunnerTypeOK, RunnerOK
  <2>2. CASE UNCHANGED waits /\ \E to \in {"resolved", "timeout"} :
               rn' = [pc |-> "memo", run |-> r, step |-> s, to |-> to]
    BY <2>2 DEF RunnerTypeOK, RunnerOK
  <2> QED BY <2>1, <2>2
<1> QED BY <1>1, <1>2, RunnerShape

\* It completes the step of the wait ...
LEMMA CompleteWaitStepShape ==
  ASSUME Shape, CompleteWaitStep, UNCHANGED <<executorVars, crashes>>
  PROVE  Shape'
<1> USE DEF Shape, TypeOK, CompleteWaitStep
<1>1. StoreTypeOK'
  <2>1. memo' \in [Runs -> [Steps -> MemoStates]]
    <3>1. CASE SaveStepResult(rn.run, rn.step, "completed")
      BY <3>1, SaveType DEF MemoStates
    <3>2. CASE UNCHANGED memo
      BY <3>2 DEF StoreTypeOK, MemoStates
    <3> QED BY <3>1, <3>2
  <2> QED BY <2>1 DEF StoreTypeOK, MemoStates, Succeeds, Errs
<1>2. RunnerTypeOK' /\ RunnerOK'
  BY DEF RunnerTypeOK, RunnerOK, Idle
<1> QED BY <1>1, <1>2, RunnerShape DEF StoreTypeOK, Succeeds, Errs

\* ... and closes the wait.
LEMMA ResolveShape ==
  ASSUME Shape, Resolve, UNCHANGED <<executorVars, crashes>>
  PROVE  Shape'
<1> USE DEF Shape, TypeOK, Resolve
<1>1. StoreTypeOK'
  <2>1. rn.to \in WaitStates
    BY DEF RunnerTypeOK, RunnerOK, WaitStates
  <2>2. waits' \in [Runs -> [Steps -> WaitStates]]
    <3>1. CASE SetWaitStatus(rn.run, rn.step, rn.to)
      BY <2>1, <3>1, WaitType
    <3>2. CASE UNCHANGED waits
      BY <3>2 DEF StoreTypeOK, WaitStates
    <3> QED BY <3>1, <3>2
  <2> QED BY <2>2 DEF StoreTypeOK, WaitStates, Succeeds, Errs
<1>2. RunnerTypeOK' /\ RunnerOK'
  BY DEF RunnerTypeOK, RunnerOK, Idle
<1> QED BY <1>1, <1>2, RunnerShape DEF StoreTypeOK, Succeeds, Errs

\* An event ends a run with its pending rows ...
LEMMA CancelOnShape ==
  ASSUME Shape, NEW r \in Runs, CancelOn(r), UNCHANGED <<executorVars, crashes>>
  PROVE  Shape'
<1>1. StoreTypeOK' /\ \A j \in Items : WorkerOK(j)'
  BY EndRunAndPendingShape DEF CancelOn, Terminal, executorVars
<1>2. RunnerTypeOK' /\ RunnerOK'
  BY DEF CancelOn, RunnerTypeOK, RunnerOK
<1> QED BY <1>1, <1>2 DEF Shape, TypeOK, executorVars, ExecutorTypeOK, LoopOK

\* ... and its waits.
LEMMA SweepWaitsShape ==
  ASSUME Shape, SweepWaits, UNCHANGED <<executorVars, crashes>>
  PROVE  Shape'
<1> USE DEF Shape, TypeOK, SweepWaits
<1>1. StoreTypeOK'
  <2> DEFINE w == [s \in Steps |-> IF waits[rn.run][s] = "waiting" THEN "cancelled"
                                                               ELSE waits[rn.run][s]]
  <2>1. rn.run \in Runs
    BY DEF RunnerOK
  <2>2. w \in [Steps -> WaitStates]
    BY <2>1 DEF StoreTypeOK, WaitStates
  <2>3. waits' = [waits EXCEPT ![rn.run] = w] \/ UNCHANGED waits
    BY DEF CancelWaitsForRun
  <2> HIDE DEF w
  <2>4. waits' \in [Runs -> [Steps -> WaitStates]]
    BY <2>1, <2>2, <2>3 DEF StoreTypeOK, WaitStates
  <2> QED BY <2>4 DEF StoreTypeOK, WaitStates, Succeeds, Errs
<1>2. RunnerTypeOK' /\ RunnerOK'
  BY DEF RunnerTypeOK, RunnerOK, Idle
<1> QED BY <1>1, <1>2, RunnerShape DEF StoreTypeOK, Succeeds, Errs

\* The runner takes a free row for the run it starts or resumes.
LEMMA RunnerEnqueueShape ==
  ASSUME Shape, RunnerEnqueue
  PROVE  Shape'
<1> USE DEF Shape, TypeOK, RunnerEnqueue
<1>1. \/ UNCHANGED queue
      \/ \E j \in Items : queue[j].st = "free" /\ pc[j] = "idle" /\ Enqueue(j, rn.run, 0)
  OBVIOUS
<1>2. rn.run \in Runs /\ (faults' = 0 => faults = 0)
  BY DEF RunnerOK, StoreTypeOK, Succeeds, Errs
<1>3. StoreTypeOK'
  <2>1. queue' \in [Items -> Rows]
    <3>1. CASE UNCHANGED queue
      BY <3>1 DEF StoreTypeOK, Rows
    <3>2. ASSUME NEW j \in Items, Enqueue(j, rn.run, 0) PROVE queue' \in [Items -> Rows]
      BY <1>2, <3>2, EnqueueType
    <3> QED BY <1>1, <3>1, <3>2
  <2>2. UNCHANGED <<status, attempt, memo, waits, asleep, sent, announced>> /\ faults' \in Nat
    BY DEF StoreTypeOK, Succeeds, Errs
  <2> QED BY <2>1, <2>2 DEF StoreTypeOK, Rows
<1>4. ASSUME NEW k \in Items PROVE WorkerOK(k)'
  <2>1. pc'[k] = pc[k] /\ work'[k] = work[k]
    BY DEF executorVars
  <2>2. CASE queue'[k] = queue[k]
    BY <1>2, <2>1, <2>2, WorkerFrame DEF Untouched
  <2>3. CASE pc[k] = "idle" /\ queue'[k] = [st |-> "pending", run |-> rn.run, wake |-> 0]
    BY <1>2, <2>1, <2>3, StoreAssumption DEF WorkerOK
  <2> QED BY <1>1, <2>2, <2>3 DEF Enqueue, StoreTypeOK
<1>5. RunnerTypeOK' /\ RunnerOK'
  BY DEF RunnerTypeOK, RunnerOK, Idle
<1> QED BY <1>3, <1>4, <1>5 DEF executorVars, ExecutorTypeOK, LoopOK

-----------------------------------------------------------------------------
(* The platform. *)

\* Time changes sleeps only.
LEMMA WakeShape ==
  ASSUME Shape, TimePasses
  PROVE  Shape'
<1>1. StoreTypeOK'
  BY DEF Shape, TypeOK, TimePasses, Wake, StoreTypeOK
<1>2. \A j \in Items : WorkerOK(j)'
  BY WorkersFrame DEF Shape, TimePasses, Wake, executorVars
<1> QED BY <1>1, <1>2 DEF Shape, TypeOK, TimePasses, Wake, executorVars, ExecutorTypeOK, LoopOK,
           RunnerTypeOK, RunnerOK

\* The dashboard ends a run with its pending rows.
LEMMA DashboardCancelShape ==
  ASSUME Shape, NEW r \in Runs, DashboardCancel(r)
  PROVE  Shape'
<1>1. StoreTypeOK' /\ \A j \in Items : WorkerOK(j)'
  BY EndRunAndPendingShape DEF DashboardCancel, Terminal, executorVars
<1> QED BY <1>1 DEF DashboardCancel, Shape, TypeOK, executorVars, ExecutorTypeOK, LoopOK,
           RunnerTypeOK, RunnerOK

\* The end of the process leaves rows to no worker.
LEMMA CrashShape ==
  ASSUME Shape, Crash
  PROVE  Shape'
<1> USE DEF Shape, TypeOK, Crash
<1>1. StoreTypeOK' /\ crashes' \in Nat
  BY DEF storeVars, StoreTypeOK
<1>2. ExecutorTypeOK' /\ LoopOK'
  BY DEF ExecutorTypeOK, LoopOK, PCs, NoWork
<1>3. RunnerTypeOK' /\ RunnerOK'
  BY DEF RunnerTypeOK, RunnerOK, Idle
<1>4. \A j \in Items : WorkerOK(j)'
  BY DEF storeVars, WorkerOK, NoWork, StepOps
<1> QED BY <1>1, <1>2, <1>3, <1>4

\* At the start the shape is as it should be ...
LEMMA ShapeInit == Init => Shape
BY StoreAssumption DEF Init, Shape, TypeOK, StoreInit, ExecutorInit, RunnerInit, StoreTypeOK,
   ExecutorTypeOK, RunnerTypeOK, WorkerOK, RunnerOK, LoopOK, NoWork, NoItem, Idle, PCs, StepOps

\* ... and every step keeps it.
LEMMA ShapeNext == Shape /\ [Next]_vars => Shape'
<1> SUFFICES ASSUME Shape, [Next]_vars PROVE Shape'
  OBVIOUS
<1>1. CASE ExecutorStep
  BY <1>1, ExecutorShape
<1>2. CASE RunnerStep
  BY <1>2, TriggerShape, TakeWaitShape, CompleteWaitStepShape, ResolveShape, CancelOnShape,
     SweepWaitsShape, RunnerEnqueueShape DEF RunnerStep
<1>3. CASE TimePasses
  BY <1>3, WakeShape
<1>4. ASSUME NEW r \in Runs, DashboardCancel(r) PROVE Shape'
  BY <1>4, DashboardCancelShape
<1>5. CASE Crash
  BY <1>5, CrashShape
<1>6. CASE UNCHANGED vars
  <2>1. \A j \in Items : WorkerOK(j)'
    BY <1>6, WorkersFrame DEF Shape, vars, storeVars, executorVars
  <2> QED BY <1>6, <2>1 DEF Shape, vars, storeVars, executorVars, TypeOK, StoreTypeOK,
             ExecutorTypeOK, RunnerTypeOK, RunnerOK, LoopOK
<1> QED BY <1>1, <1>2, <1>3, <1>4, <1>5, <1>6 DEF Next

\* The locals of every goroutine, and the queue, always have their shape.
THEOREM ShapeHolds == Spec => []Shape
BY ShapeInit, ShapeNext, PTL DEF Spec

\* Every variable always has its type.
THEOREM TypeCorrect == Spec => []TypeOK
<1>1. Shape => TypeOK
  BY DEF Shape
<1> QED BY <1>1, ShapeHolds, PTL

-----------------------------------------------------------------------------
(* The end of a run is final. *)

\* How a step may change the status of a run: only that of an active run, or
\* of one that does not exist.
StatusChanges ==
  \/ status' = status
  \/ \E q \in Runs, to \in Active \cup Terminal :
       status[q] \notin Terminal /\ status' = [status EXCEPT ![q] = to]

\* Such a change never undoes an end.
LEMMA ChangesAreFinal ==
  ASSUME Shape, StatusChanges
  PROVE  \A r \in Runs : status[r] \in Terminal => status'[r] = status[r]
BY DEF StatusChanges, Shape, TypeOK, StoreTypeOK

\* EndRun is conditional on the run being active.
LEMMA EndRunChanges ==
  ASSUME NEW q \in Runs, NEW to \in Terminal, EndRun(q, to)
  PROVE  StatusChanges
BY DEF EndRun, StatusChanges, Active, Terminal

\* The calls of a worker change a status only so ...
LEMMA DispatchStatus ==
  ASSUME Shape, NEW i \in Items, Dispatch(i)
  PROVE  StatusChanges
<1>1. pc[i] \notin {"idle", "enqueue"} => work[i].run \in Runs
  BY DEF Shape, WorkerOK
<1>2. CASE Mark(i)
  BY <1>1, <1>2 DEF Mark, MarkRunRunning, StatusChanges, Active
<1>3. CASE Complete(i)
  BY <1>1, <1>3, EndRunChanges DEF Complete, CompleteRun, StatusChanges, Terminal
<1>4. CASE Fail(i)
  BY <1>1, <1>4, EndRunChanges DEF Fail, FailRun, StatusChanges, Terminal
<1>5. CASE UNCHANGED status
  BY <1>5 DEF StatusChanges
<1> QED BY <1>2, <1>3, <1>4, <1>5 DEF Dispatch, storeVars, Start, StartUnregistered, StartThrottled,
           Claim, WakeSleeping, Load, Answer, NoAnswer, Recheck, SendEvents, Save, Park, Announce,
           Release, Finish, EnqueueNext

\* ... and so does every step.
LEMMA StepStatus ==
  ASSUME Shape, [Next]_vars
  PROVE  StatusChanges
<1>1. ASSUME NEW q \in Runs, NEW to \in Terminal, status[q] \in Active, EndRunAndPending(q, to)
      PROVE  StatusChanges
  BY <1>1 DEF EndRunAndPending, StatusChanges, Active, Terminal
<1>2. ASSUME NEW q \in Runs, TimeoutRun(q) \/ CancelOn(q) \/ DashboardCancel(q) PROVE StatusChanges
  BY <1>1, <1>2 DEF TimeoutRun, CancelOn, DashboardCancel, Terminal
<1>3. ASSUME NEW i \in Items, Dispatch(i) PROVE StatusChanges
  BY <1>3, DispatchStatus
<1>4. ASSUME NEW q \in Runs, Trigger(q) PROVE StatusChanges
  BY <1>4 DEF Trigger, CreateRun, StatusChanges, Active, Terminal
<1>5. CASE UNCHANGED status
  BY <1>5 DEF StatusChanges
<1>6. CASE Loop
  BY <1>5, <1>6 DEF Loop, storeVars, Reconcile, Lease, Admit, Reject, AnnounceTimeout
<1>7. CASE RunnerStep
  BY <1>2, <1>4, <1>5, <1>7 DEF RunnerStep, TakeWait, CompleteWaitStep, Resolve, SweepWaits,
     RunnerEnqueue
<1>8. CASE TimePasses \/ Crash \/ UNCHANGED vars
  BY <1>5, <1>8 DEF TimePasses, Wake, Crash, vars, storeVars
<1> QED BY <1>2, <1>3, <1>6, <1>7, <1>8 DEF Next, ExecutorStep

\* A run that has ended stays as it ended, whatever is still under way for it
\* and whatever fails.
THEOREM EndsAreFinal == Spec => EndIsFinal
<1>1. Shape /\ [Next]_vars => [\A r \in Runs : status[r] \in Terminal => status'[r] = status[r]]_vars
  BY StepStatus, ChangesAreFinal
<1> QED BY <1>1, ShapeHolds, PTL DEF Spec, EndIsFinal

-----------------------------------------------------------------------------
(* A SendEvent step is recorded as done only after its events are stored.   *)
(* The memo of such a step can be written by its own Save only: the memos   *)
(* that time completes belong to sleeps, those the runner completes to      *)
(* waits.                                                                   *)

SleepersSleep == \A r \in Runs, s \in Steps : memo[r][s] = "sleeping" => Program[s] = "Sleep"
WaitersWait   ==
  /\ \A r \in Runs, s \in Steps : waits[r][s] = "waiting" => Program[s] = "WaitForEvent"
  /\ rn.pc = "memo" => Program[rn.step] = "WaitForEvent"
SentBeforeSave ==
  \A i \in Items :
    pc[i] = "save" /\ work[i].op = "SendEvent" => <<work[i].run, work[i].step>> \in sent

SentInv == SleepersSleep /\ WaitersWait /\ SentBeforeSave /\ SentBeforeDone

\* An opcode tells the kind of its step.
LEMMA OpcodeKind ==
  ASSUME NEW kind, NEW op \in {"Sleep", "WaitForEvent", "SendEvent"}, op \in Opcodes(kind)
  PROVE  kind = op
BY DEF Opcodes

\* StepComplete never answers for a SendEvent step.
LEMMA RunOpcode == ASSUME NEW kind, "StepComplete" \in Opcodes(kind) PROVE kind # "SendEvent"
BY DEF Opcodes

\* A step that writes no memo and opens no wait.
LEMMA SentFrame ==
  ASSUME Shape, SentInv, sent \subseteq sent', memo' = memo,
         \A r \in Runs, s \in Steps : waits'[r][s] = "waiting" => waits[r][s] = "waiting",
         rn'.pc = "memo" => Program[rn'.step] = "WaitForEvent",
         SentBeforeSave'
  PROVE  SentInv'
BY DEF SentInv, SleepersSleep, WaitersWait, SentBeforeDone, Done

\* Only SendEvents sends a worker that handles a SendEvent to Save.
QuietCall(i) ==
  /\ \A j \in Items : j # i => pc'[j] = pc[j] /\ work'[j] = work[j]
  /\ pc'[i] = "save" => work'[i].op # "SendEvent"
  /\ UNCHANGED <<memo, waits, rn>>
  /\ sent \subseteq sent'

\* A quiet call keeps the invariant.
LEMMA QuietSent ==
  ASSUME Shape, SentInv, NEW i \in Items, QuietCall(i)
  PROVE  SentInv'
<1>1. SentBeforeSave'
  BY DEF QuietCall, SentInv, SentBeforeSave
<1> QED BY <1>1, SentFrame DEF QuietCall, SentInv, WaitersWait

\* The calls that are quiet.
Quiet(i) ==
  \/ Admit(i) \/ Reject(i) \/ Start(i) \/ StartUnregistered(i) \/ StartThrottled(i) \/ Claim(i)
  \/ Mark(i) \/ Load(i) \/ Answer(i) \/ NoAnswer(i) \/ Recheck(i) \/ Complete(i)
  \/ Fail(i) \/ Announce(i) \/ Release(i) \/ Finish(i) \/ EnqueueNext(i)

\* They are quiet indeed.
LEMMA QuietCalls ==
  ASSUME Shape, NEW i \in Items, Quiet(i), UNCHANGED rn
  PROVE  QuietCall(i)
<1> USE DEF Shape, TypeOK, ExecutorTypeOK, QuietCall, Goto
<1>1. CASE Admit(i)
  BY <1>1 DEF Admit, storeVars
<1>2. CASE Reject(i)
  BY <1>2 DEF Reject, Return, NoWork
<1>3. CASE Start(i)
  BY <1>3 DEF Start
<1>4. CASE StartUnregistered(i)
  BY <1>4 DEF StartUnregistered, storeVars
<1>5. CASE StartThrottled(i)
  BY <1>5 DEF StartThrottled, storeVars
<1>6. CASE Claim(i)
  BY <1>6 DEF Claim
<1>7. CASE Mark(i)
  BY <1>7 DEF Mark
<1>8. CASE Load(i)
  BY <1>8 DEF Load, RetryOrFail
<1>9. CASE Answer(i)
  BY <1>9 DEF Answer
<1>10. CASE NoAnswer(i)
  BY <1>10 DEF NoAnswer, storeVars, RetryOrFail
<1>11. CASE Recheck(i)
  <2>1. work[i].op \in Ops
    BY <1>11 DEF Recheck, WorkerOK
  <2>2. Handles(work[i].op) = "save" => work[i].op # "SendEvent"
    BY <2>1 DEF Handles, Ops
  <2>3. work'[i].op \in {work[i].op, "none"}
    BY <1>11 DEF Recheck
  <2> QED BY <1>11, <2>2, <2>3 DEF Recheck, RetryOrFail
<1>12. CASE Complete(i)
  BY <1>12 DEF Complete
<1>13. CASE Fail(i)
  BY <1>13 DEF Fail
<1>14. CASE Announce(i)
  BY <1>14 DEF Announce
<1>15. CASE Release(i)
  BY <1>15 DEF Release, Return, NoWork
<1>16. CASE Finish(i)
  BY <1>16 DEF Finish, Return, NoWork
<1>17. CASE EnqueueNext(i)
  BY <1>17 DEF EnqueueNext, Return, NoWork
<1> QED BY <1>1, <1>2, <1>3, <1>4, <1>5, <1>6, <1>7, <1>8, <1>9, <1>10, <1>11, <1>12, <1>13, <1>14,
           <1>15, <1>16, <1>17 DEF Quiet

\* Completing the sleeps of a run records no SendEvent step as done.
LEMMA WakeSleepingSent ==
  ASSUME Shape, SentInv, NEW i \in Items, WakeSleeping(i), UNCHANGED rn
  PROVE  SentInv'
<1>1. \A r \in Runs, s \in Steps :
        \/ memo'[r][s] = memo[r][s]
        \/ memo[r][s] = "sleeping" /\ memo'[r][s] = "completed"
  <2>1. CASE UNCHANGED memo
    BY <2>1
  <2>2. CASE CompleteSleepingSteps(work[i].run)
    BY <2>2 DEF CompleteSleepingSteps, Shape, TypeOK, StoreTypeOK
  <2> QED BY <2>1, <2>2 DEF WakeSleeping
<1>2. UNCHANGED <<waits, sent, work>> /\ \A j \in Items : pc'[j] = "save" => pc[j] = "save"
  BY DEF WakeSleeping, Goto, RetryOrFail, Shape, TypeOK, ExecutorTypeOK
<1>3. SleepersSleep' /\ SentBeforeDone'
  BY <1>1, <1>2 DEF SentInv, SleepersSleep, SentBeforeDone, Done
<1>4. WaitersWait' /\ SentBeforeSave'
  BY <1>2 DEF SentInv, WaitersWait, SentBeforeSave
<1> QED BY <1>3, <1>4 DEF SentInv

\* The events of the step are stored before its worker goes on to Save.
LEMMA SendEventsSent ==
  ASSUME Shape, SentInv, NEW i \in Items, SendEvents(i), UNCHANGED rn
  PROVE  SentInv'
<1>1. sent \subseteq sent' /\ UNCHANGED <<memo, waits>>
  BY DEF SendEvents
<1>2. ASSUME NEW j \in Items, pc'[j] = "save", work'[j].op = "SendEvent"
      PROVE  <<work'[j].run, work'[j].step>> \in sent'
  <2>1. CASE j # i
    BY <1>1, <1>2, <2>1 DEF SendEvents, Goto, Shape, TypeOK, ExecutorTypeOK, SentInv, SentBeforeSave
  <2>2. CASE j = i
    BY <1>2, <2>2 DEF SendEvents, Goto, RetryOrFail, Shape, TypeOK, ExecutorTypeOK
  <2> QED BY <2>1, <2>2
<1>3. SentBeforeSave'
  BY <1>2 DEF SentBeforeSave
<1> QED BY <1>1, <1>3, SentFrame DEF SentInv, WaitersWait

\* The memo that Save writes: completed for a SendEvent step only if its events
\* are stored, sleeping for a sleep only.
LEMMA SaveSent ==
  ASSUME Shape, SentInv, NEW i \in Items, Save(i), UNCHANGED rn
  PROVE  SentInv'
<1>0. PICK q \in Runs, u \in Steps, op \in StepOps :
        q = work[i].run /\ u = work[i].step /\ op = work[i].op
  BY DEF Save, Shape, WorkerOK
<1>1. \A r \in Runs, s \in Steps :
        \/ memo'[r][s] = memo[r][s]
        \/ r = q /\ s = u /\ memo'[r][s] = MemoOf(op)
  BY <1>0 DEF Save, SaveStepResult, Shape, TypeOK, StoreTypeOK
<1>2. UNCHANGED <<waits, sent, work>> /\ \A j \in Items : pc'[j] = "save" => pc[j] = "save"
  BY DEF Save, Goto, RetryOrFail, Shape, TypeOK, ExecutorTypeOK
<1>3. op \in Opcodes(Program[u])
  BY <1>0 DEF Shape, WorkerOK
<1>4. MemoOf(op) = "sleeping" => Program[u] = "Sleep"
  <2>1. MemoOf(op) = "sleeping" => op = "Sleep"
    BY DEF MemoOf, StepOps
  <2> QED BY <1>3, <2>1, OpcodeKind
<1>5. MemoOf(op) = "completed" /\ Program[u] = "SendEvent" => <<q, u>> \in sent
  <2>1. MemoOf(op) = "completed" => op \in {"StepComplete", "SendEvent"}
    BY DEF MemoOf, StepOps
  <2>2. op = "SendEvent" => <<q, u>> \in sent
    BY <1>0 DEF Save, SentInv, SentBeforeSave
  <2> QED BY <1>3, <2>1, <2>2, RunOpcode
<1>6. SleepersSleep'
  BY <1>1, <1>4 DEF SentInv, SleepersSleep
<1>7. SentBeforeDone'
  BY <1>1, <1>2, <1>5 DEF SentInv, SentBeforeDone, Done
<1>8. WaitersWait' /\ SentBeforeSave'
  BY <1>2 DEF SentInv, WaitersWait, SentBeforeSave
<1> QED BY <1>6, <1>7, <1>8 DEF SentInv

\* A worker parks a wait only on a step that waits.
LEMMA ParkSent ==
  ASSUME Shape, SentInv, NEW i \in Items, Park(i), UNCHANGED rn
  PROVE  SentInv'
<1>1. Program[work[i].step] = "WaitForEvent"
  BY OpcodeKind DEF Park, Shape, WorkerOK, StepOps
<1>2. \A r \in Runs, s \in Steps : waits'[r][s] = "waiting" =>
        waits[r][s] = "waiting" \/ s = work[i].step
  <2>1. PICK q \in Runs, u \in Steps : q = work[i].run /\ u = work[i].step
    BY DEF Park, Shape, WorkerOK, StepOps
  <2>2. waits' \in {waits, [waits EXCEPT ![q][u] = "waiting"]}
    BY <2>1 DEF Park, CreateWait
  <2>3. waits \in [Runs -> [Steps -> WaitStates]]
    BY DEF Shape, TypeOK, StoreTypeOK, WaitStates
  <2> QED BY <2>1, <2>2, <2>3
<1>3. UNCHANGED <<memo, sent, work>> /\ \A j \in Items : pc'[j] = "save" => pc[j] = "save"
  BY DEF Park, Goto, RetryOrFail, Shape, TypeOK, ExecutorTypeOK
<1> QED BY <1>1, <1>2, <1>3 DEF SentInv, SleepersSleep, WaitersWait, SentBeforeSave, SentBeforeDone,
           Done

\* Every call of a worker keeps the invariant.
LEMMA WorkerSent ==
  ASSUME Shape, SentInv, NEW i \in Items, Admit(i) \/ Reject(i) \/ Dispatch(i), UNCHANGED rn
  PROVE  SentInv'
<1>1. CASE Quiet(i)
  BY <1>1, QuietCalls, QuietSent
<1> QED BY <1>1, WakeSleepingSent, SendEventsSent, SaveSent, ParkSent DEF Dispatch, Quiet

\* The steps of the other goroutines leave the workers' calls alone, except that
\* the loop starts workers and the end of the process stops them.
LEMMA OthersSent ==
  ASSUME Shape, SentInv, UNCHANGED <<memo, sent>>, UNCHANGED rn \/ rn'.pc # "memo",
         \A j \in Items : pc'[j] \in {"idle", "leased"} \/ (pc'[j] = pc[j] /\ work'[j] = work[j]),
         \A r \in Runs, s \in Steps : waits'[r][s] = "waiting" => waits[r][s] = "waiting"
  PROVE  SentInv'
<1>1. SentBeforeSave'
  BY DEF SentInv, SentBeforeSave
<1> QED BY <1>1, SentFrame DEF SentInv, WaitersWait

\* The runner completes the memos of waits only.
LEMMA RunnerSent ==
  ASSUME Shape, SentInv, RunnerStep
  PROVE  SentInv'
<1> USE DEF executorVars
<1>1. ASSUME NEW q \in Runs, NEW u \in Steps, TakeWait(q, u), UNCHANGED <<executorVars, crashes>>
      PROVE  SentInv'
  <2>1. \A r \in Runs, s \in Steps : waits'[r][s] = "waiting" => waits[r][s] = "waiting"
    BY <1>1 DEF TakeWait, SetWaitStatus, Shape, TypeOK, StoreTypeOK
  <2>2. rn'.pc = "memo" => Program[rn'.step] = "WaitForEvent"
    BY <1>1 DEF TakeWait, SentInv, WaitersWait
  <2>3. SentBeforeSave' /\ UNCHANGED <<memo, sent>>
    BY <1>1 DEF TakeWait, SentInv, SentBeforeSave
  <2> QED BY <2>1, <2>2, <2>3, SentFrame
<1>2. CASE CompleteWaitStep /\ UNCHANGED <<executorVars, crashes>>
  <2>1. \A r \in Runs, s \in Steps :
          memo'[r][s] = memo[r][s] \/ (Program[s] = "WaitForEvent" /\ memo'[r][s] = "completed")
    <3>1. PICK q \in Runs, u \in Steps : q = rn.run /\ u = rn.step
      BY <1>2 DEF CompleteWaitStep, Shape, RunnerOK
    <3>2. memo' \in {memo, [memo EXCEPT ![q][u] = "completed"]} /\ Program[u] = "WaitForEvent"
      BY <1>2, <3>1 DEF CompleteWaitStep, SaveStepResult, SentInv, WaitersWait
    <3>3. ASSUME NEW r \in Runs, NEW s \in Steps
          PROVE  memo'[r][s] = memo[r][s] \/ (s = u /\ memo'[r][s] = "completed")
      <4>1. CASE r = q /\ s = u
        BY <3>2, <4>1 DEF Shape, TypeOK, StoreTypeOK
      <4>2. CASE ~(r = q /\ s = u)
        BY <3>2, <4>2 DEF Shape, TypeOK, StoreTypeOK
      <4> QED BY <4>1, <4>2
    <3> QED BY <3>2, <3>3
  <2>2. UNCHANGED <<waits, sent, pc, work>> /\ rn'.pc # "memo"
    BY <1>2 DEF CompleteWaitStep, Idle, Shape, TypeOK, RunnerTypeOK
  <2> QED BY <2>1, <2>2 DEF SentInv, SleepersSleep, WaitersWait, SentBeforeSave, SentBeforeDone,
             Done
<1>3. CASE Resolve /\ UNCHANGED <<executorVars, crashes>>
  <2>1. \A r \in Runs, s \in Steps : waits'[r][s] = "waiting" => waits[r][s] = "waiting"
    <3>1. PICK q \in Runs, u \in Steps, to \in {"resolved", "timeout"} :
            q = rn.run /\ u = rn.step /\ to = rn.to
      BY <1>3 DEF Resolve, Shape, RunnerOK, TypeOK, RunnerTypeOK
    <3>2. waits' \in {waits, [waits EXCEPT ![q][u] = to]}
      BY <1>3, <3>1 DEF Resolve, SetWaitStatus
    <3> QED BY <3>2 DEF Shape, TypeOK, StoreTypeOK
  <2>2. rn'.pc # "memo"
    BY <1>3 DEF Resolve, Idle, Shape, TypeOK, RunnerTypeOK
  <2> QED BY <1>3, <2>1, <2>2, OthersSent DEF Resolve
<1>4. CASE SweepWaits /\ UNCHANGED <<executorVars, crashes>>
  <2>1. \A r \in Runs, s \in Steps : waits'[r][s] = "waiting" => waits[r][s] = "waiting"
    <3>1. CASE UNCHANGED waits
      BY <3>1
    <3>2. CASE CancelWaitsForRun(rn.run)
      BY <3>2 DEF CancelWaitsForRun, Shape, TypeOK, StoreTypeOK
    <3> QED BY <1>4, <3>1, <3>2 DEF SweepWaits
  <2> QED BY <1>4, <2>1, OthersSent DEF SweepWaits, Idle
<1>5. ASSUME NEW q \in Runs, Trigger(q) \/ CancelOn(q), UNCHANGED <<executorVars, crashes>>
      PROVE  SentInv'
  BY <1>5, OthersSent DEF Trigger, CancelOn
<1>6. CASE RunnerEnqueue
  BY <1>6, OthersSent DEF RunnerEnqueue, Idle
<1> QED BY <1>1, <1>2, <1>3, <1>4, <1>5, <1>6 DEF RunnerStep

\* Every step of the executor keeps the invariant.
LEMMA ExecutorSent ==
  ASSUME Shape, SentInv, ExecutorStep
  PROVE  SentInv'
<1>1. ASSUME NEW i \in Items, Admit(i) \/ Reject(i) \/ Dispatch(i) PROVE SentInv'
  BY <1>1, WorkerSent DEF ExecutorStep
<1>2. ASSUME NEW q \in Runs, TimeoutRun(q) PROVE SentInv'
  BY <1>2, OthersSent DEF ExecutorStep, TimeoutRun
<1>3. CASE Reconcile
  BY <1>3, OthersSent DEF ExecutorStep, Reconcile
<1>4. CASE Lease
  <2>1. \A j \in Items : pc'[j] = "leased" \/ (pc'[j] = pc[j] /\ work'[j] = work[j])
    BY <1>4 DEF Lease
  <2> QED BY <1>4, <2>1, OthersSent DEF ExecutorStep, Lease
<1>5. CASE AnnounceTimeout
  BY <1>5, OthersSent DEF ExecutorStep, AnnounceTimeout
<1> QED BY <1>1, <1>2, <1>3, <1>4, <1>5 DEF ExecutorStep, Loop

\* At the start no step is done ...
LEMMA SentInit == Init => SentInv
BY DEF Init, StoreInit, ExecutorInit, RunnerInit, Idle, NoWork, SentInv, SleepersSleep, WaitersWait,
   SentBeforeSave, SentBeforeDone, Done

\* ... and every step keeps the invariant.
LEMMA SentNext == Shape /\ SentInv /\ [Next]_vars => SentInv'
<1> SUFFICES ASSUME Shape, SentInv, [Next]_vars PROVE SentInv'
  OBVIOUS
<1>1. CASE TimePasses
  BY <1>1, OthersSent DEF TimePasses, Wake, executorVars
<1>2. ASSUME NEW q \in Runs, DashboardCancel(q) PROVE SentInv'
  BY <1>2, OthersSent DEF DashboardCancel, executorVars
<1>3. CASE Crash
  BY <1>3, OthersSent DEF Crash, storeVars, Idle
<1>4. CASE UNCHANGED vars
  BY <1>4, OthersSent DEF vars, storeVars, executorVars
<1> QED BY <1>1, <1>2, <1>3, <1>4, ExecutorSent, RunnerSent DEF Next

\* A SendEvent step is recorded as done only after its events are stored,
\* whatever fails or restarts in between.
THEOREM EventsBeforeMemo == Spec => []SentBeforeDone
<1>1. SentInv => SentBeforeDone
  BY DEF SentInv
<1> QED BY <1>1, ShapeHolds, SentInit, SentNext, PTL DEF Spec
=============================================================================
