--------------------------- MODULE ProgressProofs ----------------------------
(***************************************************************************)
(* What a run may rely on, for any number of runs, items and workers: its  *)
(* steps finish in the order of the program, each once, as DurableRun says *)
(* (as long as nothing disturbs the engine), and, as long as no call fails *)
(* and the process does not end, it is never lost, sleeps in full and is   *)
(* dispatched a bounded number of times.                                   *)
(***************************************************************************)
EXTENDS CarrierProofs

\* A memo of a step that has begun and is not over; a run that was set running.
Open(r, s) == memo[r][s] \in {"sleeping", "waiting"}
Begun(r)   == status[r] \notin {"None", "Queued"}
Settled(r) == \A s \in Steps : ~Open(r, s)

-----------------------------------------------------------------------------
(* Progress: the memos of a run follow the program, and every goroutine     *)
(* knows how far the run it carries is.                                     *)

\* Every step before a done or open one is done: a run has one open step at most.
MemosInOrder ==
  \A r \in Runs, s \in Steps :
    /\ Done(r, s) \/ Open(r, s) => Begun(r) /\ \A t \in Steps : t < s => Done(r, t)
    /\ status[r] = "Completed" => Done(r, s)
    /\ memo[r][s] = "waiting" => Program[s] = "WaitForEvent"

\* What a worker put in the callback is what is stored until it has stored the
\* answer: the step of the answer is the next one of the run.
WorkerProgress(i) ==
  LET w == work[i] IN
  /\ pc[i] \in {"wake", "load", "call", "recheck", "send", "save", "wait", "complete"} => Begun(w.run)
  /\ pc[i] \in {"load", "call", "recheck", "send", "save", "complete"} => Settled(w.run)
  /\ pc[i] \in {"call", "recheck", "send", "save", "complete"} => w.seen = CompletedSteps(w.run)
  /\ pc[i] \in {"recheck", "send", "save"} /\ w.op \in StepOps => Interrupts(w.step, w.seen)
  /\ pc[i] = "recheck" /\ w.op = "RunComplete" => Steps \subseteq w.seen
  /\ pc[i] = "complete" => w.op = "RunComplete" /\ Steps \subseteq w.seen
  /\ pc[i] = "wait" => memo[w.run][w.step] = "waiting"

\* A wait is open as long as its memo is, or the runner is about to close it.
WaitProgress ==
  \A r \in Runs, s \in Steps :
    WaitCarries(r, s) => memo[r][s] = "waiting" \/ (rn.pc = "resolve" /\ rn.run = r /\ rn.step = s)
RunnerProgress == rn.pc = "resolve" => Done(rn.run, rn.step) /\ Settled(rn.run)

\* A run that waits is carried on by its wait, or by the worker about to park it.
WaitersParked ==
  \A r \in Runs, s \in Steps : memo[r][s] = "waiting" =>
    ~RunnerCarries(r) /\ \A i \in Items : Carries(i, r) => pc[i] = "wait"

Progress == /\ MemosInOrder /\ (\A i \in Items : WorkerProgress(i)) /\ WaitProgress
            /\ RunnerProgress /\ WaitersParked

ProgressInv == Undisturbed => Progress

-----------------------------------------------------------------------------
(* What a step does to the status and the memos of the runs: it leaves them *)
(* alone, or it moves one run on.                                           *)

MovesTo(q, to) == status' = [status EXCEPT ![q] = to] /\ UNCHANGED memo
Creates(q) == status[q] = "None" /\ MovesTo(q, "Queued")
Begins(q)  == status[q] \in Active /\ MovesTo(q, "Running")
Completes(q) == status[q] = "Running" /\ (\A s \in Steps : Done(q, s)) /\ MovesTo(q, "Completed")
GivesUp(q) == status[q] \in Active /\ \E to \in {"Failed", "Cancelled"} : MovesTo(q, to)
Records(q, u, to) ==
  /\ Begun(q) /\ ~Done(q, u) /\ \A t \in Steps : t < u => Done(q, t)
  /\ to \in MemoStates \ {"none"}
  /\ to = "waiting" => Program[u] = "WaitForEvent"
  /\ \A r \in Runs, s \in Steps : memo'[r][s] = IF r = q /\ s = u THEN to ELSE memo[r][s]
  /\ UNCHANGED status

Moves ==
  \/ UNCHANGED <<status, memo>>
  \/ \E q \in Runs : Creates(q) \/ Begins(q) \/ Completes(q) \/ GivesUp(q)
  \/ \E q \in Runs, u \in Steps, to \in MemoStates : Records(q, u, to)

-----------------------------------------------------------------------------
Calm == faults = 0 /\ crashes = 0

\* A run that sleeps is carried on by the item that holds the until of its sleep.
Sleeps(i, s) == \/ pc[i] \in {"finish", "enqueue"} /\ work[i].op = "Sleep" /\ work[i].step = s
                \/ pc[i] = "idle" /\ queue[i].st = "pending" /\ queue[i].wake = s
SleepersWait ==
  \A r \in Runs, s \in Steps : memo[r][s] = "sleeping" /\ <<r, s>> \in asleep =>
    /\ ~RunnerCarries(r)
    /\ \A t \in Steps : ~WaitCarries(r, t)
    /\ \A i \in Items : Carries(i, r) => Sleeps(i, s)
NeverTooEarly == \A r \in Runs, s \in Steps : Program[s] = "Sleep" /\ Done(r, s) => <<r, s>> \notin asleep
SleepInv == Calm => SleepersWait /\ NeverTooEarly

\* A worker that drops its item for good has seen the run end, or parked it.
EndsWell(i) ==
  LET w == work[i] IN
  /\ pc[i] = "announce" => w.op = "none" /\ status[w.run] \in Terminal
  /\ pc[i] = "finish" /\ ~Advances(w.op) /\ w.op # "WaitForEvent" => status[w.run] \in Terminal
\* A closed wait is not waited for again.
WaitsTold ==
  \A r \in Runs, s \in Steps :
    /\ waits[r][s] \in {"resolved", "timeout"} => Done(r, s)
    /\ waits[r][s] = "cancelled" => status[r] \in Terminal
SweepEnded == rn.pc = "sweep" => status[rn.run] \in Terminal
ActiveCarried == \A r \in Runs : status[r] \in Active => HasCarrier(r)
CarriedInv == Calm => (\A i \in Items : EndsWell(i)) /\ WaitsTold /\ SweepEnded /\ ActiveCarried

\* The attempts a run may have used when its first n steps are done or open.
Reached(r, n) == \A s \in Steps : s <= n => Done(r, s) \/ Open(r, s)
Within(r, a)  == \E n \in 0 .. Len(Program) : a <= MaxAttempts + n /\ Reached(r, n)
Spare(r)      == Within(r, attempt[r] + 1)
\* An item whose run is dispatched again without another success.
Redispatched(i) == \/ pc[i] \in {"idle", "leased", "start", "claim", "release", "enqueue", "wait"}
                   \/ pc[i] = "finish" /\ Advances(work[i].op)
Counted(i) == pc[i] \in {"mark", "wake", "load", "call", "recheck", "send", "save", "wait"} =>
                work[i].attempt = attempt[work[i].run]
Attempts ==
  /\ \A r \in Runs : Within(r, attempt[r]) /\ (status[r] = "None" => attempt[r] = 0)
  /\ \A r \in Runs, i \in Items : Carries(i, r) /\ Redispatched(i) => Spare(r)
  /\ \A r \in Runs : RunnerCarries(r) => Spare(r)
  /\ \A r \in Runs, s \in Steps : WaitCarries(r, s) => Spare(r)
  /\ \A i \in Items : Counted(i)
AttemptsInv == Calm => Attempts
-----------------------------------------------------------------------------
(* What a worker does to the status and the memos. *)

\* The pcs at which a worker relies on how far its run is.
Engaged == {"wake", "load", "call", "recheck", "send", "save", "wait", "complete"}

WorkerStep(i) == Admit(i) \/ Reject(i) \/ Dispatch(i)

\* A worker's pc tells the call it makes.
LEMMA CallAt ==
  ASSUME NEW i \in Items, WorkerStep(i)
  PROVE  /\ pc[i] = "mark" => Mark(i)
         /\ pc[i] = "wake" => WakeSleeping(i)
         /\ pc[i] = "save" => Save(i)
         /\ pc[i] = "complete" => Complete(i)
         /\ pc[i] = "fail" => Fail(i)
BY DEF WorkerStep, Dispatch, Admit, Reject, Start, StartUnregistered, StartThrottled, Claim, Mark,
   WakeSleeping, Load, Answer, NoAnswer, Recheck, SendEvents, Save, Park, Complete, Fail, Announce,
   Release, Finish, EnqueueNext

\* It leaves the other workers alone, and all rows but its own and that of the next hop.
LEMMA OthersUntouched ==
  ASSUME Shape, NEW i \in Items, WorkerStep(i), NEW j \in Items, j # i
  PROVE  pc'[j] = pc[j] /\ work'[j] = work[j] /\ (~EnqueueNext(i) => queue'[j] = queue[j])
<1>1. pc'[j] = pc[j] /\ work'[j] = work[j]
  BY DEF WorkerStep, Dispatch, storeVars, Admit, Reject, Start, StartUnregistered, StartThrottled,
     Claim, Mark, WakeSleeping, Load, Answer, NoAnswer, Recheck, SendEvents, Save, Park, Complete, Fail,
     Announce, Release, Finish, EnqueueNext, Goto, Return, Shape, TypeOK, ExecutorTypeOK
<1>2. CASE Reject(i) \/ Release(i) \/ Finish(i)
  <2>1. ReleaseLease(i) \/ CompleteQueueItem(i) \/ UNCHANGED queue
    BY <1>2 DEF Reject, Release, Finish
  <2>2. queue'[j] = queue[j]
    BY <2>1 DEF ReleaseLease, CompleteQueueItem, Shape, TypeOK, StoreTypeOK
  <2> QED BY <1>1, <2>2
<1> QED BY <1>1, <1>2 DEF WorkerStep, Dispatch, storeVars, Admit, Start, StartUnregistered,
         StartThrottled, Claim, Mark, WakeSleeping, Load, Answer, NoAnswer, Recheck, SendEvents, Save,
         Park, Complete, Fail, Announce

\* A worker before enqueueNext that has not parked its run carries it.
LEMMA WorkerCarries ==
  ASSUME Shape, NEW i \in Items, pc[i] # "idle", ~Parked(i)
  PROVE  work[i].run \in Runs /\ Carries(i, work[i].run)
BY DEF Shape, WorkerOK, Carries

\* The memos a run may get; a step that waits for an event waits.
LEMMA MemoOfKind ==
  ASSUME NEW op \in StepOps, NEW kind, op \in Opcodes(kind)
  PROVE  /\ MemoOf(op) \in MemoStates \ {"none"}
         /\ MemoOf(op) = "waiting" => op = "WaitForEvent" /\ kind = "WaitForEvent"
         /\ MemoOf(op) = "sleeping" => op = "Sleep" /\ kind = "Sleep"
         /\ MemoOf(op) = "completed" =>
              op \in {"StepComplete", "SendEvent"} /\ kind \notin {"Sleep", "WaitForEvent"}
<1>1. op = "WaitForEvent" => kind = "WaitForEvent"
  BY OpcodeKind
<1>2. op = "Sleep" => kind = "Sleep"
  BY OpcodeKind
<1>3. op = "SendEvent" => kind = "SendEvent"
  BY OpcodeKind
<1>4. op = "StepComplete" => kind \notin {"Sleep", "WaitForEvent"}
  BY DEF Opcodes
<1> QED BY <1>1, <1>2, <1>3, <1>4 DEF MemoOf, StepOps, MemoStates

\* The worker that wakes a run completes its only open step, which sleeps.
LEMMA WakeSleepingMoves ==
  ASSUME Shape, Carriers, Progress, NEW i \in Items, WakeSleeping(i)
  PROVE  /\ Moves
         /\ \A r \in Runs : r # work[i].run => memo'[r] = memo[r]
         /\ ~Errs => Settled(work[i].run)'
<1>0. PICK q \in Runs : q = work[i].run
  BY DEF WakeSleeping, Shape, WorkerOK
<1>1. status' = status /\ work' = work
  BY DEF WakeSleeping
<1>2. Carries(i, q)
  BY <1>0, WorkerCarries DEF WakeSleeping, Parked
<1>3. Begun(q) /\ \A s \in Steps : memo[q][s] # "waiting"
  BY <1>0, <1>2 DEF WakeSleeping, Progress, WorkerProgress, WaitersParked
<1>4. CASE UNCHANGED memo /\ Errs
  BY <1>1, <1>4 DEF Moves
<1>5. CASE CompleteSleepingSteps(q)
  <2>1. \A r \in Runs : r # q => memo'[r] = memo[r]
    BY <1>5 DEF CompleteSleepingSteps, Shape, TypeOK, StoreTypeOK
  <2>2. \A s \in Steps : memo'[q][s] = IF memo[q][s] = "sleeping" THEN "completed" ELSE memo[q][s]
    BY <1>5 DEF CompleteSleepingSteps, Shape, TypeOK, StoreTypeOK
  <2>3. \A s \in Steps : ~Open(q, s)'
    BY <1>3, <2>2 DEF Open
  <2>4. CASE \A s \in Steps : memo[q][s] # "sleeping"
    <3>1. memo' = memo
      <4>1. [memo EXCEPT ![q] = [s \in Steps |-> IF memo[q][s] = "sleeping" THEN "completed" ELSE memo[q][s]]]
              = [memo EXCEPT ![q] = [s \in Steps |-> memo[q][s]]]
        BY <2>4
      <4>2. [s \in Steps |-> memo[q][s]] = memo[q]
        BY DEF Shape, TypeOK, StoreTypeOK
      <4> QED BY <1>5, <4>1, <4>2 DEF CompleteSleepingSteps, Shape, TypeOK, StoreTypeOK
    <3> QED BY <1>0, <1>1, <2>1, <2>3, <3>1 DEF Moves, Settled
  <2>5. CASE \E u \in Steps : memo[q][u] = "sleeping"
    <3>1. PICK u \in Steps : memo[q][u] = "sleeping"
      BY <2>5
    <3>2. ASSUME NEW s \in Steps, s # u PROVE memo[q][s] # "sleeping"
      <4>1. s < u \/ u < s
        BY <3>2 DEF Steps
      <4> QED BY <3>1, <4>1 DEF Progress, MemosInOrder, Open, Done
    <3>3. ~Done(q, u) /\ \A t \in Steps : t < u => Done(q, t)
      BY <3>1 DEF Progress, MemosInOrder, Open, Done
    <3>4. \A r \in Runs, s \in Steps :
            memo'[r][s] = IF r = q /\ s = u THEN "completed" ELSE memo[r][s]
      BY <2>1, <2>2, <3>1, <3>2
    <3>5. Records(q, u, "completed")
      BY <1>1, <1>3, <3>3, <3>4 DEF Records, MemoStates
    <3>6. Moves
      BY <3>5 DEF Moves, MemoStates
    <3> QED BY <1>0, <1>1, <2>1, <2>3, <3>6 DEF Settled
  <2> QED BY <2>4, <2>5
<1> QED BY <1>0, <1>4, <1>5 DEF WakeSleeping

\* The worker that saves a memo records the next step of its run.
LEMMA SaveMoves ==
  ASSUME Shape, Progress, NEW i \in Items, Save(i)
  PROVE  /\ Moves
         /\ \A r \in Runs : r # work[i].run => memo'[r] = memo[r]
         /\ ~Errs => Records(work[i].run, work[i].step, MemoOf(work[i].op))
<1>0. PICK q \in Runs, u \in Steps, op \in StepOps : q = work[i].run /\ u = work[i].step /\ op = work[i].op
  BY DEF Save, Shape, WorkerOK, StepOps
<1>1. status' = status
  BY DEF Save
<1>2. CASE UNCHANGED memo /\ Errs
  BY <1>1, <1>2 DEF Moves
<1>3. CASE SaveStepResult(q, u, MemoOf(op))
  <2>1. Begun(q) /\ Interrupts(u, CompletedSteps(q))
    BY <1>0 DEF Save, Progress, WorkerProgress
  <2>2. ~Done(q, u) /\ \A t \in Steps : t < u => Done(q, t)
    BY <2>1 DEF Interrupts, CompletedSteps, Done
  <2>3. MemoOf(op) \in MemoStates \ {"none"} /\ (MemoOf(op) = "waiting" => Program[u] = "WaitForEvent")
    BY <1>0, MemoOfKind DEF Shape, WorkerOK
  <2>4. \A r \in Runs, s \in Steps : memo'[r][s] = IF r = q /\ s = u THEN MemoOf(op) ELSE memo[r][s]
    BY <1>3 DEF SaveStepResult, Shape, TypeOK, StoreTypeOK
  <2>5. Records(q, u, MemoOf(op))
    BY <1>1, <2>1, <2>2, <2>3, <2>4 DEF Records
  <2>6. \A r \in Runs : r # q => memo'[r] = memo[r]
    BY <1>3 DEF SaveStepResult, Shape, TypeOK, StoreTypeOK
  <2> QED BY <1>0, <2>3, <2>5, <2>6 DEF Moves
<1> QED BY <1>0, <1>2, <1>3 DEF Save

\* The calls of a worker that leave the memos alone, and the status of the runs ...
LEMMA QuietMoves ==
  ASSUME NEW i \in Items, WorkerStep(i), pc[i] \notin {"wake", "save"}
  PROVE  memo' = memo /\ (pc[i] \notin {"mark", "complete", "fail"} => status' = status)
BY DEF WorkerStep, Dispatch, storeVars, Admit, Reject, Start, StartUnregistered, StartThrottled, Claim, Mark,
   WakeSleeping, Load, Answer, NoAnswer, Recheck, SendEvents, Save, Park, Complete, Fail, Announce,
   Release, Finish, EnqueueNext

\* ... and every call moves at most one run on.
LEMMA WorkerMoves ==
  ASSUME Shape, Carriers, Progress, NEW i \in Items, WorkerStep(i)
  PROVE  Moves
<1>1. CASE WakeSleeping(i)
  BY <1>1, WakeSleepingMoves
<1>2. CASE Save(i)
  BY <1>2, SaveMoves
<1>3. pc[i] \in {"mark", "complete", "fail"} => work[i].run \in Runs /\ status[work[i].run] # "None"
  BY WorkerCarries DEF Parked, Carriers, Unborn
<1>4. status \in [Runs -> {"None"} \cup Active \cup Terminal]
  BY DEF Shape, TypeOK, StoreTypeOK
<1>5. CASE Mark(i)
  BY <1>3, <1>4, <1>5 DEF Mark, MarkRunRunning, Moves, Begins, MovesTo, Active, Terminal
<1>6. CASE Complete(i)
  <2>1. Begun(work[i].run) /\ \A s \in Steps : Done(work[i].run, s)
    BY <1>6 DEF Complete, Progress, WorkerProgress, CompletedSteps, Done
  <2> QED BY <1>3, <1>4, <1>6, <2>1 DEF Complete, CompleteRun, EndRun, Moves, Completes, MovesTo, Active,
             Begun
<1>7. CASE Fail(i)
  BY <1>3, <1>4, <1>7 DEF Fail, FailRun, EndRun, Moves, GivesUp, MovesTo
<1>8. CASE pc[i] \notin {"wake", "save", "mark", "complete", "fail"}
  BY <1>8, QuietMoves DEF Moves
<1> QED BY <1>1, <1>2, <1>5, <1>6, <1>7, <1>8, CallAt

-----------------------------------------------------------------------------
(* What follows for the runs. *)

\* A move undoes no result and no beginning, and no end, and keeps the order of the steps.
LEMMA MovesKeepOrder ==
  ASSUME Shape, MemosInOrder, Moves
  PROVE  /\ MemosInOrder'
         /\ \A r \in Runs : Begun(r) => Begun(r)'
         /\ \A r \in Runs : status[r] \in Terminal => status'[r] = status[r]
         /\ \A r \in Runs, s \in Steps : Done(r, s) => Done(r, s)'
<1>1. status \in [Runs -> {"None"} \cup Active \cup Terminal]
  BY DEF Shape, TypeOK, StoreTypeOK
<1>2. CASE UNCHANGED <<status, memo>>
  BY <1>2 DEF MemosInOrder, Begun, Done, Open
<1>3. ASSUME NEW q \in Runs, Creates(q) \/ Begins(q) \/ Completes(q) \/ GivesUp(q)
      PROVE  /\ MemosInOrder'
             /\ \A r \in Runs : Begun(r) => Begun(r)'
             /\ \A r \in Runs : status[r] \in Terminal => status'[r] = status[r]
             /\ \A r \in Runs, s \in Steps : Done(r, s) => Done(r, s)'
  <2>1. memo' = memo
    BY <1>3 DEF Creates, Begins, Completes, GivesUp, MovesTo
  <2>2. \A r \in Runs : r # q => status'[r] = status[r]
    BY <1>1, <1>3 DEF Creates, Begins, Completes, GivesUp, MovesTo
  <2>3. /\ Begun(q) => Begun(q)'
        /\ status[q] \notin Terminal
        /\ status'[q] = "Completed" => \A s \in Steps : Done(q, s)
    BY <1>1, <1>3 DEF Creates, Begins, Completes, GivesUp, MovesTo, Begun, Terminal, Active
  <2>4. \A r \in Runs : Begun(r) => Begun(r)'
    BY <2>2, <2>3 DEF Begun
  <2> QED BY <2>1, <2>2, <2>3, <2>4 DEF MemosInOrder, Done, Open
<1>4. ASSUME NEW q \in Runs, NEW u \in Steps, NEW to \in MemoStates, Records(q, u, to)
      PROVE  /\ MemosInOrder'
             /\ \A r \in Runs : Begun(r) => Begun(r)'
             /\ \A r \in Runs : status[r] \in Terminal => status'[r] = status[r]
             /\ \A r \in Runs, s \in Steps : Done(r, s) => Done(r, s)'
  <2>1. status' = status /\ \A r \in Runs : Begun(r) <=> Begun(r)'
    BY <1>4 DEF Records, Begun
  <2>2. \A r \in Runs, s \in Steps : Done(r, s) => Done(r, s)'
    BY <1>4 DEF Records, Done
  <2>3. \A r \in Runs, s \in Steps : ~(r = q /\ s = u) => memo'[r][s] = memo[r][s]
    BY <1>4 DEF Records
  <2>4. Begun(q) /\ (\A t \in Steps : t < u => Done(q, t)) /\ status[q] # "Completed"
    BY <1>4 DEF Records, MemosInOrder
  <2>5. memo'[q][u] = "waiting" => Program[u] = "WaitForEvent"
    BY <1>4 DEF Records
  <2> QED BY <2>1, <2>2, <2>3, <2>4, <2>5 DEF MemosInOrder, Done, Open
<1> QED BY <1>2, <1>3, <1>4 DEF Moves

\* A worker that took no part in the step knows how far its run is, still.
LEMMA OtherProgress ==
  ASSUME Shape, NEW j \in Items, WorkerProgress(j), pc'[j] = pc[j], work'[j] = work[j],
         pc[j] \in Engaged => /\ Begun(work[j].run) => Begun(work[j].run)'
                              /\ \A s \in Steps : memo'[work[j].run][s] = memo[work[j].run][s]
  PROVE  WorkerProgress(j)'
<1>1. CASE pc[j] \notin Engaged
  BY <1>1 DEF WorkerProgress, Engaged
<1>2. CASE pc[j] \in Engaged
  <2> DEFINE r == work[j].run
  <2>1. Begun(r) => Begun(r)'
    BY <1>2
  <2>2. CompletedSteps(r)' = CompletedSteps(r) /\ (Settled(r) <=> Settled(r)')
    BY <1>2 DEF CompletedSteps, Settled, Open
  <2>3. pc[j] = "wait" => memo'[r][work[j].step] = memo[r][work[j].step]
    BY <1>2 DEF Shape, WorkerOK, StepOps
  <2> QED BY <2>1, <2>2, <2>3 DEF WorkerProgress
<1> QED BY <1>1, <1>2

-----------------------------------------------------------------------------
(* What a worker's call makes it know of its run. *)

\* The calls that do not engage the worker, or disengage it.
LEMMA DisengagedProgress ==
  ASSUME NEW i \in Items, pc'[i] \notin Engaged
  PROVE  WorkerProgress(i)'
BY DEF WorkerProgress, Engaged

\* A call that leaves the memos alone and sends the worker on: what it has to know there.
LEMMA EngagedProgress ==
  ASSUME Shape, Carriers, Progress, NEW i \in Items, ~Errs,
         Mark(i) \/ WakeSleeping(i) \/ Load(i) \/ Answer(i)
  PROVE  WorkerProgress(i)'
<1> DEFINE q == work[i].run
<1> USE DEF Shape, TypeOK, StoreTypeOK, ExecutorTypeOK, Goto
<1>1. CASE Mark(i)
  <2>1. CASE pc'[i] # "wake"
    BY <1>1, <2>1, DisengagedProgress DEF Mark, Engaged
  <2>2. CASE pc'[i] = "wake"
    <3>1. q \in Runs /\ status' = [status EXCEPT ![q] = "Running"] /\ work' = work
      BY <1>1, <2>2 DEF Mark, MarkRunRunning, WorkerOK
    <3> QED BY <2>2, <3>1 DEF WorkerProgress, Begun
  <2> QED BY <2>1, <2>2
<1>2. CASE WakeSleeping(i)
  <2>1. pc'[i] = "load" /\ work' = work /\ status' = status
    BY <1>2 DEF WakeSleeping
  <2>2. Begun(q) /\ Settled(q)'
    BY <1>2, WakeSleepingMoves DEF Progress, WorkerProgress, WakeSleeping
  <2> QED BY <2>1, <2>2 DEF WorkerProgress, Begun
<1>3. CASE Load(i)
  <2>1. /\ pc'[i] = "call" /\ work'[i].run = q /\ work'[i].seen = CompletedSteps(q)
        /\ status' = status /\ memo' = memo
    BY <1>3 DEF Load
  <2>2. Begun(q) /\ Settled(q)
    BY <1>3 DEF Progress, WorkerProgress, Load
  <2> QED BY <2>1, <2>2 DEF WorkerProgress, Begun, Settled, Open, CompletedSteps
<1>4. CASE Answer(i)
  <2>1. PICK a \in Answers(work[i].seen) :
          work' = [work EXCEPT ![i] = [run |-> q, attempt |-> work[i].attempt,
                                       seen |-> work[i].seen, op |-> a[1], step |-> a[2]]]
    BY <1>4 DEF Answer
  <2>2. work'[i].run = q /\ work'[i].seen = work[i].seen /\ work'[i].op = a[1] /\ work'[i].step = a[2]
    BY <2>1
  <2>3. pc'[i] = "recheck" /\ status' = status /\ memo' = memo
    BY <1>4 DEF Answer
  <2>4. Begun(q) /\ Settled(q) /\ work[i].seen = CompletedSteps(q)
    BY <1>4 DEF Progress, WorkerProgress, Answer
  <2>5. /\ a[1] \in StepOps => Interrupts(a[2], work[i].seen)
        /\ a[1] = "RunComplete" => Steps \subseteq work[i].seen
    <3>1. CASE a = <<"RunError", 0>>
      BY <3>1 DEF StepOps
    <3>2. CASE a = <<"RunComplete", 0>> /\ Steps \subseteq work[i].seen
      BY <3>2 DEF StepOps
    <3>3. CASE a \in {b \in Ops \X Steps : Interrupts(b[2], work[i].seen) /\ b[1] \in Opcodes(Program[b[2]])}
      <4>1. a[2] \in Steps /\ Interrupts(a[2], work[i].seen) /\ a[1] \in Opcodes(Program[a[2]])
        BY <3>3
      <4>2. Program[a[2]] \in Kinds
        BY <4>1, ProgramAssumption DEF Steps
      <4>3. "RunComplete" \notin Opcodes(Program[a[2]])
        BY <4>2 DEF Opcodes, Kinds
      <4> QED BY <4>1, <4>3
    <3> QED BY <3>1, <3>2, <3>3 DEF Answers
  <2> QED BY <2>2, <2>3, <2>4, <2>5 DEF WorkerProgress, Begun, Settled, Open, CompletedSteps
<1> QED BY <1>1, <1>2, <1>3, <1>4

\* The calls that handle an answer.
LEMMA HandlingProgress ==
  ASSUME Shape, Progress, NEW i \in Items, ~Errs, Recheck(i) \/ SendEvents(i) \/ Save(i)
  PROVE  WorkerProgress(i)'
<1> DEFINE q == work[i].run
<1> USE DEF Shape, TypeOK, StoreTypeOK, ExecutorTypeOK, Goto
<1>1. CASE pc'[i] \notin Engaged
  BY <1>1, DisengagedProgress
<1>2. CASE Recheck(i) /\ pc'[i] \in Engaged
  <2>1. work' = work /\ work[i].op # "RunError" /\ pc'[i] = Handles(work[i].op)
    BY <1>2 DEF Recheck, RetryOrFail, Engaged
  <2>2. work[i].op \in Ops \ {"RunError"}
    BY <1>2, <2>1 DEF Recheck, WorkerOK
  <2>3. \/ pc'[i] \in {"save", "send"}
        \/ pc'[i] = "complete" /\ work[i].op = "RunComplete"
    BY <2>1, <2>2 DEF Handles, Ops
  <2>4. status' = status /\ memo' = memo
    BY <1>2 DEF Recheck
  <2>5. /\ Begun(q) /\ Settled(q) /\ work[i].seen = CompletedSteps(q)
        /\ work[i].op \in StepOps => Interrupts(work[i].step, work[i].seen)
        /\ work[i].op = "RunComplete" => Steps \subseteq work[i].seen
    BY <1>2 DEF Recheck, Progress, WorkerProgress
  <2> QED BY <2>1, <2>3, <2>4, <2>5 DEF WorkerProgress, Begun, Settled, Open, CompletedSteps
<1>3. CASE SendEvents(i)
  <2>1. pc'[i] = "save" /\ work' = work /\ status' = status /\ memo' = memo
    BY <1>3 DEF SendEvents
  <2>2. /\ Begun(q) /\ Settled(q) /\ work[i].seen = CompletedSteps(q)
        /\ work[i].op \in StepOps => Interrupts(work[i].step, work[i].seen)
    BY <1>3 DEF SendEvents, Progress, WorkerProgress
  <2> QED BY <2>1, <2>2 DEF WorkerProgress, Begun, Settled, Open, CompletedSteps
<1>4. CASE Save(i) /\ pc'[i] \in Engaged
  <2>1. work[i].op = "WaitForEvent" /\ pc'[i] = "wait" /\ work' = work /\ status' = status
    BY <1>4 DEF Save, RetryOrFail, Engaged
  <2>2. q \in Runs /\ work[i].step \in Steps
    BY <1>4, <2>1 DEF Save, WorkerOK, StepOps
  <2>3. memo'[q][work[i].step] = "waiting"
    BY <1>4, <2>1, <2>2, SaveMoves DEF Records, MemoOf
  <2>4. Begun(q)
    BY <1>4 DEF Save, Progress, WorkerProgress
  <2> QED BY <2>1, <2>3, <2>4 DEF WorkerProgress, Begun
<1> QED BY <1>1, <1>2, <1>3, <1>4

\* Every call of a worker.
LEMMA OwnProgress ==
  ASSUME Shape, Carriers, Progress, NEW i \in Items, WorkerStep(i), ~Errs
  PROVE  WorkerProgress(i)'
<1>1. CASE \/ Admit(i) \/ Reject(i) \/ Start(i) \/ StartUnregistered(i) \/ StartThrottled(i)
           \/ Claim(i) \/ NoAnswer(i) \/ Park(i) \/ Complete(i) \/ Fail(i) \/ Announce(i)
           \/ Release(i) \/ Finish(i) \/ EnqueueNext(i)
  <2>1. pc'[i] \in {"idle", "start", "finish", "claim", "fail", "release", "mark", "announce", "enqueue"}
    BY <1>1 DEF Admit, Reject, Start, StartUnregistered, StartThrottled, Claim, NoAnswer, Park, Complete,
       Fail, Announce, Release, Finish, EnqueueNext, Goto, Return, RetryOrFail, Shape, TypeOK, ExecutorTypeOK
  <2> QED BY <2>1, DisengagedProgress DEF Engaged
<1> QED BY <1>1, EngagedProgress, HandlingProgress DEF WorkerStep, Dispatch

-----------------------------------------------------------------------------
(* A call of a worker keeps the progress of every goroutine. *)

\* Of another worker: it carries another run.
LEMMA OthersKeepProgress ==
  ASSUME Shape, Carriers, Progress, NEW i \in Items, WorkerStep(i),
         NEW j \in Items, j # i
  PROVE  WorkerProgress(j)'
<1>1. pc'[j] = pc[j] /\ work'[j] = work[j]
  BY OthersUntouched
<1>2. ASSUME pc[j] \in Engaged
      PROVE  /\ Begun(work[j].run) => Begun(work[j].run)'
             /\ \A s \in Steps : memo'[work[j].run][s] = memo[work[j].run][s]
  <2>1. work[j].run \in Runs /\ Carries(j, work[j].run)
    BY <1>2, WorkerCarries DEF Engaged, Parked
  <2>2. Begun(work[j].run) => Begun(work[j].run)'
    <3>1. \A r \in Runs : Begun(r) => Begun(r)'
      BY WorkerMoves, MovesKeepOrder DEF Progress
    <3> QED BY <1>1, <2>1, <3>1 DEF Begun
  <2>3. CASE pc[i] \in {"wake", "save"}
    <3>1. work[i].run # work[j].run
      BY <2>1, <2>3, WorkerCarries DEF Parked, Carriers, ItemsOfOneRun
    <3>2. memo'[work[j].run] = memo[work[j].run]
      BY <2>1, <2>3, <3>1, CallAt, WakeSleepingMoves, SaveMoves
    <3> QED BY <2>2, <3>2
  <2>4. CASE pc[i] \notin {"wake", "save"}
    BY <2>2, <2>4, QuietMoves
  <2> QED BY <2>3, <2>4
<1> QED BY <1>1, <1>2, OtherProgress DEF Progress

\* Of the runner and its waits: the run it resolves waits, so no worker writes its memos.
LEMMA WaitsKeepProgress ==
  ASSUME Shape, Carriers, Progress, NEW i \in Items, WorkerStep(i),
         ~Errs, UNCHANGED rn
  PROVE  WaitProgress' /\ RunnerProgress'
<1>1. ASSUME NEW r \in Runs, NEW s \in Steps, WaitCarries(r, s)
      PROVE  \A t \in Steps : memo'[r][t] = memo[r][t]
  <2>1. CASE pc[i] \in {"wake", "save"}
    <3>1. r # work[i].run
      BY <1>1, <2>1, WorkerCarries DEF Parked, Carriers, ItemOrWait
    <3> QED BY <2>1, <3>1, CallAt, WakeSleepingMoves, SaveMoves
  <2>2. CASE pc[i] \notin {"wake", "save"}
    BY <2>2, QuietMoves
  <2> QED BY <2>1, <2>2
<1>2. ASSUME NEW r \in Runs, NEW s \in Steps, WaitCarries(r, s)', ~WaitCarries(r, s)
      PROVE  memo'[r][s] = "waiting"
  <2>1. Park(i) /\ pc[i] = "wait"
    BY <1>2 DEF WorkerStep, WaitCarries, Dispatch, storeVars, Admit, Reject, Start, StartUnregistered,
       StartThrottled, Claim, Mark, WakeSleeping, Load, Answer, NoAnswer, Recheck, SendEvents, Save,
       Park, Complete, Fail, Announce, Release, Finish, EnqueueNext
  <2>2. PICK q \in Runs, u \in Steps : q = work[i].run /\ u = work[i].step
    BY <2>1 DEF Shape, WorkerOK, StepOps
  <2>3. waits' \in {waits, [waits EXCEPT ![q][u] = "waiting"]} /\ memo' = memo
    BY <2>1, <2>2 DEF Park, CreateWait
  <2>4. r = q /\ s = u
    BY <1>2, <2>3 DEF WaitCarries, Shape, TypeOK, StoreTypeOK
  <2> QED BY <2>1, <2>2, <2>3, <2>4 DEF Progress, WorkerProgress
<1>3. WaitProgress'
  <2> SUFFICES ASSUME NEW r \in Runs, NEW s \in Steps, WaitCarries(r, s)'
               PROVE  memo'[r][s] = "waiting" \/ (rn'.pc = "resolve" /\ rn'.run = r /\ rn'.step = s)
    BY DEF WaitProgress
  <2> QED BY <1>1, <1>2 DEF Progress, WaitProgress
<1>4. RunnerProgress'
  <2>1. ASSUME rn.pc = "resolve" PROVE rn.run \in Runs /\ \A t \in Steps : memo'[rn.run][t] = memo[rn.run][t]
    BY <1>1, <2>1 DEF Shape, RunnerOK, WaitCarries
  <2>2. rn.pc = "resolve" => rn.step \in Steps
    BY DEF Shape, RunnerOK
  <2> QED BY <2>1, <2>2 DEF Progress, RunnerProgress, Done, Settled, Open
<1> QED BY <1>3, <1>4

\* A run that waits is carried on as before.
LEMMA ParkedKeepProgress ==
  ASSUME Shape, Carriers, Progress, NEW i \in Items, WorkerStep(i),
         Undisturbed', UNCHANGED rn
  PROVE  WaitersParked'
<1> SUFFICES ASSUME NEW r \in Runs, NEW s \in Steps, memo'[r][s] = "waiting"
             PROVE  ~RunnerCarries(r)' /\ \A j \in Items : Carries(j, r)' => pc'[j] = "wait"
  BY DEF WaitersParked
<1>0. ~Errs
  BY UndisturbedStep
<1>1. \A j \in Items : j # i => pc'[j] = pc[j]
  BY OthersUntouched
<1>2. CASE memo[r][s] = "waiting"
  <2>1. ~RunnerCarries(r) /\ \A j \in Items : Carries(j, r) => pc[j] = "wait"
    BY <1>2 DEF Progress, WaitersParked
  <2>2. CASE Plain(i)
    <3>1. pc[i] # "wait"
      BY <2>2 DEF Plain, Admit, Reject, Start, StartUnregistered, StartThrottled, Claim, Mark,
         WakeSleeping, Load, Answer, NoAnswer, Recheck, SendEvents, Save, Complete, Fail, Announce,
         Release
    <3> QED BY <1>1, <2>1, <2>2, <3>1, PlainCalls, PlainCarries DEF RunnerCarries
  <2>3. CASE Finish(i)
    <3>1. \A j \in Items : Carries(j, r)' => Carries(j, r)
      BY <1>0, <2>3, FinishCarries DEF Finish
    <3> QED BY <1>1, <2>1, <2>3, <3>1 DEF RunnerCarries, Finish
  <2>4. CASE Park(i)
    <3>1. \A j \in Items : Carries(j, r)' => Carries(j, r) /\ j # i
      BY <1>0, <2>4, ParkCarries DEF Park, Goto
    <3> QED BY <1>1, <2>1, <3>1 DEF RunnerCarries
  <2>5. CASE EnqueueNext(i)
    <3>1. work[i].run # r
      BY <2>1, <2>5, WorkerCarries DEF EnqueueNext, Parked
    <3>2. \A j \in Items : Carries(j, r)' => Carries(j, r) /\ j # i
      BY <2>5, <3>1, EnqueueNextCarries
    <3> QED BY <1>1, <2>1, <3>2 DEF RunnerCarries
  <2> QED BY <2>2, <2>3, <2>4, <2>5 DEF WorkerStep, Dispatch, Plain
<1>3. CASE memo[r][s] # "waiting"
  <2>1. Save(i)
    <3>1. ~WakeSleeping(i)
      <4>1. ASSUME WakeSleeping(i) PROVE memo'[r][s] = "waiting" => memo[r][s] = "waiting"
        <5>1. PICK q \in Runs : CompleteSleepingSteps(q)
          BY <1>0, <4>1 DEF WakeSleeping, Shape, WorkerOK
        <5> QED BY <5>1 DEF CompleteSleepingSteps, Shape, TypeOK, StoreTypeOK
      <4> QED BY <1>3, <4>1
    <3>2. memo' # memo
      BY <1>3
    <3> QED BY <3>1, <3>2, QuietMoves, CallAt
  <2>2. PICK q \in Runs, u \in Steps, op \in StepOps : q = work[i].run /\ u = work[i].step /\ op = work[i].op
    BY <2>1 DEF Save, Shape, WorkerOK, StepOps
  <2>3. r = q /\ s = u /\ MemoOf(op) = "waiting"
    BY <1>0, <1>3, <2>1, <2>2, SaveMoves DEF Records
  <2>4. pc'[i] = "wait"
    <3>1. op = "WaitForEvent"
      BY <2>3 DEF MemoOf, StepOps
    <3> QED BY <2>1, <2>2, <3>1 DEF Save, Goto, Shape, TypeOK, ExecutorTypeOK
  <2>5. Carries(i, r)
    BY <2>1, <2>2, <2>3, WorkerCarries DEF Save, Parked
  <2>6. ~RunnerCarries(r) /\ \A j \in Items : Carries(j, r)' => j = i
    BY <2>1, <2>5, PlainCalls, PlainCarries DEF Plain, Carriers, RunnerOrItem, ItemsOfOneRun
  <2> QED BY <2>4, <2>6 DEF RunnerCarries
<1> QED BY <1>2, <1>3

\* Every call of a worker keeps the invariant.
LEMMA WorkerKeepsProgress ==
  ASSUME Shape, Carriers, Progress, NEW i \in Items, WorkerStep(i),
         Undisturbed', UNCHANGED rn
  PROVE  Progress'
<1>1. ~Errs
  BY UndisturbedStep
<1>2. MemosInOrder'
  BY WorkerMoves, MovesKeepOrder DEF Progress
<1>3. \A j \in Items : WorkerProgress(j)'
  BY <1>1, OwnProgress, OthersKeepProgress
<1>4. WaitProgress' /\ RunnerProgress' /\ WaitersParked'
  BY <1>1, WaitsKeepProgress, ParkedKeepProgress
<1> QED BY <1>2, <1>3, <1>4 DEF Progress

-----------------------------------------------------------------------------
(* The other goroutines. *)

\* A step that writes no memo, engages no worker and brings a run that waits no new carrier.
LEMMA QuietStep ==
  ASSUME Shape, Progress, Moves, memo' = memo, WaitProgress', RunnerProgress',
         \A j \in Items : \/ pc'[j] = pc[j] /\ work'[j] = work[j]
                          \/ pc'[j] \notin Engaged /\ pc[j] # "wait",
         \A r \in Runs, s \in Steps : memo[r][s] = "waiting" =>
           /\ RunnerCarries(r)' => RunnerCarries(r)
           /\ \A j \in Items : Carries(j, r)' => Carries(j, r)
  PROVE  Progress'
<1>1. MemosInOrder' /\ \A r \in Runs : Begun(r) => Begun(r)'
  BY MovesKeepOrder DEF Progress
<1>2. ASSUME NEW j \in Items PROVE WorkerProgress(j)'
  <2>1. CASE pc'[j] \notin Engaged
    BY <2>1, DisengagedProgress
  <2>2. CASE pc'[j] \in Engaged
    <3>1. pc'[j] = pc[j] /\ work'[j] = work[j] /\ work[j].run \in Runs
      BY <2>2 DEF Engaged, Shape, WorkerOK
    <3>2. Begun(work[j].run) => Begun(work[j].run)'
      BY <1>1, <3>1 DEF Begun
    <3> QED BY <3>1, <3>2, OtherProgress DEF Progress
  <2> QED BY <2>1, <2>2
<1>3. WaitersParked'
  <2> SUFFICES ASSUME NEW r \in Runs, NEW s \in Steps, memo[r][s] = "waiting"
               PROVE  ~RunnerCarries(r)' /\ \A j \in Items : Carries(j, r)' => pc'[j] = "wait"
    BY DEF WaitersParked
  <2>1. ~RunnerCarries(r) /\ \A j \in Items : Carries(j, r) => pc[j] = "wait"
    BY DEF Progress, WaitersParked
  <2> QED BY <2>1
<1> QED BY <1>1, <1>2, <1>3 DEF Progress

\* A step of which the runner's handling of a wait takes no notice.
LEMMA RunnerFrame ==
  ASSUME Shape, Progress, memo' = memo, rn.pc = "resolve" \/ rn'.pc = "resolve" => rn' = rn,
         \A r \in Runs, s \in Steps : WaitCarries(r, s)' => WaitCarries(r, s)
  PROVE  WaitProgress' /\ RunnerProgress'
<1>1. WaitProgress'
  BY DEF Progress, WaitProgress
<1>2. RunnerProgress'
  BY DEF Progress, RunnerProgress, Done, Settled, Open
<1> QED BY <1>1, <1>2

\* The loop, the timeouts and the dashboard move runs on without a memo.
LEMMA EndingMoves ==
  ASSUME Shape, NEW q \in Runs, NEW to \in {"Failed", "Cancelled"}, status[q] \in Active,
         EndRunAndPending(q, to), UNCHANGED memo
  PROVE  Moves
BY DEF EndRunAndPending, Moves, GivesUp, MovesTo

\* So do time and a restart, trivially.
LEMMA BackgroundMoves ==
  ASSUME Shape, Background \/ (\E q \in Runs : DashboardCancel(q)) \/ TimePasses \/ Crash \/ UNCHANGED vars
  PROVE  Moves /\ memo' = memo
<1>1. ASSUME NEW q \in Runs, TimeoutRun(q) \/ DashboardCancel(q) PROVE Moves /\ memo' = memo
  BY <1>1, EndingMoves DEF TimeoutRun, DashboardCancel
<1>2. CASE UNCHANGED <<status, memo>>
  BY <1>2 DEF Moves
<1> QED BY <1>1, <1>2 DEF Background, Reconcile, Lease, AnnounceTimeout, TimePasses, Wake, Crash, vars,
           storeVars

\* They add no carrier ...
LEMMA BackgroundAdds ==
  ASSUME Shape, Background \/ (\E q \in Runs : DashboardCancel(q)) \/ TimePasses \/ UNCHANGED vars,
         UNCHANGED rn
  PROVE  NoNewCarrier
<1>1. ASSUME NEW q \in Runs, DashboardCancel(q) PROVE NoNewCarrier
  BY <1>1, EndRunAndPendingCarries DEF DashboardCancel, Terminal, executorVars, NoNewCarrier,
     RunnerCarries, WaitCarries
<1>2. CASE TimePasses \/ UNCHANGED vars
  BY <1>2 DEF TimePasses, Wake, vars, storeVars, executorVars, NoNewCarrier, Carries, Parked,
     RunnerCarries, WaitCarries
<1> QED BY <1>1, <1>2, BackgroundCarries

\* ... and keep what every goroutine knows.
LEMMA BackgroundKeepsProgress ==
  ASSUME Shape, Progress, Background \/ (\E q \in Runs : DashboardCancel(q)) \/ TimePasses \/ UNCHANGED vars,
         UNCHANGED rn
  PROVE  Progress'
<1>1. NoNewCarrier
  BY BackgroundAdds
<1>2. \A j \in Items : \/ pc'[j] = pc[j] /\ work'[j] = work[j]
                       \/ pc'[j] \notin Engaged /\ pc[j] # "wait"
  <2>1. CASE Lease
    <3>1. PICK batch \in SUBSET {i \in Items : Due(i)} :
            /\ pc' = [i \in Items |-> IF i \in batch THEN "leased" ELSE pc[i]]
            /\ work' = [i \in Items |-> IF i \in batch THEN [NoWork EXCEPT !.run = queue[i].run]
                                                       ELSE work[i]]
      BY <2>1 DEF Lease
    <3>2. \A i \in batch : queue[i].st = "pending"
      BY DEF Due
    <3> QED BY <3>1, <3>2 DEF Engaged, Shape, WorkerOK
  <2> QED BY <2>1 DEF Background, Reconcile, AnnounceTimeout, TimeoutRun, DashboardCancel, TimePasses,
           executorVars, vars
<1>3. WaitProgress' /\ RunnerProgress'
  BY <1>1, BackgroundMoves, RunnerFrame DEF NoNewCarrier
<1> QED BY <1>1, <1>2, <1>3, BackgroundMoves, QuietStep DEF NoNewCarrier

\* A restart forgets the workers, and without waits the runner resolves nothing.
LEMMA CrashKeepsProgress ==
  ASSUME Shape, WaitersWait, Progress, Crash, Undisturbed'
  PROVE  Progress'
<1>1. WaitFree
  BY DEF Undisturbed, WaitFree, Crash, storeVars, Shape, TypeOK
<1>2. \A r \in Runs, s \in Steps : memo'[r][s] # "waiting"
  BY <1>1 DEF WaitFree, Crash, storeVars, Progress, MemosInOrder
<1>3. MemosInOrder' /\ WaitersParked'
  BY <1>2, BackgroundMoves, MovesKeepOrder DEF Progress, WaitersParked
<1>4. \A i \in Items : WorkerProgress(i)'
  BY DisengagedProgress DEF Crash, Engaged
<1>5. RunnerProgress'
  BY DEF Crash, Idle, RunnerProgress
<1>6. WaitProgress'
  BY <1>1 DEF WaitFree, Crash, storeVars, WaitersWait, WaitProgress, WaitCarries
<1> QED BY <1>3, <1>4, <1>5, <1>6 DEF Progress

\* A call errs, or no more calls have failed than before.
LEMMA StepFaults ==
  ASSUME [Next]_vars
  PROVE  /\ faults' = faults \/ Errs
         /\ crashes' = crashes \/ Crash
<1>1. ASSUME NEW i \in Items, WorkerStep(i) PROVE faults' = faults \/ Errs
  BY <1>1 DEF WorkerStep, Dispatch, storeVars, Admit, Reject, Start, StartUnregistered, StartThrottled, Claim,
     Mark, WakeSleeping, Load, Answer, NoAnswer, Recheck, SendEvents, Save, Park, Complete, Fail, Announce,
     Release, Finish, EnqueueNext, Succeeds
<1>2. CASE ExecutorStep
  BY <1>1, <1>2 DEF ExecutorStep, Loop, WorkerStep, Reconcile, Lease, AnnounceTimeout, TimeoutRun, Succeeds
<1>3. CASE RunnerStep
  BY <1>3 DEF RunnerStep, Trigger, CancelOn, TakeWait, CompleteWaitStep, Resolve, SweepWaits, RunnerEnqueue,
     Succeeds
<1>4. CASE TimePasses \/ (\E q \in Runs : DashboardCancel(q)) \/ Crash \/ UNCHANGED vars
  BY <1>4 DEF TimePasses, Wake, DashboardCancel, Crash, vars, storeVars
<1> QED BY <1>2, <1>3, <1>4 DEF Next

-----------------------------------------------------------------------------
(* The runner. *)

\* It opens no wait.
LEMMA RunnerWaits ==
  ASSUME Shape, RunnerStep
  PROVE  \A r \in Runs, s \in Steps : waits'[r][s] = "waiting" => waits[r][s] = "waiting"
<1>1. ASSUME NEW q \in Runs, NEW u \in Steps, TakeWait(q, u)
      PROVE  \A r \in Runs, s \in Steps : waits'[r][s] = "waiting" => waits[r][s] = "waiting"
  BY <1>1 DEF TakeWait, SetWaitStatus, Shape, TypeOK, StoreTypeOK
<1>2. CASE UNCHANGED waits
  BY <1>2
<1>3. CASE Resolve
  <2>1. PICK q \in Runs, u \in Steps, to \in {"resolved", "timeout"} :
          q = rn.run /\ u = rn.step /\ to = rn.to
    BY <1>3 DEF Resolve, Shape, RunnerOK, TypeOK, RunnerTypeOK
  <2>2. waits' \in {waits, [waits EXCEPT ![q][u] = to]}
    BY <1>3, <2>1 DEF Resolve, SetWaitStatus
  <2> QED BY <2>2 DEF Shape, TypeOK, StoreTypeOK
<1>4. CASE CancelWaitsForRun(rn.run)
  BY <1>4 DEF CancelWaitsForRun, Shape, TypeOK, StoreTypeOK
<1> QED BY <1>1, <1>2, <1>3, <1>4 DEF RunnerStep, Trigger, CancelOn, CompleteWaitStep, SweepWaits,
         RunnerEnqueue

\* The runner completes the memo of the wait, the only open step of its run.
LEMMA CompleteWaitMoves ==
  ASSUME Shape, Progress, CompleteWaitStep
  PROVE  /\ Moves
         /\ ~Errs => Records(rn.run, rn.step, "completed") /\ memo[rn.run][rn.step] = "waiting"
<1>0. PICK q \in Runs, u \in Steps : q = rn.run /\ u = rn.step
  BY DEF CompleteWaitStep, Shape, RunnerOK
<1>1. status' = status
  BY DEF CompleteWaitStep
<1>2. CASE UNCHANGED memo /\ Errs
  BY <1>1, <1>2 DEF Moves
<1>3. CASE SaveStepResult(q, u, "completed")
  <2>1. memo[q][u] = "waiting"
    BY <1>0 DEF CompleteWaitStep, Shape, RunnerOK, Progress, WaitProgress, WaitCarries
  <2>2. Begun(q) /\ ~Done(q, u) /\ \A t \in Steps : t < u => Done(q, t)
    BY <2>1 DEF Progress, MemosInOrder, Open, Done
  <2>3. \A r \in Runs, s \in Steps : memo'[r][s] = IF r = q /\ s = u THEN "completed" ELSE memo[r][s]
    BY <1>3 DEF SaveStepResult, Shape, TypeOK, StoreTypeOK
  <2>4. Records(q, u, "completed")
    BY <1>1, <2>2, <2>3 DEF Records, MemoStates
  <2> QED BY <1>0, <2>1, <2>4 DEF Moves, MemoStates
<1> QED BY <1>0, <1>2, <1>3 DEF CompleteWaitStep

\* While the runner completes the step of a wait, no worker carries the run.
LEMMA CompleteWaitKeepsProgress ==
  ASSUME Shape, Carriers, Progress, CompleteWaitStep, ~Errs, UNCHANGED executorVars
  PROVE  Progress'
<1>0. PICK q \in Runs, u \in Steps : q = rn.run /\ u = rn.step
  BY DEF CompleteWaitStep, Shape, RunnerOK
<1>1. rn.pc = "memo" /\ rn' = [rn EXCEPT !.pc = "resolve"] /\ UNCHANGED <<status, waits, queue, pc, work>>
  BY DEF CompleteWaitStep, executorVars
<1>2. WaitCarries(q, u)
  BY <1>0 DEF CompleteWaitStep, Shape, RunnerOK, WaitCarries
<1>3. Records(q, u, "completed") /\ memo[q][u] = "waiting"
  BY <1>0, CompleteWaitMoves
<1>4. rn'.pc = "resolve" /\ rn'.run = q /\ rn'.step = u
  BY <1>0, <1>1 DEF Shape, TypeOK, RunnerTypeOK
<1>5. MemosInOrder'
  BY CompleteWaitMoves, MovesKeepOrder DEF Progress
<1>6. \A r \in Runs, s \in Steps : ~(r = q /\ s = u) => memo'[r][s] = memo[r][s]
  BY <1>3 DEF Records
<1>7. ASSUME NEW j \in Items PROVE WorkerProgress(j)'
  <2>1. ASSUME pc[j] \in Engaged PROVE work[j].run \in Runs /\ work[j].run # q
    BY <1>2, <2>1, WorkerCarries DEF Engaged, Parked, Carriers, ItemOrWait
  <2> QED BY <1>1, <1>6, <2>1, OtherProgress DEF Progress, Begun
<1>8. WaitProgress'
  BY <1>1, <1>4, <1>6 DEF Progress, WaitProgress, WaitCarries
<1>9. RunnerProgress'
  <2>1. memo'[q][u] = "completed"
    BY <1>3 DEF Records
  <2>2. ASSUME NEW t \in Steps, t # u PROVE ~Open(q, t)
    <3>1. t < u \/ u < t
      BY <2>2 DEF Steps
    <3> QED BY <1>3, <3>1 DEF Progress, MemosInOrder, Open, Done
  <2> QED BY <1>4, <1>6, <2>1, <2>2 DEF RunnerProgress, Done, Settled, Open
<1>10. WaitersParked'
  <2>1. \A r \in Runs : /\ ~RunnerCarries(r)'
                        /\ \A i \in Items : Carries(i, r)' <=> Carries(i, r)
    BY <1>1, <1>4 DEF RunnerCarries, Carries, Parked
  <2>2. \A r \in Runs, s \in Steps : memo'[r][s] = "waiting" => memo[r][s] = "waiting"
    BY <1>3 DEF Records
  <2> QED BY <1>1, <2>1, <2>2 DEF Progress, WaitersParked
<1> QED BY <1>5, <1>7, <1>8, <1>9, <1>10 DEF Progress

\* The run whose wait is resolved has no open step left.
LEMMA ResolveKeepsProgress ==
  ASSUME Shape, Progress, Resolve, ~Errs, UNCHANGED executorVars
  PROVE  Progress'
<1>0. PICK q \in Runs, u \in Steps : q = rn.run /\ u = rn.step
  BY DEF Resolve, Shape, RunnerOK
<1>1. /\ SetWaitStatus(q, u, rn.to) /\ rn' = [rn EXCEPT !.pc = "resume"]
      /\ UNCHANGED <<status, memo, queue, pc, work>>
  BY <1>0 DEF Resolve, executorVars
<1>2. \A r \in Runs, s \in Steps : WaitCarries(r, s)' => WaitCarries(r, s) /\ ~(r = q /\ s = u)
  <2>1. waits' = [waits EXCEPT ![q][u] = rn.to] /\ rn.to # "waiting"
    BY <1>1 DEF SetWaitStatus, Shape, TypeOK, RunnerTypeOK
  <2> QED BY <2>1 DEF WaitCarries, Shape, TypeOK, StoreTypeOK
<1>3. rn'.pc = "resume" /\ rn'.run = q
  BY <1>0, <1>1 DEF Shape, TypeOK, RunnerTypeOK
<1>4. WaitProgress' /\ RunnerProgress'
  BY <1>0, <1>1, <1>2, <1>3 DEF Progress, WaitProgress, RunnerProgress
<1>5. \A s \in Steps : memo[q][s] # "waiting"
  BY <1>0 DEF Resolve, Progress, RunnerProgress, Settled, Open
<1>6. \A r \in Runs, s \in Steps : memo[r][s] = "waiting" =>
        /\ RunnerCarries(r)' => RunnerCarries(r)
        /\ \A j \in Items : Carries(j, r)' => Carries(j, r)
  BY <1>1, <1>3, <1>5 DEF RunnerCarries, Carries, Parked
<1>7. Moves
  BY <1>1 DEF Moves
<1> QED BY <1>1, <1>4, <1>6, <1>7, QuietStep

\* Every step of the runner moves at most one run on ...
LEMMA RunnerMoves ==
  ASSUME Shape, Progress, RunnerStep
  PROVE  Moves /\ (~CompleteWaitStep => memo' = memo)
<1>1. ASSUME NEW q \in Runs, Trigger(q) PROVE Moves
  BY <1>1 DEF Trigger, CreateRun, Moves, Creates, MovesTo
<1>2. ASSUME NEW q \in Runs, CancelOn(q) PROVE Moves
  BY <1>2, EndingMoves DEF CancelOn
<1>3. CASE CompleteWaitStep
  BY <1>3, CompleteWaitMoves
<1>4. CASE UNCHANGED <<status, memo>>
  BY <1>4 DEF Moves
<1> QED BY <1>1, <1>2, <1>3, <1>4 DEF RunnerStep, Trigger, CancelOn, TakeWait, Resolve, SweepWaits,
           RunnerEnqueue

\* ... and keeps the invariant.
LEMMA RunnerKeepsProgress ==
  ASSUME Shape, Carriers, Progress, RunnerStep, ~Errs
  PROVE  Progress'
<1> USE DEF executorVars
<1>1. CASE CompleteWaitStep
  BY <1>1, CompleteWaitKeepsProgress DEF RunnerStep, CompleteWaitStep, RunnerEnqueue
<1>2. CASE Resolve
  BY <1>2, ResolveKeepsProgress DEF RunnerStep, Resolve, RunnerEnqueue
<1>3. ASSUME NEW q \in Runs, Trigger(q), UNCHANGED executorVars PROVE Progress'
  <2>1. \A s \in Steps : memo[q][s] # "waiting"
    BY <1>3 DEF Trigger, Progress, MemosInOrder, Open, Begun
  <2>2. \A r \in Runs, s \in Steps : memo[r][s] = "waiting" =>
          /\ RunnerCarries(r)' => RunnerCarries(r)
          /\ \A j \in Items : Carries(j, r)' => Carries(j, r)
    BY <1>3, <2>1 DEF Trigger, RunnerCarries, Carries, Parked
  <2>3. WaitProgress' /\ RunnerProgress'
    BY <1>3, RunnerFrame DEF Trigger, WaitCarries
  <2>4. ~CompleteWaitStep
    BY <1>3 DEF Trigger, CompleteWaitStep
  <2> QED BY <1>3, <2>2, <2>3, <2>4, RunnerMoves, QuietStep
<1>4. ASSUME NEW q \in Runs, CancelOn(q) \/ (\E u \in Steps : TakeWait(q, u)), UNCHANGED executorVars
      PROVE  Progress'
  <2>1. NoNewCarrier
    <3>1. CASE CancelOn(q)
      BY <1>4, <3>1, EndRunAndPendingCarries DEF CancelOn, Terminal, NoNewCarrier, RunnerCarries, WaitCarries
    <3>2. ASSUME NEW u \in Steps, TakeWait(q, u) PROVE NoNewCarrier
      <4>1. \A r \in Runs, s \in Steps : waits'[r][s] = "waiting" => waits[r][s] = "waiting"
        BY RunnerWaits
      <4>2. \A r \in Runs : RunnerCarries(r)' => RunnerCarries(r)
        BY <3>2 DEF TakeWait, RunnerCarries
      <4> QED BY <1>4, <3>2, <4>1, <4>2 DEF TakeWait, NoNewCarrier, Carries, Parked, WaitCarries
    <3> QED BY <1>4, <3>1, <3>2
  <2>2. rn.pc # "resolve" /\ rn'.pc # "resolve" /\ ~CompleteWaitStep
    BY <1>4 DEF CancelOn, TakeWait, CompleteWaitStep
  <2>3. WaitProgress' /\ RunnerProgress'
    BY <2>1, <2>2, RunnerMoves, RunnerFrame DEF NoNewCarrier
  <2> QED BY <1>4, <2>1, <2>2, <2>3, RunnerMoves, QuietStep DEF NoNewCarrier
<1>5. CASE SweepWaits /\ UNCHANGED executorVars
  <2>1. \A r \in Runs, s \in Steps : waits'[r][s] = "waiting" => waits[r][s] = "waiting"
    BY RunnerWaits
  <2>2. rn.pc = "sweep" /\ rn' = Idle /\ ~CompleteWaitStep
    BY <1>5 DEF SweepWaits, CompleteWaitStep
  <2>3. WaitProgress' /\ RunnerProgress'
    BY <2>1, <2>2, RunnerMoves, RunnerFrame DEF WaitCarries, Idle
  <2>4. \A r \in Runs : ~RunnerCarries(r)' /\ \A j \in Items : Carries(j, r)' => Carries(j, r)
    BY <1>5, <2>2 DEF SweepWaits, RunnerCarries, Idle, Carries, Parked
  <2> QED BY <1>5, <2>2, <2>3, <2>4, RunnerMoves, QuietStep
<1>6. CASE RunnerEnqueue
  <2>0. PICK q \in Runs : q = rn.run
    BY <1>6 DEF RunnerEnqueue, Shape, RunnerOK
  <2>1. PICK j \in Items : queue'[j].run = q /\ \A k \in Items : k # j => queue'[k] = queue[k]
    <3>1. PICK j \in Items : Enqueue(j, q, 0)
      BY <1>6, <2>0 DEF RunnerEnqueue
    <3>2. queue'[j].run = q /\ \A k \in Items : k # j => queue'[k] = queue[k]
      BY <3>1 DEF Enqueue, Shape, TypeOK, StoreTypeOK
    <3> QED BY <3>2
  <2>2. RunnerCarries(q)
    BY <1>6, <2>0 DEF RunnerEnqueue, RunnerCarries
  <2>3. \A r \in Runs, s \in Steps : memo[r][s] = "waiting" =>
          /\ RunnerCarries(r)' => RunnerCarries(r)
          /\ \A k \in Items : Carries(k, r)' => Carries(k, r)
    BY <1>6, <2>1, <2>2 DEF RunnerEnqueue, Progress, WaitersParked, RunnerCarries, Idle, Carries, Parked
  <2>4. rn.pc # "resolve" /\ rn'.pc # "resolve" /\ ~CompleteWaitStep
    BY <1>6 DEF RunnerEnqueue, Idle, CompleteWaitStep
  <2>5. WaitProgress' /\ RunnerProgress'
    BY <1>6, <2>4, RunnerMoves, RunnerFrame DEF RunnerEnqueue, WaitCarries
  <2> QED BY <1>6, <2>3, <2>4, <2>5, RunnerMoves, QuietStep DEF RunnerEnqueue
<1> QED BY <1>1, <1>2, <1>3, <1>4, <1>5, <1>6 DEF RunnerStep

-----------------------------------------------------------------------------
\* At the start no step has begun ...
LEMMA ProgressInit == Init => ProgressInv
BY DEF Init, StoreInit, ExecutorInit, RunnerInit, Idle, NoWork, ProgressInv, Progress, MemosInOrder,
   WorkerProgress, WaitProgress, RunnerProgress, WaitersParked, Done, Open, WaitCarries, RunnerCarries

\* ... and every step keeps the invariant, as long as nothing disturbs the engine.
LEMMA ProgressNext == Shape /\ CarrierInv /\ SentInv /\ ProgressInv /\ [Next]_vars => ProgressInv'
<1> SUFFICES ASSUME Shape, CarrierInv, SentInv, ProgressInv, [Next]_vars, Undisturbed' PROVE Progress'
  BY DEF ProgressInv
<1>1. ~Errs
  BY UndisturbedStep
<1>2. Undisturbed
  <2>1. CASE Crash
    BY <2>1 DEF Crash, Undisturbed, WaitFree, storeVars, Shape, TypeOK
  <2>2. CASE ~Crash
    BY <1>1, <2>2, StepFaults DEF Undisturbed, WaitFree
  <2> QED BY <2>1, <2>2
<1>3. Carriers /\ Progress
  BY <1>2 DEF CarrierInv, ProgressInv
<1>4. ASSUME NEW i \in Items, WorkerStep(i), UNCHANGED rn PROVE Progress'
  BY <1>3, <1>4, WorkerKeepsProgress
<1>5. CASE (Background \/ (\E q \in Runs : DashboardCancel(q)) \/ TimePasses \/ UNCHANGED vars) /\ UNCHANGED rn
  BY <1>3, <1>5, BackgroundKeepsProgress
<1>6. CASE Crash
  BY <1>3, <1>6, CrashKeepsProgress DEF SentInv
<1>7. CASE RunnerStep
  BY <1>1, <1>3, <1>7, RunnerKeepsProgress
<1>8. UNCHANGED vars \/ TimePasses \/ (\E q \in Runs : DashboardCancel(q)) => UNCHANGED rn
  BY DEF vars, TimePasses, DashboardCancel
<1> QED BY <1>4, <1>5, <1>6, <1>7, <1>8 DEF Next, ExecutorStep, Loop, Background, WorkerStep

\* The invariant holds throughout.
LEMMA ProgressHolds == Spec => [](Shape /\ CarrierInv /\ SentInv /\ ProgressInv)
BY ShapeHolds, CarrierInit, CarrierNext, SentInit, SentNext, ProgressInit, ProgressNext, PTL DEF Spec

\* Steps finish in the order of the program, and a completed run finished all of them.
THEOREM StepsFollowProgram == Spec => []StepsInOrder
<1>1. ProgressInv => StepsInOrder
  BY DEF ProgressInv, Progress, MemosInOrder, StepsInOrder
<1> QED BY <1>1, ProgressHolds, PTL

\* A step of the undisturbed engine moves at most one run on.
LEMMA EveryMove ==
  ASSUME Shape, CarrierInv, ProgressInv, Undisturbed, [Next]_vars
  PROVE  Moves
<1>1. Carriers /\ Progress
  BY DEF CarrierInv, ProgressInv
<1>2. ASSUME NEW i \in Items, WorkerStep(i) PROVE Moves
  BY <1>1, <1>2, WorkerMoves
<1> QED BY <1>1, <1>2, BackgroundMoves, RunnerMoves DEF Next, ExecutorStep, Loop, Background, WorkerStep

\* A stored result is never replaced, neither by the late answer of another hop
\* nor by a wait that is parked again.
THEOREM ResultsStay == Spec => ResultsLast
<1>1. Shape /\ CarrierInv /\ ProgressInv /\ [Next]_vars =>
        [Undisturbed => \A r \in Runs, s \in Steps : Done(r, s) => Done(r, s)']_vars
  BY EveryMove, MovesKeepOrder DEF ProgressInv, Progress
<1> QED BY <1>1, ProgressHolds, PTL DEF Spec, ResultsLast

\* Only the answer of its own callback lets a worker go on from it.
LEMMA AnsweredBy ==
  ASSUME Shape, [Next]_vars, NEW i \in Items, pc[i] = "call", pc'[i] = "recheck"
  PROVE  Answer(i)
<1>1. ASSUME NEW j \in Items, WorkerStep(j), j # i PROVE pc'[i] = pc[i]
  BY <1>1, OthersUntouched
<1>2. CASE WorkerStep(i)
  <2>1. ~NoAnswer(i)
    BY DEF NoAnswer, Goto, RetryOrFail, Shape, TypeOK, ExecutorTypeOK
  <2> QED BY <1>2, <2>1 DEF WorkerStep, Dispatch, Admit, Reject, Start, StartUnregistered, StartThrottled, Claim,
           Mark, WakeSleeping, Load, Recheck, SendEvents, Save, Park, Complete, Fail, Announce, Release,
           Finish, EnqueueNext
<1>3. CASE Lease
  <2>1. pc'[i] = pc[i] \/ pc'[i] = "leased"
    BY <1>3 DEF Lease
  <2> QED BY <2>1
<1>4. CASE Crash
  BY <1>4 DEF Crash
<1>5. CASE pc' = pc
  BY <1>5
<1> QED BY <1>1, <1>2, <1>3, <1>4, <1>5 DEF Next, ExecutorStep, Loop, WorkerStep, Reconcile, AnnounceTimeout,
         TimeoutRun, RunnerStep, RunnerEnqueue, executorVars, TimePasses, DashboardCancel, vars

\* The app is never made to execute a step whose result is already stored.
THEOREM NeverExecutedAgain == Spec => ExecutedOnce
<1> DEFINE Once == Undisturbed => \A i \in Items, s \in Steps : Executes(i, s) => ~Done(work[i].run, s)
<1>1. ASSUME Shape, ProgressInv, [Next]_vars, Undisturbed, NEW i \in Items, NEW s \in Steps, Executes(i, s)
      PROVE  ~Done(work[i].run, s)
  <2>1. Answer(i)
    BY <1>1, AnsweredBy DEF Executes
  <2>2. PICK a \in Answers(work[i].seen) : work'[i].step = a[2]
    <3>1. PICK a \in Answers(work[i].seen) :
            work' = [work EXCEPT ![i] = [run |-> work[i].run, attempt |-> work[i].attempt,
                                         seen |-> work[i].seen, op |-> a[1], step |-> a[2]]]
      BY <2>1 DEF Answer
    <3>2. work'[i].step = a[2]
      BY <1>1, <3>1 DEF Shape, TypeOK, ExecutorTypeOK
    <3> QED BY <3>2
  <2>3. s = a[2] /\ s # 0
    BY <1>1, <2>2 DEF Executes, Steps
  <2>4. Interrupts(s, work[i].seen)
    <3>1. a # <<"RunError", 0>> /\ a # <<"RunComplete", 0>>
      BY <2>3
    <3>2. a \in {b \in Ops \X Steps : Interrupts(b[2], work[i].seen) /\ b[1] \in Opcodes(Program[b[2]])}
      BY <3>1 DEF Answers
    <3> QED BY <2>3, <3>2
  <2>5. work[i].seen = CompletedSteps(work[i].run)
    BY <1>1, <2>1 DEF Answer, ProgressInv, Progress, WorkerProgress
  <2> QED BY <2>4, <2>5 DEF Interrupts, CompletedSteps, Done
<1>2. Shape /\ ProgressInv /\ [Next]_vars => [Once]_vars
  BY <1>1
<1> QED BY <1>2, ProgressHolds, PTL DEF Spec, ExecutedOnce

-----------------------------------------------------------------------------
(* The refinement of DurableRun. *)

\* A move of the engine is a step of DurableRun, or none.
LEMMA MovesAreDurable ==
  ASSUME Shape, MemosInOrder, Moves
  PROVE  [Durable!DurableNext]_<<status, [r \in Runs |-> CompletedSteps(r)]>>
<1> DEFINE done == [r \in Runs |-> CompletedSteps(r)]
<1>0. status \in [Runs -> {"None"} \cup Active \cup Terminal]
  BY DEF Shape, TypeOK, StoreTypeOK
<1>1. CASE UNCHANGED <<status, memo>>
  BY <1>1 DEF CompletedSteps
<1>2. ASSUME NEW q \in Runs, Creates(q) \/ Begins(q) \/ Completes(q) \/ GivesUp(q)
      PROVE  [Durable!DurableNext]_<<status, done>>
  <2>1. done' = done
    BY <1>2 DEF Creates, Begins, Completes, GivesUp, MovesTo, CompletedSteps
  <2>2. CASE Creates(q)
    <3>1. Durable!Create(q)
      BY <2>1, <2>2 DEF Creates, MovesTo, Durable!Create
    <3> QED BY <3>1 DEF Durable!DurableNext
  <2>3. CASE Begins(q)
    <3>1. Durable!Begin(q) \/ status' = status
      BY <1>0, <2>1, <2>3 DEF Begins, MovesTo, Active, Durable!Begin
    <3> QED BY <2>1, <3>1 DEF Durable!DurableNext
  <2>4. CASE Completes(q)
    <3>1. done[q] = Steps
      BY <2>4 DEF Completes, CompletedSteps, Done
    <3>2. Durable!Succeed(q)
      BY <2>1, <2>4, <3>1 DEF Completes, MovesTo, Durable!Succeed, Steps, Durable!Steps
    <3> QED BY <3>2 DEF Durable!DurableNext
  <2>5. CASE GivesUp(q)
    <3>1. Durable!GiveUp(q)
      BY <2>1, <2>5 DEF GivesUp, MovesTo, Active, Durable!GiveUp
    <3> QED BY <3>1 DEF Durable!DurableNext
  <2> QED BY <1>2, <2>2, <2>3, <2>4, <2>5
<1>3. ASSUME NEW q \in Runs, NEW u \in Steps, NEW to \in MemoStates, Records(q, u, to)
      PROVE  [Durable!DurableNext]_<<status, done>>
  <2>1. status' = status /\ \A r \in Runs, s \in Steps : ~(r = q /\ s = u) => memo'[r][s] = memo[r][s]
    BY <1>3 DEF Records
  <2>2. \A r \in Runs : r # q => CompletedSteps(r)' = CompletedSteps(r)
    BY <2>1 DEF CompletedSteps
  <2>3. CASE to = "completed"
    <3>1. CompletedSteps(q)' = CompletedSteps(q) \cup {u}
      BY <1>3, <2>1, <2>3 DEF CompletedSteps, Records
    <3>2. done' = [done EXCEPT ![q] = @ \cup {u}]
      BY <2>2, <3>1
    <3>3. Interrupts(u, done[q])
      BY <1>3 DEF Records, Interrupts, CompletedSteps, Done
    <3>4. status[q] \in {"Running", "Failed", "Cancelled"}
      BY <1>0, <1>3 DEF Records, Begun, MemosInOrder, Active, Terminal
    <3>5. Durable!FinishStep(q, u)
      BY <2>1, <3>2, <3>3, <3>4 DEF Durable!FinishStep, Durable!Interrupts, Interrupts, Durable!Steps, Steps
    <3> QED BY <3>5 DEF Durable!DurableNext, Durable!Steps, Steps
  <2>4. CASE to # "completed"
    <3>1. CompletedSteps(q)' = CompletedSteps(q)
      BY <1>3, <2>1, <2>4 DEF CompletedSteps, Records, Done
    <3>2. done' = done
      BY <2>2, <3>1
    <3> QED BY <2>1, <3>2
  <2> QED BY <2>3, <2>4
<1> QED BY <1>1, <1>2, <1>3 DEF Moves

\* As long as nothing disturbs the engine, each of its steps is one that DurableRun
\* promises, or none.
THEOREM StepsAreDurable ==
  Spec => [][Undisturbed => [Durable!DurableNext]_<<status, [r \in Runs |-> CompletedSteps(r)]>>]_vars
<1>1. Shape /\ CarrierInv /\ ProgressInv /\ [Next]_vars =>
        [Undisturbed => [Durable!DurableNext]_<<status, [r \in Runs |-> CompletedSteps(r)]>>]_vars
  BY EveryMove, MovesAreDurable DEF ProgressInv, Progress
<1> QED BY <1>1, ProgressHolds, PTL DEF Spec

\* How often calls have failed, and the process has ended.
Bounded == faults \in 0 .. MaxFaults /\ crashes \in 0 .. MaxCrashes

\* No more calls fail, and the process ends no more often, than the bounds allow.
LEMMA BoundedHolds == Spec => []Bounded
<1>1. Init => Bounded
  BY StoreAssumption, EngineAssumption DEF Init, StoreInit, Bounded
<1>2. Bounded /\ [Next]_vars => Bounded'
  BY StepFaults, StoreAssumption, EngineAssumption DEF Bounded, Errs, Crash
<1> QED BY <1>1, <1>2, PTL DEF Spec

\* If no store call fails, and the process never ends or no step waits for an
\* event, the engine does for each run what DurableRun promises.
THEOREM EngineIsDurable ==
  ASSUME MaxFaults = 0, MaxCrashes = 0 \/ WaitFree
  PROVE  Spec => ImplementsDurableRun
<1>1. Init => Durable!DurableInit
  BY DEF Init, StoreInit, Durable!DurableInit, CompletedSteps
<1>2. Bounded => Undisturbed
  BY DEF Bounded, Undisturbed
<1>3. Shape /\ CarrierInv /\ ProgressInv /\ Bounded /\ [Next]_vars =>
        [Durable!DurableNext]_<<status, [r \in Runs |-> CompletedSteps(r)]>>
  BY <1>2, EveryMove, MovesAreDurable DEF ProgressInv, Progress
<1> QED BY <1>1, <1>3, ProgressHolds, BoundedHolds, PTL DEF Spec, ImplementsDurableRun, Durable!DurableSpec

-----------------------------------------------------------------------------
(* Sleeps, as long as no call fails and the process does not end. *)

\* What SleepersWait says of one run.
SleeperWaits(r, s) ==
  /\ ~RunnerCarries(r)
  /\ \A t \in Steps : ~WaitCarries(r, t)
  /\ \A i \in Items : Carries(i, r) => Sleeps(i, s)

\* The item that carries a sleeping run still holds the until after a worker's call.
LEMMA WorkerKeepsSleepers ==
  ASSUME Shape, NEW i \in Items, WorkerStep(i), Undisturbed', UNCHANGED rn,
         NEW r \in Runs, NEW s \in Steps, SleeperWaits(r, s)
  PROVE  SleeperWaits(r, s)'
<1>0. ~Errs
  BY UndisturbedStep
<1>1. ~RunnerCarries(r)'
  BY DEF SleeperWaits, RunnerCarries
<1>2. pc[i] \notin {"idle", "finish", "enqueue"} => work[i].run # r \/ Parked(i)
  BY WorkerCarries DEF SleeperWaits, Sleeps
<1>3. ASSUME NEW t \in Steps PROVE ~WaitCarries(r, t)'
  <2>1. CASE Park(i)
    <3>1. PICK q \in Runs, u \in Steps : q = work[i].run /\ u = work[i].step
      BY <2>1 DEF Park, Shape, WorkerOK, StepOps
    <3>2. waits' \in {waits, [waits EXCEPT ![q][u] = "waiting"]}
      BY <2>1, <3>1 DEF Park, CreateWait
    <3>3. q # r
      BY <1>2, <2>1, <3>1 DEF Park, Parked
    <3> QED BY <3>2, <3>3 DEF SleeperWaits, WaitCarries, Shape, TypeOK, StoreTypeOK
  <2>2. CASE ~Park(i)
    <3>1. waits' = waits
      BY <2>2 DEF WorkerStep, Dispatch, storeVars, Admit, Reject, Start, StartUnregistered,
         StartThrottled, Claim, Mark, WakeSleeping, Load, Answer, NoAnswer, Recheck, SendEvents, Save,
         Complete, Fail, Announce, Release, Finish, EnqueueNext
    <3> QED BY <3>1 DEF SleeperWaits, WaitCarries
  <2> QED BY <2>1, <2>2
<1>4. ASSUME NEW j \in Items, Carries(j, r)' PROVE Sleeps(j, s)'
  <2>1. ASSUME Carries(j, r), j # i, queue'[j] = queue[j] PROVE Sleeps(j, s)'
    BY <2>1, OthersUntouched DEF SleeperWaits, Sleeps
  <2>2. CASE Plain(i)
    <3>1. Carries(j, r)
      BY <1>4, <2>2, PlainCalls, PlainCarries
    <3>2. pc[i] \notin {"idle", "finish", "enqueue"}
      BY <2>2 DEF Plain, Admit, Reject, Start, StartUnregistered, StartThrottled, Claim, Mark,
         WakeSleeping, Load, Answer, NoAnswer, Recheck, SendEvents, Save, Complete, Fail, Announce,
         Release
    <3>3. j # i /\ ~EnqueueNext(i)
      BY <3>1, <3>2 DEF SleeperWaits, Sleeps, EnqueueNext
    <3> QED BY <2>1, <3>1, <3>3, OthersUntouched
  <2>3. CASE Park(i)
    BY <1>0, <1>4, <2>1, <2>3, ParkCarries, OthersUntouched DEF Park, Goto, EnqueueNext
  <2>4. CASE Finish(i)
    <3>1. Carries(j, r)
      BY <1>0, <1>4, <2>4, FinishCarries DEF Finish
    <3>2. CASE j # i
      BY <2>1, <2>4, <3>1, <3>2, OthersUntouched DEF Finish, EnqueueNext
    <3>3. CASE j = i
      <4>1. work[i].op = "Sleep" /\ work[i].step = s
        BY <2>4, <3>1, <3>3 DEF Finish, SleeperWaits, Sleeps
      <4>2. pc'[i] = "enqueue" /\ work' = work
        BY <2>4, <4>1 DEF Finish, Goto, Advances, Shape, TypeOK, ExecutorTypeOK
      <4> QED BY <3>3, <4>1, <4>2 DEF Sleeps
    <3> QED BY <3>2, <3>3
  <2>5. CASE EnqueueNext(i)
    <3>1. PICK k \in Items :
            /\ Fresh(k, i) /\ Enqueue(k, work[i].run, IF work[i].op = "Sleep" THEN work[i].step ELSE 0)
            /\ pc'[k] = "idle"
            /\ (j = k /\ r = work[i].run) \/ (Carries(j, r) /\ j # i)
      BY <1>4, <2>5, EnqueueNextCarries
    <3>2. CASE j = k /\ r = work[i].run
      <4>1. work[i].op = "Sleep" /\ work[i].step = s
        BY <2>5, <3>2 DEF EnqueueNext, Carries, SleeperWaits, Sleeps
      <4>2. queue'[j].st = "pending" /\ queue'[j].wake = s
        BY <3>1, <3>2, <4>1 DEF Enqueue, Shape, TypeOK, StoreTypeOK
      <4> QED BY <3>1, <3>2, <4>2 DEF Sleeps
    <3>3. CASE Carries(j, r) /\ j # i
      <4>1. j # k
        <5>1. ASSUME j = k PROVE queue[j].run = NoRun /\ pc[j] = "idle"
          BY <3>1, <3>3, <5>1 DEF Fresh, Shape, WorkerOK
        <5> QED BY <3>3, <5>1, StoreAssumption DEF Carries
      <4>2. queue'[j] = queue[j]
        BY <3>1, <4>1 DEF Enqueue, Shape, TypeOK, StoreTypeOK
      <4> QED BY <2>1, <3>3, <4>2
    <3> QED BY <3>1, <3>2, <3>3
  <2> QED BY <2>2, <2>3, <2>4, <2>5 DEF WorkerStep, Dispatch, Plain
<1> QED BY <1>1, <1>3, <1>4 DEF SleeperWaits

\* A worker that makes a run sleep is the only carrier of the run, and knows the until.
LEMMA WorkerKeepsSleepInv ==
  ASSUME Shape, Carriers, Progress, SleepersWait, NeverTooEarly, NEW i \in Items, WorkerStep(i),
         Undisturbed', UNCHANGED rn
  PROVE  SleepersWait' /\ NeverTooEarly'
<1>0. ~Errs
  BY UndisturbedStep
<1>1. ASSUME Answer(i)
      PROVE  \A r \in Runs, s \in Steps : <<r, s>> \in asleep' =>
               <<r, s>> \in asleep \/ (~Done(r, s) /\ Settled(r))
  <2>1. PICK a \in Answers(work[i].seen) :
          asleep' = IF a[1] = "Sleep" THEN asleep \cup {<<work[i].run, a[2]>>} ELSE asleep
    BY <1>1 DEF Answer
  <2>2. CASE a[1] = "Sleep"
    <3>1. Interrupts(a[2], work[i].seen)
      BY <2>2 DEF Answers
    <3>2. work[i].seen = CompletedSteps(work[i].run) /\ Settled(work[i].run)
      BY <1>1 DEF Answer, Progress, WorkerProgress
    <3>3. ASSUME NEW r \in Runs, NEW s \in Steps, <<r, s>> \in asleep', <<r, s>> \notin asleep
          PROVE  r = work[i].run /\ s = a[2]
      BY <2>1, <2>2, <3>3
    <3> QED BY <3>1, <3>2, <3>3 DEF Interrupts, CompletedSteps, Done
  <2>3. CASE a[1] # "Sleep"
    BY <2>1, <2>3
  <2> QED BY <2>2, <2>3
<1>2. ~Answer(i) => asleep' = asleep
  BY DEF WorkerStep, Dispatch, storeVars, Admit, Reject, Start, StartUnregistered, StartThrottled, Claim,
     Mark, WakeSleeping, Load, NoAnswer, Recheck, SendEvents, Save, Park, Complete, Fail, Announce, Release,
     Finish, EnqueueNext
<1>3. pc[i] \in {"wake", "save"} \/ memo' = memo
  BY QuietMoves
<1>4. ~Answer(i) \/ memo' = memo
  BY DEF Answer
<1>5. ASSUME NEW r \in Runs, NEW s \in Steps, memo'[r][s] = "sleeping", <<r, s>> \in asleep'
      PROVE  SleeperWaits(r, s)'
  <2>1. CASE memo[r][s] = "sleeping"
    <3>1. <<r, s>> \in asleep
      BY <1>1, <1>2, <1>5, <2>1 DEF Settled, Open
    <3>2. SleeperWaits(r, s)
      BY <2>1, <3>1 DEF SleepersWait, SleeperWaits
    <3> QED BY <3>2, WorkerKeepsSleepers
  <2>2. CASE memo[r][s] # "sleeping"
    <3>1. Save(i)
      <4>1. ASSUME WakeSleeping(i) PROVE FALSE
        <5>1. PICK q \in Runs : CompleteSleepingSteps(q)
          BY <1>0, <4>1 DEF WakeSleeping, Shape, WorkerOK
        <5> QED BY <1>5, <2>2, <5>1 DEF CompleteSleepingSteps, Shape, TypeOK, StoreTypeOK
      <4> QED BY <1>3, <1>5, <2>2, <4>1, CallAt
    <3>2. PICK q \in Runs, u \in Steps, op \in StepOps : q = work[i].run /\ u = work[i].step /\ op = work[i].op
      BY <3>1 DEF Save, Shape, WorkerOK, StepOps
    <3>3. r = q /\ s = u /\ MemoOf(op) = "sleeping"
      BY <1>0, <1>5, <2>2, <3>1, <3>2, SaveMoves DEF Records
    <3>4. op = "Sleep"
      BY <3>3 DEF MemoOf, StepOps
    <3>5. Sleeps(i, s)'
      BY <3>1, <3>2, <3>3, <3>4 DEF Save, Goto, Sleeps, Shape, TypeOK, ExecutorTypeOK
    <3>6. Carries(i, r)
      BY <3>1, <3>2, <3>3, WorkerCarries DEF Save, Parked
    <3>7. \A j \in Items : Carries(j, r)' => j = i
      BY <3>1, <3>6, PlainCalls, PlainCarries DEF Plain, Carriers, ItemsOfOneRun
    <3>8. ~RunnerCarries(r)' /\ \A t \in Steps : ~WaitCarries(r, t)'
      BY <3>1, <3>6 DEF Save, Carriers, RunnerOrItem, ItemOrWait, RunnerCarries, WaitCarries
    <3> QED BY <3>5, <3>7, <3>8 DEF SleeperWaits
  <2> QED BY <2>1, <2>2
<1>6. ASSUME NEW r \in Runs, NEW s \in Steps, Program[s] = "Sleep", Done(r, s)'
      PROVE  <<r, s>> \notin asleep'
  <2>1. CASE Done(r, s)
    BY <1>1, <1>2, <1>6, <2>1 DEF NeverTooEarly
  <2>2. CASE ~Done(r, s)
    <3>0. memo' # memo /\ ~Answer(i)
      BY <1>4, <1>6, <2>2 DEF Done
    <3>1. CASE WakeSleeping(i)
      <4>1. PICK q \in Runs : q = work[i].run /\ CompleteSleepingSteps(q)
        BY <1>0, <3>1 DEF WakeSleeping, Shape, WorkerOK
      <4>2. r = q /\ memo[r][s] = "sleeping"
        BY <1>6, <2>2, <4>1 DEF CompleteSleepingSteps, Done, Shape, TypeOK, StoreTypeOK
      <4>3. Carries(i, r)
        BY <3>1, <4>1, <4>2, WorkerCarries DEF WakeSleeping, Parked
      <4>4. ~Sleeps(i, s)
        BY <3>1 DEF WakeSleeping, Sleeps
      <4> QED BY <1>2, <3>0, <4>2, <4>3, <4>4 DEF SleepersWait
    <3>2. CASE Save(i)
      <4>1. PICK q \in Runs, u \in Steps, op \in StepOps : q = work[i].run /\ u = work[i].step /\ op = work[i].op
        BY <3>2 DEF Save, Shape, WorkerOK, StepOps
      <4>2. s = u /\ MemoOf(op) = "completed"
        BY <1>0, <1>6, <2>2, <3>2, <4>1, SaveMoves DEF Records, Done
      <4>3. op \in Opcodes(Program[u])
        BY <4>1 DEF Shape, WorkerOK
      <4> QED BY <1>6, <4>2, <4>3, MemoOfKind
    <3> QED BY <1>3, <3>0, <3>1, <3>2, CallAt
  <2> QED BY <2>1, <2>2
<1>7. SleepersWait'
  BY <1>5 DEF SleepersWait, SleeperWaits
<1>8. NeverTooEarly'
  BY <1>6 DEF NeverTooEarly
<1> QED BY <1>7, <1>8

\* A step that starts no sleep and records none, and leaves each sleeper its carrier.
LEMMA SleepFrame ==
  ASSUME SleepersWait, NeverTooEarly, asleep' \subseteq asleep,
         \A r \in Runs, s \in Steps : Done(r, s)' => Done(r, s) \/ Program[s] # "Sleep",
         \A r \in Runs, s \in Steps : memo'[r][s] = "sleeping" => memo[r][s] = "sleeping",
         \A r \in Runs, s \in Steps :
           memo[r][s] = "sleeping" /\ SleeperWaits(r, s) /\ <<r, s>> \in asleep => SleeperWaits(r, s)'
  PROVE  SleepersWait' /\ NeverTooEarly'
<1>1. SleepersWait'
  BY DEF SleepersWait, SleeperWaits
<1>2. NeverTooEarly'
  BY DEF NeverTooEarly
<1> QED BY <1>1, <1>2

\* Without new carriers it is enough that the rows that wait for a sleep stay.
LEMMA SleeperFrame ==
  ASSUME NoNewCarrier, NEW r \in Runs, NEW s \in Steps, SleeperWaits(r, s),
         \A i \in Items : Sleeps(i, s) /\ Carries(i, r)' => Sleeps(i, s)'
  PROVE  SleeperWaits(r, s)'
BY DEF NoNewCarrier, SleeperWaits

\* A row that is not due stays as it is until its run ends.
LEMMA BackgroundKeepsSleepInv ==
  ASSUME Shape, SleepersWait, NeverTooEarly, UNCHANGED rn,
         Background \/ (\E q \in Runs : DashboardCancel(q)) \/ TimePasses \/ UNCHANGED vars
  PROVE  SleepersWait' /\ NeverTooEarly'
<1>1. NoNewCarrier
  <2>1. ASSUME NEW q \in Runs, DashboardCancel(q) PROVE NoNewCarrier
    BY <2>1, EndRunAndPendingCarries DEF DashboardCancel, Terminal, executorVars, NoNewCarrier,
       RunnerCarries, WaitCarries
  <2>2. CASE TimePasses \/ UNCHANGED vars
    BY <2>2 DEF TimePasses, Wake, vars, storeVars, executorVars, NoNewCarrier, Carries, Parked,
       RunnerCarries, WaitCarries
  <2> QED BY <2>1, <2>2, BackgroundCarries
<1>2. memo' = memo /\ asleep' \subseteq asleep
  BY DEF Background, Reconcile, Lease, AnnounceTimeout, TimeoutRun, DashboardCancel, TimePasses, Wake, vars,
     storeVars
<1>3. ASSUME NEW r \in Runs, NEW s \in Steps, <<r, s>> \in asleep, NEW i \in Items, Sleeps(i, s),
             Carries(i, r)', Carries(i, r)
      PROVE  Sleeps(i, s)'
  <2>1. CASE Reconcile
    <3>1. \A j \in Items : queue[j].st = "pending" => queue'[j] = queue[j]
      <4>1. CASE UNCHANGED queue
        BY <4>1
      <4>2. CASE \E expired \in SUBSET {j \in Items : queue[j].st = "leased"} : RequeueExpiredLeases(expired)
        BY <4>2 DEF RequeueExpiredLeases
      <4> QED BY <2>1, <4>1, <4>2 DEF Reconcile
    <3>2. pc' = pc /\ work' = work
      BY <2>1 DEF Reconcile
    <3> QED BY <1>3, <3>1, <3>2 DEF Sleeps
  <2>2. CASE Lease
    <3>1. PICK batch \in SUBSET {j \in Items : Due(j)} :
            /\ LeaseBatch(batch)
            /\ pc' = [j \in Items |-> IF j \in batch THEN "leased" ELSE pc[j]]
            /\ work' = [j \in Items |-> IF j \in batch THEN [NoWork EXCEPT !.run = queue[j].run]
                                                       ELSE work[j]]
      BY <2>2 DEF Lease
    <3>2. ASSUME i \in batch PROVE FALSE
      <4>1. queue[i].st = "pending" /\ <<queue[i].run, queue[i].wake>> \notin asleep
        BY <3>2 DEF Due
      <4>2. pc[i] = "idle"
        BY <1>3, <4>1 DEF Sleeps, Shape, WorkerOK
      <4> QED BY <1>3, <4>1, <4>2 DEF Sleeps, Carries
    <3> QED BY <1>3, <3>1, <3>2 DEF Sleeps, LeaseBatch
  <2>3. ASSUME NEW q \in Runs, TimeoutRun(q) \/ DashboardCancel(q) PROVE Sleeps(i, s)'
    <3>1. pc' = pc /\ work' = work /\ (queue'[i] = queue[i] \/ queue'[i] = NoItem)
      BY <2>3 DEF TimeoutRun, DashboardCancel, executorVars, EndRunAndPending
    <3>2. CASE pc[i] = "idle"
      BY <1>3, <3>1, <3>2, StoreAssumption DEF Sleeps, Carries, NoItem
    <3>3. CASE pc[i] # "idle"
      BY <1>3, <3>1, <3>3 DEF Sleeps
    <3> QED BY <3>2, <3>3
  <2>4. CASE AnnounceTimeout \/ TimePasses \/ UNCHANGED vars
    BY <1>3, <2>4 DEF AnnounceTimeout, TimePasses, Wake, executorVars, vars, storeVars, Sleeps
  <2> QED BY <2>1, <2>2, <2>3, <2>4 DEF Background
<1>4. ASSUME NEW r \in Runs, NEW s \in Steps, SleeperWaits(r, s), <<r, s>> \in asleep
      PROVE  SleeperWaits(r, s)'
  BY <1>1, <1>3, <1>4, SleeperFrame DEF NoNewCarrier
<1> QED BY <1>2, <1>4, SleepFrame DEF Done

\* The runner neither resumes a run that sleeps, nor completes its memo.
LEMMA RunnerKeepsSleepInv ==
  ASSUME Shape, WaitersWait, Progress, SleepersWait, NeverTooEarly, RunnerStep, ~Errs
  PROVE  SleepersWait' /\ NeverTooEarly'
<1> USE DEF executorVars
<1>1. asleep' = asleep
  BY DEF RunnerStep, Trigger, CancelOn, TakeWait, CompleteWaitStep, Resolve, SweepWaits, RunnerEnqueue
<1>2. \A r \in Runs, s \in Steps :
        \/ memo'[r][s] = memo[r][s]
        \/ memo'[r][s] = "completed" /\ memo[r][s] = "waiting" /\ Program[s] = "WaitForEvent"
  <2>1. CASE CompleteWaitStep
    BY <2>1, CompleteWaitMoves DEF Records, CompleteWaitStep, WaitersWait
  <2>2. CASE ~CompleteWaitStep
    BY <2>2, RunnerMoves
  <2> QED BY <2>1, <2>2
<1>3. /\ \A r \in Runs, s \in Steps : Done(r, s)' => Done(r, s) \/ Program[s] # "Sleep"
      /\ \A r \in Runs, s \in Steps : memo'[r][s] = "sleeping" => memo[r][s] = "sleeping"
  BY <1>2 DEF Done
<1>4. ASSUME NEW r \in Runs, NEW s \in Steps, memo[r][s] = "sleeping", SleeperWaits(r, s)
      PROVE  SleeperWaits(r, s)'
  <2>1. \A i \in Items : Carries(i, r)' => Sleeps(i, s)'
    <3>1. CASE RunnerEnqueue
      <4>0. PICK q \in Runs : q = rn.run
        BY <3>1 DEF RunnerEnqueue, Shape, RunnerOK
      <4>1. PICK j \in Items : Enqueue(j, q, 0) /\ queue[j].st = "free"
        BY <3>1, <4>0 DEF RunnerEnqueue
      <4>2. queue'[j].run = q /\ \A k \in Items : k # j => queue'[k] = queue[k]
        BY <4>1 DEF Enqueue, Shape, TypeOK, StoreTypeOK
      <4>3. q # r
        BY <1>4, <3>1, <4>0 DEF RunnerEnqueue, SleeperWaits, RunnerCarries
      <4>4. pc' = pc /\ work' = work
        BY <3>1 DEF RunnerEnqueue
      <4>5. ASSUME NEW i \in Items, Carries(i, r)' PROVE Sleeps(i, s)'
        <5>1. CASE i # j
          BY <1>4, <4>2, <4>4, <4>5, <5>1 DEF SleeperWaits, Sleeps, Carries, Parked
        <5>2. CASE i = j
          BY <1>4, <4>2, <4>3, <4>4, <4>5, <5>2 DEF SleeperWaits, Sleeps, Carries, Parked
        <5> QED BY <5>1, <5>2
      <4> QED BY <4>5
    <3>2. ASSUME NEW q \in Runs, CancelOn(q), UNCHANGED executorVars, NEW i \in Items, Carries(i, r)'
          PROVE  Sleeps(i, s)'
      <4>1. queue'[i] = queue[i] \/ queue'[i] = NoItem
        BY <3>2 DEF CancelOn, EndRunAndPending
      <4>2. Carries(i, r)
        BY <3>2, EndRunAndPendingCarries DEF CancelOn, Terminal
      <4>3. CASE pc[i] = "idle"
        BY <1>4, <3>2, <4>1, <4>2, <4>3, StoreAssumption DEF SleeperWaits, Sleeps, Carries, NoItem
      <4>4. CASE pc[i] # "idle"
        BY <1>4, <3>2, <4>2, <4>4 DEF SleeperWaits, Sleeps
      <4> QED BY <4>3, <4>4
    <3>3. CASE UNCHANGED <<queue, pc, work>>
      BY <1>4, <3>3 DEF SleeperWaits, Sleeps, Carries, Parked
    <3> QED BY <3>1, <3>2, <3>3 DEF RunnerStep, Trigger, TakeWait, CompleteWaitStep, Resolve, SweepWaits
  <2>2. ~RunnerCarries(r)'
    <3>1. ASSUME NEW q \in Runs, Trigger(q) PROVE ~RunnerCarries(r)'
      <4>1. q # r
        BY <1>4, <3>1 DEF Trigger, Progress, MemosInOrder, Open, Begun
      <4> QED BY <3>1, <4>1 DEF Trigger, RunnerCarries
    <3>2. CASE Resolve
      <4>1. rn.run # r
        BY <1>4, <3>2 DEF Resolve, Progress, RunnerProgress, Settled, Open
      <4>2. rn'.run = rn.run
        BY <3>2 DEF Resolve, Shape, TypeOK, RunnerTypeOK
      <4> QED BY <4>1, <4>2 DEF RunnerCarries
    <3>3. CASE CompleteWaitStep
      BY <3>3 DEF CompleteWaitStep, RunnerCarries, Shape, TypeOK, RunnerTypeOK
    <3>4. CASE rn' = Idle \/ rn' = rn \/ rn'.pc \in {"sweep", "memo"}
      BY <1>4, <3>4 DEF Idle, SleeperWaits, RunnerCarries
    <3> QED BY <3>1, <3>2, <3>3, <3>4 DEF RunnerStep, CancelOn, TakeWait, SweepWaits, RunnerEnqueue
  <2>3. ASSUME NEW t \in Steps PROVE ~WaitCarries(r, t)'
    BY <1>4, RunnerWaits DEF SleeperWaits, WaitCarries
  <2> QED BY <2>1, <2>2, <2>3 DEF SleeperWaits
<1> QED BY <1>1, <1>3, <1>4, SleepFrame

\* At the start no run sleeps ...
LEMMA SleepInit == Init => SleepInv
BY DEF Init, StoreInit, SleepInv, SleepersWait, NeverTooEarly, Done

\* A calm state follows a calm state only, by a call that succeeds.
LEMMA CalmStep ==
  ASSUME Shape, [Next]_vars, Calm'
  PROVE  Calm /\ ~Errs /\ ~Crash /\ Undisturbed /\ Undisturbed'
<1>1. Undisturbed'
  BY DEF Calm, Undisturbed
<1>2. ~Errs
  BY <1>1, UndisturbedStep
<1>3. ~Crash
  BY DEF Calm, Crash, Shape, TypeOK
<1> QED BY <1>1, <1>2, <1>3, StepFaults DEF Calm, Undisturbed

\* ... and every step keeps the invariant, as long as the engine is calm.
LEMMA SleepNext ==
  Shape /\ CarrierInv /\ SentInv /\ ProgressInv /\ SleepInv /\ [Next]_vars => SleepInv'
<1> SUFFICES ASSUME Shape, CarrierInv, SentInv, ProgressInv, SleepInv, [Next]_vars, Calm'
             PROVE  SleepersWait' /\ NeverTooEarly'
  BY DEF SleepInv
<1>1. Calm /\ ~Errs /\ ~Crash /\ Undisturbed /\ Undisturbed'
  BY CalmStep
<1>2. Carriers /\ Progress /\ SleepersWait /\ NeverTooEarly
  BY <1>1 DEF CarrierInv, ProgressInv, SleepInv
<1>3. ASSUME NEW i \in Items, WorkerStep(i), UNCHANGED rn PROVE SleepersWait' /\ NeverTooEarly'
  BY <1>1, <1>2, <1>3, WorkerKeepsSleepInv
<1>4. CASE (Background \/ (\E q \in Runs : DashboardCancel(q)) \/ TimePasses \/ UNCHANGED vars) /\ UNCHANGED rn
  BY <1>2, <1>4, BackgroundKeepsSleepInv
<1>5. CASE RunnerStep
  BY <1>1, <1>2, <1>5, RunnerKeepsSleepInv DEF SentInv
<1>6. UNCHANGED vars \/ TimePasses \/ (\E q \in Runs : DashboardCancel(q)) => UNCHANGED rn
  BY DEF vars, TimePasses, DashboardCancel
<1> QED BY <1>1, <1>3, <1>4, <1>5, <1>6 DEF Next, ExecutorStep, Loop, Background, WorkerStep

\* A sleep is not over before its until, as long as no call fails and the
\* process does not end.
THEOREM SleepsLast == Spec => []SleepsInFull
<1>1. SleepInv => SleepsInFull
  BY DEF SleepInv, Calm, NeverTooEarly, SleepsInFull
<1> QED BY <1>1, ProgressHolds, SleepInit, SleepNext, PTL DEF Spec

-----------------------------------------------------------------------------
(* No wake-up is lost, as long as no call fails and the process does not end. *)

\* A worker that comes to its row for the last time has seen the run end, parked
\* it or goes on to the next hop.
Retires(i) ==
  /\ pc'[i] = "finish" => /\ work'[i].op = "WaitForEvent" => Park(i)
                          /\ \/ Advances(work'[i].op) \/ work'[i].op = "WaitForEvent"
                             \/ status'[work[i].run] \in Terminal
  /\ pc'[i] = "announce" => work'[i].op = "none" /\ status'[work[i].run] \in Terminal

\* Every call of a worker is such a one.
LEMMA WorkerRetires ==
  ASSUME Shape, Carriers, Progress, NEW i \in Items, EndsWell(i), WorkerStep(i), ~Errs
  PROVE  Retires(i)
<1> DEFINE q == work[i].run
<1> USE DEF Shape, TypeOK, StoreTypeOK, ExecutorTypeOK, Goto, Retires
<1>1. pc[i] # "idle" => q \in Runs
  BY DEF WorkerOK
<1>2. pc[i] \in {"complete", "fail"} => status[q] \in Active \cup Terminal
  BY <1>1, WorkerCarries DEF Parked, Carriers, Unborn
<1>3. CASE Start(i)
  BY <1>1, <1>3 DEF Start, WorkerOK
<1>4. CASE Mark(i)
  BY <1>1, <1>4 DEF Mark, WorkerOK
<1>5. CASE Recheck(i)
  <2>1. CASE work' = [work EXCEPT ![i].op = "none"] /\ pc'[i] = "finish" /\ status[q] \in Terminal
    BY <1>1, <1>5, <2>1 DEF Recheck
  <2>2. CASE pc'[i] = IF work[i].op = "RunError" THEN RetryOrFail(i) ELSE Handles(work[i].op)
    <3>1. work[i].op \in Ops
      BY <1>5 DEF Recheck, WorkerOK
    <3>2. pc'[i] \notin {"finish", "announce"}
      BY <2>2, <3>1 DEF RetryOrFail, Handles, Ops
    <3> QED BY <3>2
  <2> QED BY <1>5, <2>1, <2>2 DEF Recheck
<1>6. CASE Save(i)
  <2>1. work[i].op \in StepOps /\ work' = work
    BY <1>6 DEF Save, WorkerOK
  <2>2. pc'[i] = "finish" => work[i].op \in {"StepComplete", "Sleep", "SendEvent"}
    BY <1>6, <2>1 DEF Save, RetryOrFail, StepOps
  <2>3. pc'[i] # "announce"
    BY <1>6 DEF Save, RetryOrFail
  <2> QED BY <2>1, <2>2, <2>3 DEF Advances
<1>7. CASE Park(i)
  BY <1>7 DEF Park, WorkerOK
<1>8. CASE Complete(i)
  <2>1. work[i].op = "RunComplete" /\ work' = work /\ pc'[i] = "finish"
    BY <1>8 DEF Complete, Progress, WorkerProgress
  <2>2. status'[q] \in Terminal
    BY <1>1, <1>2, <1>8 DEF Complete, CompleteRun, EndRun, Active, Terminal
  <2> QED BY <2>1, <2>2
<1>9. CASE Fail(i)
  <2>1. work'[i].op = "none" /\ pc'[i] = "announce"
    BY <1>9 DEF Fail
  <2>2. status'[q] \in Terminal
    BY <1>1, <1>2, <1>9 DEF Fail, FailRun, EndRun, Active, Terminal
  <2> QED BY <2>1, <2>2
<1>10. CASE Announce(i)
  BY <1>1, <1>10 DEF Announce, EndsWell
<1>11. CASE pc'[i] \notin {"finish", "announce"}
  BY <1>11
<1> QED BY <1>3, <1>4, <1>5, <1>6, <1>7, <1>8, <1>9, <1>10, <1>11 DEF WorkerStep, Dispatch, Admit, Reject,
         StartUnregistered, StartThrottled, Claim, WakeSleeping, Load, Answer, NoAnswer, SendEvents,
         Release, Finish, EnqueueNext, Return, RetryOrFail

\* So it stays for every worker.
LEMMA WorkersEndWell ==
  ASSUME Shape, Carriers, Progress, \A j \in Items : EndsWell(j), NEW i \in Items, WorkerStep(i), ~Errs
  PROVE  \A j \in Items : EndsWell(j)'
<1>1. \A r \in Runs : status[r] \in Terminal => status'[r] = status[r]
  BY WorkerMoves, MovesKeepOrder DEF Progress
<1>2. ASSUME NEW j \in Items, j # i PROVE EndsWell(j)'
  BY <1>1, <1>2, OthersUntouched DEF EndsWell, Shape, WorkerOK
<1>3. EndsWell(i)'
  <2>1. pc'[i] \in {"finish", "announce"} => work'[i].run = work[i].run
    BY DEF WorkerStep, Dispatch, storeVars, Admit, Reject, Start, StartUnregistered, StartThrottled,
       Claim, Mark, WakeSleeping, Load, Answer, NoAnswer, Recheck, SendEvents, Save, Park, Complete, Fail,
       Announce, Release, Finish, EnqueueNext, Goto, Return, RetryOrFail, Shape, TypeOK, ExecutorTypeOK
  <2> QED BY <2>1, WorkerRetires DEF Retires, EndsWell, Advances
<1> QED BY <1>2, <1>3

\* A worker sets running, or ends, active runs only.
LEMMA WorkerActive ==
  ASSUME Shape, Carriers, NEW i \in Items, WorkerStep(i), NEW r \in Runs, status'[r] \in Active
  PROVE  status[r] \in Active
<1>1. status \in [Runs -> {"None"} \cup Active \cup Terminal]
  BY DEF Shape, TypeOK, StoreTypeOK
<1>2. pc[i] = "mark" => work[i].run \in Runs /\ status[work[i].run] # "None"
  BY WorkerCarries DEF Parked, Carriers, Unborn
<1>3. CASE Mark(i)
  BY <1>1, <1>2, <1>3 DEF Mark, MarkRunRunning
<1>4. CASE Complete(i) \/ Fail(i)
  BY <1>1, <1>4 DEF Complete, Fail, CompleteRun, FailRun, EndRun, Active
<1>5. CASE status' = status
  BY <1>5
<1>6. pc[i] \in {"wake", "save"} => status' = status
  BY CallAt DEF WakeSleeping, Save
<1> QED BY <1>3, <1>4, <1>5, <1>6, CallAt, QuietMoves

\* A worker opens waits only that were not told anything yet.
LEMMA WorkerTold ==
  ASSUME Shape, Carriers, Progress, WaitsTold, NEW i \in Items, WorkerStep(i)
  PROVE  WaitsTold' /\ WaitsKept
<1>1. /\ \A r \in Runs : status[r] \in Terminal => status'[r] = status[r]
      /\ \A r \in Runs, s \in Steps : Done(r, s) => Done(r, s)'
  BY WorkerMoves, MovesKeepOrder DEF Progress
<1>2. \A r \in Runs, s \in Steps : waits'[r][s] = waits[r][s] \/ waits'[r][s] = "waiting"
  <2>1. CASE Park(i)
    <3>1. PICK q \in Runs, u \in Steps : q = work[i].run /\ u = work[i].step
      BY <2>1 DEF Park, Shape, WorkerOK, StepOps
    <3>2. waits' \in {waits, [waits EXCEPT ![q][u] = "waiting"]}
      BY <2>1, <3>1 DEF Park, CreateWait
    <3> QED BY <3>2 DEF Shape, TypeOK, StoreTypeOK
  <2>2. CASE ~Park(i)
    <3>1. waits' = waits
      BY <2>2 DEF WorkerStep, Dispatch, storeVars, Admit, Reject, Start, StartUnregistered,
         StartThrottled, Claim, Mark, WakeSleeping, Load, Answer, NoAnswer, Recheck, SendEvents, Save,
         Complete, Fail, Announce, Release, Finish, EnqueueNext
    <3> QED BY <3>1
  <2> QED BY <2>1, <2>2
<1> QED BY <1>1, <1>2 DEF WaitsTold, WaitsKept

\* A call of a worker leaves an active run a carrier.
LEMMA WorkerCarriesOn ==
  ASSUME Shape, Carriers, Progress, \A j \in Items : EndsWell(j), WaitsTold, NEW i \in Items, WorkerStep(i),
         Undisturbed', UNCHANGED rn, NEW r \in Runs, status'[r] \in Active, HasCarrier(r)
  PROVE  HasCarrier(r)'
<1>0. ~Errs /\ status[r] \in Active
  BY UndisturbedStep, WorkerActive
<1>1. CASE RunnerCarries(r)
  BY <1>1 DEF RunnerCarries, HasCarrier
<1>2. CASE \E s \in Steps : WaitCarries(r, s)
  BY <1>2, WorkerTold DEF WaitsKept, WaitCarries, HasCarrier
<1>3. ASSUME NEW j \in Items, Carries(j, r), j # i PROVE HasCarrier(r)'
  <2>1. pc'[j] = pc[j] /\ work'[j] = work[j]
    BY <1>3, OthersUntouched
  <2>2. queue'[j] = queue[j]
    <3>1. CASE EnqueueNext(i)
      <4>1. PICK k \in Items, wake \in Steps \cup {0} : Fresh(k, i) /\ Enqueue(k, work[i].run, wake)
        <5>1. work[i].step \in Steps \cup {0}
          BY DEF Shape, TypeOK, ExecutorTypeOK
        <5> QED BY <1>0, <3>1, <5>1 DEF EnqueueNext
      <4>2. k # j
        <5>1. k # i /\ k = j => pc[j] = "idle" /\ queue[j].run = NoRun
          BY <4>1 DEF Fresh, Shape, WorkerOK
        <5> QED BY <1>3, <5>1, StoreAssumption DEF Carries
      <4> QED BY <4>1, <4>2 DEF Enqueue, Shape, TypeOK, StoreTypeOK
    <3> QED BY <1>3, <3>1, OthersUntouched
  <2>3. Carries(j, r)'
    BY <1>3, <2>1, <2>2 DEF Carries, Parked
  <2> QED BY <2>3 DEF HasCarrier
<1>4. CASE Carries(i, r)
  <2>1. CASE Plain(i)
    <3>1. queue'[i].run = queue[i].run /\ pc[i] # "enqueue"
      BY <2>1, PlainCalls DEF PlainCall, Plain, Admit, Reject, Start, StartUnregistered, StartThrottled,
         Claim, Mark, WakeSleeping, Load, Answer, NoAnswer, Recheck, SendEvents, Save, Complete, Fail,
         Announce, Release
    <3>2. ~Parked(i)'
      <4>1. ~Park(i)
        BY <2>1 DEF Park, Plain, Admit, Reject, Start, StartUnregistered, StartThrottled,
           Claim, Mark, WakeSleeping, Load, Answer, NoAnswer, Recheck, SendEvents, Save, Complete, Fail,
           Announce, Release
      <4> QED BY <1>0, <4>1, WorkerRetires DEF Retires, Parked
    <3>3. Carries(i, r)'
      BY <1>4, <3>1, <3>2 DEF Carries
    <3> QED BY <3>3 DEF HasCarrier
  <2>2. CASE Finish(i)
    <3>1. queue[i].run = r /\ work[i].run = r /\ work[i].op # "WaitForEvent"
      BY <1>4, <2>2 DEF Finish, Carries, Parked, Shape, WorkerOK
    <3>2. Advances(work[i].op)
      BY <1>0, <2>2, <3>1 DEF Finish, EndsWell, Active, Terminal
    <3>3. pc'[i] = "enqueue" /\ work' = work
      BY <2>2, <3>2 DEF Finish, Goto, Shape, TypeOK, ExecutorTypeOK
    <3>4. Carries(i, r)'
      BY <3>1, <3>3 DEF Carries
    <3> QED BY <3>4 DEF HasCarrier
  <2>3. CASE Park(i)
    <3>1. PICK u \in Steps : work[i].run = r /\ u = work[i].step
      BY <1>4, <2>3 DEF Park, Carries, Shape, WorkerOK, StepOps
    <3>2. CreateWait(r, u) /\ memo[r][u] = "waiting"
      BY <1>0, <2>3, <3>1 DEF Park, Progress, WorkerProgress
    <3>3. waits[r][u] \in {"none", "waiting"}
      <4>1. waits[r][u] \in WaitStates
        BY DEF Shape, TypeOK, StoreTypeOK, WaitStates
      <4>2. waits[r][u] \notin {"resolved", "timeout"}
        BY <3>2 DEF WaitsTold, Done
      <4>3. waits[r][u] # "cancelled"
        BY <1>0 DEF WaitsTold, Active, Terminal
      <4> QED BY <4>1, <4>2, <4>3 DEF WaitStates
    <3>4. WaitCarries(r, u)'
      BY <3>2, <3>3 DEF CreateWait, WaitCarries, Shape, TypeOK, StoreTypeOK
    <3> QED BY <3>4 DEF HasCarrier
  <2>4. CASE EnqueueNext(i)
    <3>1. work[i].run = r
      <4>1. queue[i].run = NoRun
        BY <1>0, <2>4 DEF EnqueueNext, Undisturbed, Succeeds, Shape, WorkerOK
      <4> QED BY <1>4, <4>1, StoreAssumption DEF Carries
    <3>2. PICK k \in Items, wake \in Steps \cup {0} : Enqueue(k, r, wake) /\ pc'[k] = "idle"
      <4>1. work[i].step \in Steps \cup {0}
        BY DEF Shape, TypeOK, ExecutorTypeOK
      <4> QED BY <2>4, <3>1, <4>1, EnqueueNextCarries
    <3>3. queue'[k].run = r
      BY <3>2 DEF Enqueue, Shape, TypeOK, StoreTypeOK
    <3>4. Carries(k, r)'
      BY <3>2, <3>3 DEF Carries, Parked
    <3> QED BY <3>4 DEF HasCarrier
  <2> QED BY <2>1, <2>2, <2>3, <2>4 DEF WorkerStep, Dispatch, Plain
<1> QED BY <1>1, <1>2, <1>3, <1>4 DEF HasCarrier

\* The loop, the timeouts, the dashboard and time leave an active run its carriers.
LEMMA BackgroundCarriesOn ==
  ASSUME Shape, Background \/ (\E q \in Runs : DashboardCancel(q)) \/ TimePasses \/ UNCHANGED vars,
         UNCHANGED rn, NEW r \in Runs, status'[r] \in Active, HasCarrier(r)
  PROVE  HasCarrier(r)'
<1>1. waits' = waits
  BY DEF Background, Reconcile, Lease, AnnounceTimeout, TimeoutRun, DashboardCancel, TimePasses, Wake, vars,
     storeVars
<1>2. ASSUME NEW j \in Items, Carries(j, r) PROVE Carries(j, r)'
  <2>1. CASE Reconcile
    <3>1. queue'[j].run = queue[j].run
      <4>1. CASE UNCHANGED queue
        BY <4>1
      <4>2. CASE \E expired \in SUBSET Items : RequeueExpiredLeases(expired)
        BY <4>2 DEF RequeueExpiredLeases
      <4> QED BY <2>1, <4>1, <4>2 DEF Reconcile
    <3> QED BY <1>2, <2>1, <3>1 DEF Reconcile, Carries, Parked
  <2>2. CASE Lease
    <3>1. PICK batch \in SUBSET {i \in Items : Due(i)} :
            /\ LeaseBatch(batch)
            /\ pc' = [i \in Items |-> IF i \in batch THEN "leased" ELSE pc[i]]
            /\ work' = [i \in Items |-> IF i \in batch THEN [NoWork EXCEPT !.run = queue[i].run]
                                                       ELSE work[i]]
      BY <2>2 DEF Lease
    <3>2. queue'[j].run = queue[j].run
      BY <3>1 DEF LeaseBatch
    <3>3. CASE j \in batch
      <4>1. pc[j] # "enqueue" /\ pc'[j] = "leased"
        BY <3>1, <3>3 DEF Due, Shape, WorkerOK
      <4> QED BY <1>2, <3>2, <4>1 DEF Carries, Parked
    <3>4. CASE j \notin batch
      BY <1>2, <3>1, <3>2, <3>4 DEF Carries, Parked
    <3> QED BY <3>3, <3>4
  <2>3. ASSUME NEW q \in Runs, TimeoutRun(q) \/ DashboardCancel(q) PROVE Carries(j, r)'
    <3>1. PICK to \in {"Failed", "Cancelled"} : EndRunAndPending(q, to) /\ pc' = pc /\ work' = work
      BY <2>3 DEF TimeoutRun, DashboardCancel, executorVars
    <3>2. q # r
      BY <3>1 DEF EndRunAndPending, Active, Shape, TypeOK, StoreTypeOK
    <3>3. queue[j].run = r => queue'[j] = queue[j]
      BY <3>1, <3>2 DEF EndRunAndPending
    <3> QED BY <1>2, <3>1, <3>3 DEF Carries, Parked
  <2>4. CASE AnnounceTimeout \/ TimePasses \/ UNCHANGED vars
    BY <1>2, <2>4 DEF AnnounceTimeout, TimePasses, Wake, executorVars, vars, storeVars, Carries, Parked
  <2> QED BY <2>1, <2>2, <2>3, <2>4 DEF Background
<1> QED BY <1>1, <1>2 DEF HasCarrier, RunnerCarries, WaitCarries

\* The runner passes the wake-up of a run on: from the wait to itself, from itself to a row.
LEMMA RunnerCarriesOn ==
  ASSUME Shape, Progress, SweepEnded, RunnerStep, ~Errs, NEW r \in Runs, status'[r] \in Active,
         HasCarrier(r) \/ Trigger(r)
  PROVE  HasCarrier(r)'
<1> USE DEF executorVars
<1>1. CASE Trigger(r)
  BY <1>1 DEF Trigger, HasCarrier, RunnerCarries
<1>2. ASSUME NEW q \in Runs, Trigger(q), q # r, HasCarrier(r), UNCHANGED executorVars PROVE HasCarrier(r)'
  <2>1. ~RunnerCarries(r)
    BY <1>2 DEF Trigger, RunnerCarries
  <2> QED BY <1>2, <2>1 DEF Trigger, HasCarrier, Carries, Parked, WaitCarries
<1>3. ASSUME NEW q \in Runs, CancelOn(q), HasCarrier(r), UNCHANGED executorVars PROVE HasCarrier(r)'
  <2>1. ~RunnerCarries(r) /\ UNCHANGED <<waits, pc, work>> /\ EndRunAndPending(q, "Cancelled")
    BY <1>3 DEF CancelOn, RunnerCarries
  <2>2. q # r
    BY <2>1 DEF EndRunAndPending, Active, Shape, TypeOK, StoreTypeOK
  <2>3. \A j \in Items : queue[j].run = r => queue'[j] = queue[j]
    BY <2>1, <2>2 DEF EndRunAndPending
  <2>4. \A j \in Items : Carries(j, r) => Carries(j, r)'
    BY <2>1, <2>3 DEF Carries, Parked
  <2> QED BY <1>3, <2>1, <2>4 DEF HasCarrier, WaitCarries
<1>4. ASSUME NEW q \in Runs, NEW u \in Steps, TakeWait(q, u), HasCarrier(r), UNCHANGED executorVars
      PROVE  HasCarrier(r)'
  <2>1. ~RunnerCarries(r) /\ UNCHANGED <<status, queue, pc, work>>
    BY <1>4 DEF TakeWait, RunnerCarries
  <2>2. ASSUME NEW s \in Steps, WaitCarries(r, s) PROVE WaitCarries(r, s)'
    <3>1. CASE UNCHANGED waits
      BY <2>2, <3>1 DEF WaitCarries
    <3>2. CASE status[q] \in Terminal /\ SetWaitStatus(q, u, "cancelled")
      <4>1. q # r
        BY <2>1, <3>2 DEF Active, Terminal
      <4> QED BY <2>2, <3>2, <4>1 DEF SetWaitStatus, WaitCarries, Shape, TypeOK, StoreTypeOK
    <3> QED BY <1>4, <3>1, <3>2 DEF TakeWait
  <2> QED BY <1>4, <2>1, <2>2 DEF HasCarrier, Carries, Parked
<1>5. CASE CompleteWaitStep /\ HasCarrier(r) /\ UNCHANGED executorVars
  BY <1>5 DEF CompleteWaitStep, HasCarrier, RunnerCarries, Carries, Parked, WaitCarries
<1>6. CASE Resolve /\ HasCarrier(r) /\ UNCHANGED executorVars
  <2>0. PICK q \in Runs, u \in Steps : q = rn.run /\ u = rn.step
    BY <1>6 DEF Resolve, Shape, RunnerOK
  <2>1. waits' = [waits EXCEPT ![q][u] = rn.to] /\ rn' = [rn EXCEPT !.pc = "resume"] /\ rn.pc = "resolve"
    BY <1>6, <2>0 DEF Resolve, SetWaitStatus
  <2>2. rn'.pc = "resume" /\ rn'.run = q
    BY <2>0, <2>1 DEF Shape, TypeOK, RunnerTypeOK
  <2>3. CASE q = r
    BY <2>2, <2>3 DEF HasCarrier, RunnerCarries
  <2>4. CASE q # r
    <3>1. \A s \in Steps : waits'[r][s] = waits[r][s]
      BY <2>1, <2>4 DEF Shape, TypeOK, StoreTypeOK
    <3> QED BY <1>6, <2>1, <3>1 DEF Resolve, HasCarrier, RunnerCarries, Carries, Parked, WaitCarries
  <2> QED BY <2>3, <2>4
<1>7. CASE SweepWaits /\ HasCarrier(r) /\ UNCHANGED executorVars
  <2>1. rn.run # r /\ rn.run \in Runs /\ rn.pc = "sweep"
    BY <1>7 DEF SweepWaits, SweepEnded, Active, Terminal, Shape, RunnerOK
  <2>2. \A s \in Steps : waits'[r][s] = waits[r][s]
    BY <1>7, <2>1 DEF SweepWaits, CancelWaitsForRun, Shape, TypeOK, StoreTypeOK
  <2> QED BY <1>7, <2>1, <2>2 DEF SweepWaits, HasCarrier, RunnerCarries, Carries, Parked, WaitCarries
<1>8. CASE RunnerEnqueue /\ HasCarrier(r)
  <2>0. PICK q \in Runs : q = rn.run
    BY <1>8 DEF RunnerEnqueue, Shape, RunnerOK
  <2>1. PICK j \in Items : Enqueue(j, q, 0) /\ queue[j].st = "free" /\ pc[j] = "idle"
    BY <1>8, <2>0 DEF RunnerEnqueue
  <2>2. queue'[j].run = q /\ \A k \in Items : k # j => queue'[k] = queue[k]
    BY <2>1 DEF Enqueue, Shape, TypeOK, StoreTypeOK
  <2>3. UNCHANGED <<pc, work, waits>>
    BY <1>8 DEF RunnerEnqueue
  <2>4. CASE q = r
    <3>1. Carries(j, r)'
      BY <2>1, <2>2, <2>3, <2>4 DEF Carries, Parked
    <3> QED BY <3>1 DEF HasCarrier
  <2>5. CASE q # r
    <3>1. ~Carries(j, r)
      BY <2>1, StoreAssumption DEF Carries, Shape, WorkerOK
    <3>2. \A k \in Items : Carries(k, r) => Carries(k, r)'
      BY <2>2, <2>3, <3>1 DEF Carries, Parked
    <3> QED BY <1>8, <2>0, <2>3, <2>5, <3>2 DEF HasCarrier, RunnerCarries, WaitCarries
  <2> QED BY <2>4, <2>5
<1> QED BY <1>1, <1>2, <1>3, <1>4, <1>5, <1>6, <1>7, <1>8 DEF RunnerStep, RunnerEnqueue, Trigger

\* The runner tells a wait only of a step that is done, or of a run that has ended.
LEMMA RunnerTold ==
  ASSUME Shape, Progress, WaitsTold, SweepEnded, RunnerStep, ~Errs
  PROVE  WaitsTold' /\ SweepEnded'
<1>1. /\ \A r \in Runs : status[r] \in Terminal => status'[r] = status[r]
      /\ \A r \in Runs, s \in Steps : Done(r, s) => Done(r, s)'
  BY RunnerMoves, MovesKeepOrder DEF Progress
<1>2. ASSUME NEW r \in Runs, NEW s \in Steps
      PROVE  \/ waits'[r][s] = waits[r][s]
             \/ waits'[r][s] = "cancelled" /\ status[r] \in Terminal
             \/ waits'[r][s] \in {"resolved", "timeout"} /\ Done(r, s)
  <2>1. ASSUME NEW q \in Runs, NEW u \in Steps, TakeWait(q, u)
        PROVE  waits'[r][s] = waits[r][s] \/ (waits'[r][s] = "cancelled" /\ status[r] \in Terminal)
    <3>1. CASE UNCHANGED waits
      BY <3>1
    <3>2. CASE status[q] \in Terminal /\ SetWaitStatus(q, u, "cancelled")
      <4>1. waits' = [waits EXCEPT ![q][u] = "cancelled"]
        BY <3>2 DEF SetWaitStatus
      <4> QED BY <3>2, <4>1 DEF Shape, TypeOK, StoreTypeOK
    <3> QED BY <2>1, <3>1, <3>2 DEF TakeWait
  <2>2. CASE Resolve
    <3>1. PICK q \in Runs, u \in Steps, to \in {"resolved", "timeout"} :
            q = rn.run /\ u = rn.step /\ to = rn.to
      BY <2>2 DEF Resolve, Shape, RunnerOK, TypeOK, RunnerTypeOK
    <3>2. waits' = [waits EXCEPT ![q][u] = to] /\ Done(q, u)
      BY <2>2, <3>1 DEF Resolve, SetWaitStatus, Progress, RunnerProgress
    <3> QED BY <3>2 DEF Shape, TypeOK, StoreTypeOK
  <2>3. CASE SweepWaits
    <3>1. PICK q \in Runs : q = rn.run /\ status[q] \in Terminal
      BY <2>3 DEF SweepWaits, Shape, RunnerOK, SweepEnded
    <3>2. waits' = [waits EXCEPT ![q] =
                      [t \in Steps |-> IF waits[q][t] = "waiting" THEN "cancelled" ELSE waits[q][t]]]
      BY <2>3, <3>1 DEF SweepWaits, CancelWaitsForRun
    <3> QED BY <3>1, <3>2 DEF Shape, TypeOK, StoreTypeOK
  <2>4. CASE UNCHANGED waits
    BY <2>4
  <2> QED BY <2>1, <2>2, <2>3, <2>4 DEF RunnerStep, Trigger, CancelOn, CompleteWaitStep, RunnerEnqueue
<1>3. WaitsTold'
  BY <1>1, <1>2 DEF WaitsTold
<1>4. SweepEnded'
  <2>1. ASSUME NEW q \in Runs, CancelOn(q) PROVE SweepEnded'
    BY <2>1 DEF CancelOn, EndRunAndPending, SweepEnded, Terminal, Shape, TypeOK, StoreTypeOK
  <2>2. CASE rn'.pc # "sweep"
    BY <2>2 DEF SweepEnded
  <2>3. CASE rn' = rn
    BY <1>1, <2>3 DEF SweepEnded, Shape, RunnerOK
  <2> QED BY <2>1, <2>2, <2>3 DEF RunnerStep, Trigger, TakeWait, CompleteWaitStep, Resolve, SweepWaits,
           RunnerEnqueue, Idle, Shape, TypeOK, RunnerTypeOK
<1> QED BY <1>3, <1>4

-----------------------------------------------------------------------------
\* At the start there is no active run.
LEMMA CarriedInit == Init => CarriedInv
BY DEF Init, StoreInit, ExecutorInit, RunnerInit, Idle, CarriedInv, EndsWell, WaitsTold, SweepEnded,
   ActiveCarried, Active

\* Every step of a calm engine keeps every active run carried on.
LEMMA CarriedNext ==
  Shape /\ CarrierInv /\ ProgressInv /\ CarriedInv /\ [Next]_vars => CarriedInv'
<1> SUFFICES ASSUME Shape, CarrierInv, ProgressInv, CarriedInv, [Next]_vars, Calm'
             PROVE  /\ \A i \in Items : EndsWell(i)'
                    /\ WaitsTold' /\ SweepEnded' /\ ActiveCarried'
  BY DEF CarriedInv
<1>1. Calm /\ ~Errs /\ ~Crash /\ Undisturbed /\ Undisturbed'
  BY CalmStep
<1>2. /\ Carriers /\ Progress
      /\ \A i \in Items : EndsWell(i)
      /\ WaitsTold /\ SweepEnded /\ ActiveCarried
  BY <1>1 DEF CarrierInv, ProgressInv, CarriedInv
<1>3. Moves
  BY <1>1, EveryMove
<1>4. /\ \A r \in Runs : status[r] \in Terminal => status'[r] = status[r]
      /\ \A r \in Runs, s \in Steps : Done(r, s) => Done(r, s)'
  BY <1>2, <1>3, MovesKeepOrder DEF Progress
<1>5. ASSUME NEW i \in Items, WorkerStep(i), UNCHANGED rn
      PROVE  /\ \A j \in Items : EndsWell(j)'
             /\ WaitsTold' /\ SweepEnded' /\ ActiveCarried'
  <2>1. SweepEnded'
    BY <1>2, <1>4, <1>5 DEF SweepEnded, Shape, RunnerOK
  <2>2. ActiveCarried'
    BY <1>1, <1>2, <1>5, WorkerActive, WorkerCarriesOn DEF ActiveCarried
  <2> QED BY <1>1, <1>2, <1>5, <2>1, <2>2, WorkersEndWell, WorkerTold
<1>6. CASE (Background \/ (\E q \in Runs : DashboardCancel(q)) \/ TimePasses \/ UNCHANGED vars) /\ UNCHANGED rn
  <2>1. waits' = waits
    BY <1>6 DEF Background, Reconcile, Lease, AnnounceTimeout, TimeoutRun, DashboardCancel, TimePasses, Wake,
       vars, storeVars
  <2>2. \A j \in Items : (pc'[j] = pc[j] /\ work'[j] = work[j]) \/ pc'[j] = "leased"
    BY <1>6 DEF Background, Reconcile, Lease, AnnounceTimeout, TimeoutRun, DashboardCancel, TimePasses,
       executorVars, vars
  <2>3. \A j \in Items : EndsWell(j)'
    BY <1>2, <1>4, <2>2 DEF EndsWell, Shape, WorkerOK
  <2>4. WaitsTold' /\ SweepEnded'
    BY <1>2, <1>4, <1>6, <2>1 DEF WaitsTold, SweepEnded, Shape, RunnerOK
  <2>5. \A r \in Runs : status'[r] \in Active => status[r] \in Active
    BY <1>6 DEF Background, Reconcile, Lease, AnnounceTimeout, TimeoutRun, DashboardCancel, TimePasses, Wake,
       vars, storeVars, EndRunAndPending, Active, Shape, TypeOK, StoreTypeOK
  <2>6. ActiveCarried'
    BY <1>2, <1>6, <2>5, BackgroundCarriesOn DEF ActiveCarried
  <2> QED BY <2>3, <2>4, <2>6
<1>7. CASE RunnerStep
  <2>1. UNCHANGED <<pc, work>>
    BY <1>7 DEF RunnerStep, RunnerEnqueue, executorVars
  <2>2. \A j \in Items : EndsWell(j)'
    BY <1>2, <1>4, <2>1 DEF EndsWell, Shape, WorkerOK
  <2>3. \A r \in Runs : status'[r] \in Active => status[r] \in Active \/ Trigger(r)
    <3>1. ASSUME NEW q \in Runs, CancelOn(q) \/ Trigger(q), NEW r \in Runs, status'[r] \in Active
          PROVE  status[r] \in Active \/ Trigger(r)
      BY <3>1 DEF CancelOn, EndRunAndPending, Trigger, CreateRun, Active, Shape, TypeOK, StoreTypeOK
    <3>2. CASE status' = status
      BY <3>2
    <3> QED BY <1>7, <3>1, <3>2 DEF RunnerStep, TakeWait, CompleteWaitStep, Resolve, SweepWaits, RunnerEnqueue
  <2>4. ActiveCarried'
    BY <1>1, <1>2, <1>7, <2>3, RunnerCarriesOn DEF ActiveCarried
  <2> QED BY <1>1, <1>2, <1>7, <2>2, <2>4, RunnerTold
<1>8. UNCHANGED vars \/ TimePasses \/ (\E q \in Runs : DashboardCancel(q)) => UNCHANGED rn
  BY DEF vars, TimePasses, DashboardCancel
<1> QED BY <1>1, <1>5, <1>6, <1>7, <1>8 DEF Next, ExecutorStep, Loop, Background, WorkerStep

\* As long as no call fails and the process does not end, an active run always
\* has something that carries it on: no wake-up is lost.
THEOREM NoWakeUpLost == Spec => []NoRunLost
<1>1. CarriedInv => NoRunLost
  BY DEF CarriedInv, Calm, ActiveCarried, NoRunLost
<1> QED BY <1>1, ProgressHolds, CarriedInit, CarriedNext, PTL DEF Spec

-----------------------------------------------------------------------------
(* The attempts of a run, as long as no call fails and the process does not end. *)

\* What is done or open stays done or open.
Lasting == \A r \in Runs, s \in Steps : Done(r, s) \/ Open(r, s) => Done(r, s)' \/ Open(r, s)'

\* Only a step that is neither done nor open is stored as failed.
LEMMA WorkerLasting ==
  ASSUME Shape, Carriers, Progress, NEW i \in Items, WorkerStep(i), ~Errs
  PROVE  Lasting
<1>1. CASE WakeSleeping(i)
  <2>1. PICK q \in Runs : CompleteSleepingSteps(q)
    BY <1>1 DEF WakeSleeping, Shape, WorkerOK
  <2> QED BY <2>1 DEF CompleteSleepingSteps, Lasting, Done, Open, Shape, TypeOK, StoreTypeOK
<1>2. CASE Save(i)
  <2>1. work[i].run \in Runs /\ Settled(work[i].run) /\ Records(work[i].run, work[i].step, MemoOf(work[i].op))
    BY <1>2, SaveMoves DEF Save, Progress, WorkerProgress, Shape, WorkerOK
  <2> QED BY <2>1 DEF Records, Settled, Lasting, Done, Open
<1>3. CASE memo' = memo
  BY <1>3 DEF Lasting, Done, Open
<1> QED BY <1>1, <1>2, <1>3, QuietMoves, CallAt

\* The runner completes a step that waits; the others write no memo.
LEMMA OtherLasting ==
  ASSUME Shape, RunnerStep \/ Background \/ (\E q \in Runs : DashboardCancel(q)) \/ TimePasses \/ UNCHANGED vars
  PROVE  Lasting
<1>1. CASE CompleteWaitStep
  <2>1. PICK q \in Runs, u \in Steps : q = rn.run /\ u = rn.step
    BY <1>1 DEF CompleteWaitStep, Shape, RunnerOK
  <2>2. memo' = memo \/ memo' = [memo EXCEPT ![q][u] = "completed"]
    BY <1>1, <2>1 DEF CompleteWaitStep, SaveStepResult
  <2>3. ASSUME memo' = [memo EXCEPT ![q][u] = "completed"], NEW r \in Runs, NEW s \in Steps
        PROVE  memo'[r][s] \in {memo[r][s], "completed"}
    BY <2>3 DEF Shape, TypeOK, StoreTypeOK
  <2> QED BY <2>2, <2>3 DEF Lasting, Done, Open
<1>2. CASE memo' = memo
  BY <1>2 DEF Lasting, Done, Open
<1> QED BY <1>1, <1>2, BackgroundMoves DEF RunnerStep, Trigger, CancelOn, TakeWait, Resolve, SweepWaits,
         RunnerEnqueue

\* So the attempts a run may use are not taken back.
LEMMA WithinLasts ==
  ASSUME Lasting, NEW r \in Runs, NEW a, Within(r, a)
  PROVE  \E n \in 0 .. Len(Program) : a <= MaxAttempts + n /\ Reached(r, n)'
BY DEF Lasting, Within, Reached

\* A step that counts no attempt, and brings only runs with an attempt to spare
\* nearer to their next dispatch.
LEMMA AttemptsFrame ==
  ASSUME Shape, Attempts, Lasting, attempt' = attempt,
         \A r \in Runs : status'[r] = "None" => status[r] = "None",
         \A j \in Items : Counted(j)',
         \A r \in Runs, j \in Items : Carries(j, r)' /\ Redispatched(j)' => Spare(r) \/ Spare(r)',
         \A r \in Runs : RunnerCarries(r)' => Spare(r),
         \A r \in Runs, s \in Steps : WaitCarries(r, s)' => Spare(r)
  PROVE  Attempts'
<1>1. \A r \in Runs : Within(r, attempt[r]) => Within(r, attempt[r])'
  BY WithinLasts DEF Within
<1>2. \A r \in Runs : Spare(r) => Spare(r)'
  BY WithinLasts DEF Within, Spare
<1> QED BY <1>1, <1>2 DEF Attempts

\* A run below its attempts has one to spare.
LEMMA BelowIsSpare ==
  ASSUME Shape, NEW r \in Runs, attempt[r] < MaxAttempts
  PROVE  Spare(r)
<1>1. attempt[r] \in Nat /\ MaxAttempts \in Nat /\ Len(Program) \in Nat
  BY ExecutorAssumption, ProgramAssumption DEF Shape, TypeOK, StoreTypeOK
<1>2. attempt[r] + 1 <= MaxAttempts + 0 /\ 0 \in 0 .. Len(Program)
  BY <1>1
<1>3. Reached(r, 0)
  BY DEF Reached, Steps
<1> QED BY <1>2, <1>3 DEF Spare, Within

\* A step that succeeds earns the run another attempt.
LEMMA SuccessIsSpare ==
  ASSUME Shape, Carriers, Progress, Attempts, NEW i \in Items, Save(i), ~Errs, work[i].op # "StepError",
         NEW q \in Runs, q = work[i].run
  PROVE  Spare(q)'
<1>1. PICK u \in Steps, op \in StepOps : u = work[i].step /\ op = work[i].op
  BY DEF Save, Shape, WorkerOK, StepOps
<1>2. Settled(q) /\ Interrupts(u, CompletedSteps(q)) /\ Records(q, u, MemoOf(op))
  BY <1>1, SaveMoves DEF Save, Progress, WorkerProgress
<1>3. PICK n \in 0 .. Len(Program) : attempt[q] <= MaxAttempts + n /\ Reached(q, n)
  BY DEF Attempts, Within
<1>4. /\ attempt[q] \in Nat /\ MaxAttempts \in Nat /\ Len(Program) \in Nat
      /\ u \in 1 .. Len(Program) /\ attempt' = attempt
  BY ExecutorAssumption, ProgramAssumption DEF Shape, TypeOK, StoreTypeOK, Steps, Save
<1>5. n < u
  <2>1. ~Done(q, u) /\ ~Open(q, u)
    BY <1>2 DEF Interrupts, CompletedSteps, Done, Settled
  <2> QED BY <1>3, <1>4, <2>1 DEF Reached
<1>6. Reached(q, n + 1)'
  <2>1. MemoOf(op) \in {"completed", "sleeping", "waiting"}
    BY <1>1 DEF MemoOf, StepOps
  <2>2. Done(q, u)' \/ Open(q, u)'
    BY <1>2, <2>1 DEF Records, Done, Open
  <2>3. \A t \in Steps : t < u => Done(q, t)'
    BY <1>2 DEF Records, Done
  <2>4. \A s \in Steps : s <= n + 1 => s = u \/ s < u
    BY <1>4, <1>5 DEF Steps
  <2> QED BY <2>2, <2>3, <2>4 DEF Reached
<1>7. n + 1 \in 0 .. Len(Program) /\ attempt'[q] + 1 <= MaxAttempts + (n + 1)
  BY <1>3, <1>4, <1>5
<1>8. Within(q, attempt[q] + 1)'
  BY <1>6, <1>7 DEF Within
<1> QED BY <1>8 DEF Spare

\* A worker hands its run back only with an attempt to spare.
LEMMA WorkerSpares ==
  ASSUME Shape, Carriers, Progress, Attempts, \A j \in Items : EndsWell(j), NEW i \in Items,
         Plain(i), ~Claim(i), ~Errs, NEW r \in Runs, Carries(i, r), Redispatched(i)'
  PROVE  Spare(r) \/ Spare(r)'
<1> USE DEF Goto, Return, Shape, TypeOK, StoreTypeOK, ExecutorTypeOK
<1>1. pc[i] \notin {"idle", "finish", "enqueue"}
  BY DEF Plain, Admit, Reject, Start, StartUnregistered, StartThrottled, Claim, Mark,
     WakeSleeping, Load, Answer, NoAnswer, Recheck, SendEvents, Save, Complete, Fail, Announce, Release
<1>2. work[i].run = r
  BY <1>1 DEF Carries, WorkerOK
<1>3. CASE Redispatched(i)
  BY <1>3 DEF Attempts
<1>4. ASSUME pc[i] \in {"call", "recheck", "save"}, pc'[i] = RetryOrFail(i), pc'[i] = "release"
      PROVE  Spare(r)
  <2>1. work[i].attempt < MaxAttempts /\ work[i].attempt = attempt[r]
    BY <1>2, <1>4, ExecutorAssumption DEF RetryOrFail, Attempts, Counted
  <2> QED BY <2>1, BelowIsSpare
<1>5. CASE Save(i)
  <2>1. CASE work[i].op = "StepError"
    <3>1. pc'[i] = RetryOrFail(i) /\ pc[i] = "save"
      BY <1>5, <2>1 DEF Save
    <3>2. pc'[i] = "release"
      BY <3>1 DEF Redispatched, RetryOrFail
    <3> QED BY <1>4, <3>1, <3>2
  <2>2. CASE work[i].op # "StepError"
    BY <1>2, <1>5, <2>2, SuccessIsSpare
  <2> QED BY <2>1, <2>2
<1>6. CASE NoAnswer(i)
  BY <1>4, <1>6 DEF NoAnswer, Redispatched, RetryOrFail
<1>7. CASE Recheck(i)
  <2>1. CASE pc'[i] = "finish" /\ work' = [work EXCEPT ![i].op = "none"]
    BY <2>1 DEF Redispatched, Advances
  <2>2. CASE work[i].op = "RunError" /\ pc'[i] = RetryOrFail(i)
    BY <1>4, <1>7, <2>2 DEF Recheck, Redispatched, RetryOrFail
  <2>3. CASE work[i].op # "RunError" /\ pc'[i] = Handles(work[i].op)
    <3>1. work[i].op \in Ops \ {"RunError"}
      BY <1>7, <2>3 DEF Recheck, WorkerOK
    <3>2. pc'[i] \in {"save", "send", "complete"}
      BY <2>3, <3>1 DEF Handles, Ops
    <3> QED BY <3>2 DEF Redispatched
  <2> QED BY <1>7, <2>1, <2>2, <2>3 DEF Recheck
<1>8. CASE Mark(i) \/ Complete(i) \/ Fail(i) \/ Announce(i)
  <2>1. pc'[i] \in {"wake", "finish", "announce"}
    BY <1>8 DEF Mark, Complete, Fail, Announce
  <2>2. pc'[i] = "finish" => ~Advances(work'[i].op)
    BY <1>8 DEF Mark, Complete, Fail, Announce, WorkerOK, EndsWell, Advances, Progress, WorkerProgress
  <2> QED BY <2>1, <2>2 DEF Redispatched
<1>9. CASE WakeSleeping(i) \/ Load(i) \/ Answer(i) \/ SendEvents(i)
  BY <1>9 DEF WakeSleeping, Load, Answer, SendEvents, Redispatched
<1>10. CASE Admit(i) \/ Reject(i) \/ Start(i) \/ StartUnregistered(i) \/ StartThrottled(i) \/ Release(i)
  BY <1>3, <1>10 DEF Admit, Reject, Start, StartUnregistered, StartThrottled, Release, Redispatched
<1> QED BY <1>5, <1>6, <1>7, <1>8, <1>9, <1>10 DEF Plain
\* The worker's own count: it changes with the run's, in Claim.
LEMMA CountKept ==
  ASSUME Shape, Attempts, NEW i \in Items, WorkerStep(i), ~Claim(i), ~Errs
  PROVE  attempt' = attempt /\ \A j \in Items : Counted(j)'
<1>1. attempt' = attempt
  BY DEF WorkerStep, Dispatch, storeVars, Admit, Reject, Start, StartUnregistered, StartThrottled, Claim, Mark,
     WakeSleeping, Load, Answer, NoAnswer, Recheck, SendEvents, Save, Park, Complete, Fail, Announce,
     Release, Finish, EnqueueNext
<1>2. ASSUME NEW j \in Items, j # i PROVE Counted(j)'
  BY <1>1, <1>2, OthersUntouched DEF Attempts, Counted
<1>3. Counted(i)'
  <2> USE DEF Goto, Return, Shape, TypeOK, StoreTypeOK, ExecutorTypeOK
  <2>1. CASE pc'[i] \notin {"mark", "wake", "load", "call", "recheck", "send", "save", "wait"}
    BY <2>1 DEF Counted
  <2>2. CASE work'[i].run = work[i].run /\ work'[i].attempt = work[i].attempt
             /\ pc[i] \in {"mark", "wake", "load", "call", "recheck", "send", "save"}
    BY <1>1, <2>2 DEF Attempts, Counted
  <2>3. CASE Answer(i)
    <3>1. PICK a \in Answers(work[i].seen) :
            work' = [work EXCEPT ![i] = [run |-> work[i].run, attempt |-> work[i].attempt,
                                         seen |-> work[i].seen, op |-> a[1], step |-> a[2]]]
      BY <2>3 DEF Answer
    <3> QED BY <2>2, <2>3, <3>1 DEF Answer
  <2>4. CASE Mark(i) \/ WakeSleeping(i) \/ Load(i) \/ Recheck(i) \/ SendEvents(i) \/ Save(i)
    BY <2>2, <2>4 DEF Mark, WakeSleeping, Load, Recheck, SendEvents, Save
  <2>5. CASE NoAnswer(i)
    BY <2>1, <2>5 DEF NoAnswer, RetryOrFail
  <2>6. CASE \/ Admit(i) \/ Reject(i) \/ Start(i) \/ StartUnregistered(i) \/ StartThrottled(i) \/ Park(i)
             \/ Complete(i) \/ Fail(i) \/ Announce(i) \/ Release(i) \/ Finish(i) \/ EnqueueNext(i)
    BY <2>1, <2>6 DEF Admit, Reject, Start, StartUnregistered, StartThrottled, Park, Complete, Fail, Announce,
       Release, Finish, EnqueueNext
  <2> QED BY <2>3, <2>4, <2>5, <2>6 DEF WorkerStep, Dispatch
<1> QED BY <1>1, <1>2, <1>3

\* The next attempt of a run uses the one it had to spare.
LEMMA ClaimKeepsAttempts ==
  ASSUME Shape, Carriers, Attempts, NEW i \in Items, Claim(i), ~Errs, UNCHANGED rn
  PROVE  Attempts'
<1>1. PICK q \in Runs : q = work[i].run
  BY DEF Claim, Shape, WorkerOK
<1>2. /\ attempt' = [attempt EXCEPT ![q] = @ + 1]
      /\ work' = [work EXCEPT ![i].attempt = attempt[q] + 1]
      /\ pc' = [pc EXCEPT ![i] = "mark"]
      /\ UNCHANGED <<status, memo, waits, queue>>
  BY <1>1 DEF Claim, IncrementRunAttempt, Goto
<1>3. attempt'[q] = attempt[q] + 1 /\ \A r \in Runs : r # q => attempt'[r] = attempt[r]
  BY <1>2 DEF Shape, TypeOK, StoreTypeOK
<1>4. Carries(i, q) /\ pc[i] = "claim"
  BY <1>1, WorkerCarries DEF Claim, Parked
<1>5. /\ ~RunnerCarries(q) /\ status[q] # "None"
      /\ \A j \in Items : Carries(j, q) => j = i
      /\ \A s \in Steps : ~WaitCarries(q, s)
  BY <1>4 DEF Carriers, RunnerOrItem, ItemsOfOneRun, ItemOrWait, Unborn
<1>6. \A r \in Runs, a \in Nat : Within(r, a) => Within(r, a)'
  BY <1>2, WithinLasts DEF Within, Lasting, Done, Open
<1>7. \A r \in Runs : attempt[r] \in Nat /\ attempt[r] + 1 \in Nat
  BY DEF Shape, TypeOK, StoreTypeOK
<1>8. \A r \in Runs : r # q /\ Spare(r) => Spare(r)'
  BY <1>3, <1>6, <1>7 DEF Spare
<1>9. ASSUME NEW r \in Runs PROVE Within(r, attempt[r])' /\ (status'[r] = "None" => attempt'[r] = 0)
  <2>1. CASE r = q
    <3>1. Within(q, attempt[q] + 1)
      BY <1>4 DEF Attempts, Redispatched, Spare
    <3>2. Within(q, attempt[q])'
      BY <1>3, <1>6, <1>7, <3>1 DEF Within
    <3> QED BY <1>2, <1>5, <2>1, <3>2
  <2>2. CASE r # q
    <3>1. Within(r, attempt[r])'
      BY <1>3, <1>6, <1>7, <2>2 DEF Attempts, Within
    <3> QED BY <1>2, <1>3, <2>2, <3>1 DEF Attempts
  <2> QED BY <2>1, <2>2
<1>10. ASSUME NEW j \in Items PROVE /\ (pc'[j] = pc[j] /\ work'[j] = work[j]) \/ j = i
                                    /\ work'[i].run = q /\ work'[i].attempt = attempt[q] + 1 /\ pc'[i] = "mark"
  BY <1>1, <1>2 DEF Shape, TypeOK, ExecutorTypeOK
<1>11. ASSUME NEW r \in Runs, NEW j \in Items, Carries(j, r)', Redispatched(j)' PROVE Spare(r)'
  <2>1. j # i /\ Carries(j, r) /\ Redispatched(j)
    BY <1>2, <1>10, <1>11 DEF Carries, Parked, Redispatched
  <2> QED BY <1>5, <1>8, <2>1 DEF Attempts
<1>12. \A r \in Runs : RunnerCarries(r)' => Spare(r)'
  BY <1>5, <1>8 DEF RunnerCarries, Attempts
<1>13. \A r \in Runs, s \in Steps : WaitCarries(r, s)' => Spare(r)'
  BY <1>2, <1>5, <1>8 DEF WaitCarries, Attempts
<1>14. ASSUME NEW j \in Items PROVE Counted(j)'
  <2>1. CASE j = i
    BY <1>3, <1>10, <2>1 DEF Counted
  <2>2. CASE j # i /\ pc[j] \in {"mark", "wake", "load", "call", "recheck", "send", "save", "wait"}
    <3>1. work[j].run \in Runs /\ work[j].run # q
      BY <1>5, <2>2, WorkerCarries DEF Parked
    <3> QED BY <1>3, <1>10, <2>2, <3>1 DEF Attempts, Counted
  <2>3. CASE j # i /\ pc[j] \notin {"mark", "wake", "load", "call", "recheck", "send", "save", "wait"}
    BY <1>10, <2>3 DEF Counted
  <2> QED BY <2>1, <2>2, <2>3
<1> QED BY <1>9, <1>11, <1>12, <1>13, <1>14 DEF Attempts

\* So does every other call of a worker: none makes a run nearer to its next
\* dispatch that has no attempt to spare.
LEMMA WorkerKeepsAttempts ==
  ASSUME Shape, Carriers, Progress, Attempts, \A j \in Items : EndsWell(j), NEW i \in Items, WorkerStep(i),
         Undisturbed', UNCHANGED rn
  PROVE  Attempts'
<1>0. ~Errs
  BY UndisturbedStep
<1>1. CASE Claim(i)
  BY <1>0, <1>1, ClaimKeepsAttempts
<1>2. CASE ~Claim(i)
  <2>1. Lasting /\ attempt' = attempt /\ \A j \in Items : Counted(j)'
    BY <1>0, <1>2, WorkerLasting, CountKept
  <2>2. \A r \in Runs : status'[r] = "None" => status[r] = "None"
    <3>1. CASE Plain(i)
      BY <3>1, PlainStatus
    <3> QED BY <3>1 DEF WorkerStep, Dispatch, Plain, Finish, Park, EnqueueNext
  <2>3. \A r \in Runs : RunnerCarries(r)' => Spare(r)
    BY DEF RunnerCarries, Attempts
  <2>4. ASSUME NEW r \in Runs, NEW s \in Steps, WaitCarries(r, s)' PROVE Spare(r)
    <3>1. CASE Park(i)
      <4>1. PICK q \in Runs, u \in Steps : q = work[i].run /\ u = work[i].step
        BY <3>1 DEF Park, Shape, WorkerOK, StepOps
      <4>2. waits' = waits \/ waits' = [waits EXCEPT ![q][u] = "waiting"]
        BY <3>1, <4>1 DEF Park, CreateWait
      <4>3. WaitCarries(r, s) \/ r = q
        BY <2>4, <4>2 DEF WaitCarries, Shape, TypeOK, StoreTypeOK
      <4>4. Carries(i, q) /\ Redispatched(i)
        BY <3>1, <4>1, WorkerCarries DEF Park, Parked, Redispatched
      <4> QED BY <4>3, <4>4 DEF Attempts
    <3>2. CASE ~Park(i)
      <4>1. waits' = waits
        BY <3>2, PlainStatus DEF WorkerStep, Dispatch, Plain, Finish, EnqueueNext
      <4> QED BY <2>4, <4>1 DEF WaitCarries, Attempts
    <3> QED BY <3>1, <3>2
  <2>5. ASSUME NEW r \in Runs, NEW j \in Items, Carries(j, r), j # i, Redispatched(j)' PROVE Spare(r)
    BY <2>5, OthersUntouched DEF Redispatched, Attempts
  <2>6. ASSUME NEW r \in Runs, NEW j \in Items, Carries(j, r)', Redispatched(j)' PROVE Spare(r) \/ Spare(r)'
    <3>1. CASE Plain(i)
      <4>1. Carries(j, r)
        BY <2>6, <3>1, PlainCalls, PlainCarries
      <4> QED BY <1>0, <1>2, <2>5, <2>6, <3>1, <4>1, WorkerSpares
    <3>2. CASE Park(i)
      BY <1>0, <2>5, <2>6, <3>2, ParkCarries DEF Park, Goto
    <3>3. CASE Finish(i)
      <4>1. Carries(j, r) /\ CompleteQueueItem(i)
        BY <1>0, <2>6, <3>3, FinishCarries DEF Finish
      <4>2. CASE j = i
        <5>1. queue'[i].run = NoRun /\ r # NoRun
          BY <4>1, StoreAssumption DEF CompleteQueueItem, NoItem, Shape, TypeOK, StoreTypeOK
        <5>2. pc'[i] = "enqueue"
          BY <2>6, <4>2, <5>1 DEF Carries
        <5>3. Redispatched(i)
          BY <3>3, <5>2 DEF Finish, Goto, Return, Redispatched, Shape, TypeOK, ExecutorTypeOK
        <5> QED BY <4>1, <4>2, <5>3 DEF Attempts
      <4> QED BY <2>5, <2>6, <4>1, <4>2
    <3>4. CASE EnqueueNext(i)
      <4>1. PICK k \in Items : (j = k /\ r = work[i].run) \/ (Carries(j, r) /\ j # i)
        BY <2>6, <3>4, EnqueueNextCarries
      <4>2. CASE r = work[i].run
        BY <3>4, <4>2 DEF EnqueueNext, Carries, Redispatched, Attempts
      <4> QED BY <2>5, <2>6, <4>1, <4>2
    <3> QED BY <3>1, <3>2, <3>3, <3>4 DEF WorkerStep, Dispatch, Plain
  <2> QED BY <2>1, <2>2, <2>3, <2>4, <2>6, AttemptsFrame
<1> QED BY <1>1, <1>2
\* The loop, the timeouts, the dashboard and time count no attempt.
LEMMA BackgroundKeepsAttempts ==
  ASSUME Shape, Attempts, Background \/ (\E q \in Runs : DashboardCancel(q)) \/ TimePasses \/ UNCHANGED vars,
         UNCHANGED rn
  PROVE  Attempts'
<1>1. Lasting /\ attempt' = attempt
  BY OtherLasting DEF Background, Reconcile, Lease, AnnounceTimeout, TimeoutRun, DashboardCancel, TimePasses,
     Wake, vars, storeVars
<1>2. NoNewCarrier
  BY BackgroundAdds
<1>3. \A j \in Items : (pc'[j] = pc[j] /\ work'[j] = work[j]) \/ (pc'[j] = "leased" /\ pc[j] = "idle")
  <2>1. CASE Lease
    <3>1. PICK batch \in SUBSET {i \in Items : Due(i)} :
            /\ pc' = [i \in Items |-> IF i \in batch THEN "leased" ELSE pc[i]]
            /\ work' = [i \in Items |-> IF i \in batch THEN [NoWork EXCEPT !.run = queue[i].run]
                                                       ELSE work[i]]
      BY <2>1 DEF Lease
    <3>2. \A i \in batch : queue[i].st = "pending"
      BY DEF Due
    <3> QED BY <3>1, <3>2 DEF Shape, WorkerOK
  <2> QED BY <2>1 DEF Background, Reconcile, AnnounceTimeout, TimeoutRun, DashboardCancel, TimePasses,
           executorVars, vars
<1>4. \A j \in Items : Counted(j)'
  BY <1>1, <1>3 DEF Counted, Attempts
<1>5. \A r \in Runs, j \in Items : Carries(j, r)' /\ Redispatched(j)' => Spare(r)
  BY <1>2, <1>3 DEF NoNewCarrier, Redispatched, Attempts
<1> QED BY <1>1, <1>2, <1>4, <1>5, AttemptsFrame DEF NoNewCarrier, Attempts

\* Neither does the runner: a new run has its first attempt to spare, and a
\* resumed one that of its wait.
LEMMA RunnerKeepsAttempts ==
  ASSUME Shape, Progress, Attempts, RunnerStep, ~Errs
  PROVE  Attempts'
<1>1. Lasting /\ attempt' = attempt /\ UNCHANGED <<pc, work>>
  BY OtherLasting DEF RunnerStep, Trigger, CancelOn, TakeWait, CompleteWaitStep, Resolve, SweepWaits,
     RunnerEnqueue, executorVars
<1>2. \A j \in Items : /\ Counted(j)'
                       /\ Redispatched(j)' <=> Redispatched(j)
  BY <1>1 DEF Counted, Redispatched, Attempts
<1>3. \A r \in Runs : status'[r] = "None" => status[r] = "None"
  <2>1. \A r \in Runs : status'[r] = "None" => status[r] = "None"
    <3>1. ASSUME NEW q \in Runs, Trigger(q) \/ CancelOn(q)
          PROVE  \A r \in Runs : status'[r] = "None" => status[r] = "None"
      BY <3>1 DEF Trigger, CreateRun, CancelOn, EndRunAndPending, Shape, TypeOK, StoreTypeOK
    <3>2. CASE status' = status
      BY <3>2
    <3> QED BY <3>1, <3>2 DEF RunnerStep, TakeWait, CompleteWaitStep, Resolve, SweepWaits, RunnerEnqueue
  <2> QED BY <2>1
<1>4. \A r \in Runs, s \in Steps : WaitCarries(r, s)' => Spare(r)
  BY RunnerWaits DEF WaitCarries, Attempts
<1>5. ASSUME NEW r \in Runs, RunnerCarries(r)' PROVE Spare(r)
  <2>1. CASE Trigger(r)
    <3>1. attempt[r] < MaxAttempts
      BY <2>1, ExecutorAssumption DEF Trigger, Attempts
    <3> QED BY <3>1, BelowIsSpare
  <2>2. CASE Resolve
    <3>1. rn'.run = rn.run /\ WaitCarries(rn.run, rn.step) /\ rn.step \in Steps
      BY <2>2 DEF Resolve, WaitCarries, Shape, RunnerOK, TypeOK, RunnerTypeOK
    <3> QED BY <1>5, <3>1 DEF RunnerCarries, Attempts
  <2>3. CASE RunnerCarries(r)
    BY <2>3 DEF Attempts
  <2>4. ASSUME NEW q \in Runs, Trigger(q) PROVE q = r
    BY <1>5, <2>4 DEF Trigger, RunnerCarries
  <2>5. CASE rn' = rn \/ rn'.pc \notin {"start", "resume"}
    BY <1>5, <2>3, <2>5 DEF RunnerCarries
  <2> QED BY <2>1, <2>2, <2>4, <2>5 DEF RunnerStep, CancelOn, TakeWait, CompleteWaitStep, SweepWaits,
           RunnerEnqueue, Idle, Shape, TypeOK, RunnerTypeOK
<1>6. ASSUME NEW r \in Runs, NEW j \in Items, Carries(j, r)', Redispatched(j) PROVE Spare(r)
  <2>1. CASE Carries(j, r)
    BY <1>6, <2>1 DEF Attempts
  <2>2. CASE RunnerEnqueue
    <3>1. PICK q \in Runs : q = rn.run
      BY <2>2 DEF RunnerEnqueue, Shape, RunnerOK
    <3>2. PICK k \in Items : Enqueue(k, q, 0)
      BY <2>2, <3>1 DEF RunnerEnqueue
    <3>3. queue'[k].run = q /\ (j # k => queue'[j] = queue[j])
      BY <3>2 DEF Enqueue, Shape, TypeOK, StoreTypeOK
    <3>4. RunnerCarries(q)
      BY <2>2, <3>1 DEF RunnerEnqueue, RunnerCarries
    <3>5. Carries(j, r) \/ r = q
      BY <1>1, <1>6, <3>3 DEF Carries, Parked
    <3> QED BY <2>1, <3>4, <3>5 DEF Attempts
  <2>3. ASSUME NEW q \in Runs, CancelOn(q) PROVE Carries(j, r)
    BY <1>1, <1>6, <2>3, EndRunAndPendingCarries DEF CancelOn, Terminal
  <2>4. CASE queue' = queue
    BY <1>1, <1>6, <2>1, <2>4 DEF Carries, Parked
  <2> QED BY <2>1, <2>2, <2>3, <2>4 DEF RunnerStep, Trigger, TakeWait, CompleteWaitStep, Resolve, SweepWaits
<1> QED BY <1>1, <1>2, <1>3, <1>4, <1>5, <1>6, AttemptsFrame

-----------------------------------------------------------------------------
\* At the start no attempt is used ...
LEMMA AttemptsInit == Init => AttemptsInv
<1> SUFFICES ASSUME Init PROVE Attempts
  BY DEF AttemptsInv
<1>1. Shape
  BY ShapeInit
<1>2. \A r \in Runs : Within(r, attempt[r])
  <2>1. \A r \in Runs : attempt[r] = 0 /\ Spare(r)
    BY <1>1, BelowIsSpare, ExecutorAssumption DEF Init, StoreInit
  <2> QED BY <2>1, ExecutorAssumption DEF Spare, Within
<1>3. \A r \in Runs : Spare(r)
  BY <1>1, BelowIsSpare, ExecutorAssumption DEF Init, StoreInit
<1> QED BY <1>2, <1>3 DEF Init, StoreInit, ExecutorInit, Attempts, Counted

\* ... and every step of a calm engine keeps the invariant.
LEMMA AttemptsNext ==
  Shape /\ CarrierInv /\ ProgressInv /\ CarriedInv /\ AttemptsInv /\ [Next]_vars => AttemptsInv'
<1> SUFFICES ASSUME Shape, CarrierInv, ProgressInv, CarriedInv, AttemptsInv, [Next]_vars, Calm'
             PROVE  Attempts'
  BY DEF AttemptsInv
<1>1. Calm /\ ~Errs /\ ~Crash /\ Undisturbed /\ Undisturbed'
  BY CalmStep
<1>2. Carriers /\ Progress /\ Attempts /\ \A i \in Items : EndsWell(i)
  BY <1>1 DEF CarrierInv, ProgressInv, CarriedInv, AttemptsInv
<1>3. ASSUME NEW i \in Items, WorkerStep(i), UNCHANGED rn PROVE Attempts'
  BY <1>1, <1>2, <1>3, WorkerKeepsAttempts
<1>4. CASE (Background \/ (\E q \in Runs : DashboardCancel(q)) \/ TimePasses \/ UNCHANGED vars) /\ UNCHANGED rn
  BY <1>2, <1>4, BackgroundKeepsAttempts
<1>5. CASE RunnerStep
  BY <1>1, <1>2, <1>5, RunnerKeepsAttempts
<1>6. UNCHANGED vars \/ TimePasses \/ (\E q \in Runs : DashboardCancel(q)) => UNCHANGED rn
  BY DEF vars, TimePasses, DashboardCancel
<1> QED BY <1>1, <1>3, <1>4, <1>5, <1>6 DEF Next, ExecutorStep, Loop, Background, WorkerStep

\* As long as no call fails and the process does not end, a run with n steps is
\* never dispatched more than MaxAttempts + n times: retries and hops share a
\* counter, and only a hop that succeeds is followed by a dispatch beyond the limit.
THEOREM DispatchesAreBounded == Spec => []AttemptsBounded
<1>1. Shape /\ AttemptsInv => AttemptsBounded
  <2> SUFFICES ASSUME Shape, Attempts, NEW r \in Runs PROVE attempt[r] <= MaxAttempts + Len(Program)
    BY DEF AttemptsInv, Calm, AttemptsBounded
  <2>1. PICK n \in 0 .. Len(Program) : attempt[r] <= MaxAttempts + n
    BY DEF Attempts, Within
  <2>2. attempt[r] \in Nat /\ MaxAttempts \in Nat /\ Len(Program) \in Nat
    BY ExecutorAssumption, ProgramAssumption DEF Shape, TypeOK, StoreTypeOK
  <2> QED BY <2>1, <2>2
<1> QED BY <1>1, ProgressHolds, CarriedInit, CarriedNext, AttemptsInit, AttemptsNext, PTL DEF Spec
=============================================================================
