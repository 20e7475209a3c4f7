------------------------------ MODULE Executor ------------------------------
(***************************************************************************)
(* The execution engine (internal/executor/executor.go).  One goroutine    *)
(* runs the loop: it reconciles leases at startup, leases batches of due   *)
(* queue items, admits them under the concurrency limit and scans for run  *)
(* timeouts.  Every admitted item gets a goroutine of its own, here the    *)
(* worker named by the item, that runs dispatch: one action per store call *)
(* or callback, so that the other goroutines, or the end of the process,   *)
(* can come between any two of them.                                       *)
(***************************************************************************)
EXTENDS Store

CONSTANTS MaxAttempts,    \* fn.Retries, or MaxRetries where it is not set
          Concurrency,    \* callbacks in flight per function
          BatchSize,      \* items leased per poll
          HasTimeout,     \* the function is registered with a run timeout
          HasThrottle,    \* the function is registered with a throttle
          MayUnregister   \* a sync may remove the function from the registry

ASSUME ExecutorAssumption ==
  /\ MaxAttempts \in Nat \ {0} /\ Concurrency \in Nat \ {0} /\ BatchSize \in Nat \ {0}
  /\ HasTimeout \in BOOLEAN /\ HasThrottle \in BOOLEAN /\ MayUnregister \in BOOLEAN

VARIABLES loop,   \* the loop goroutine, and the run it is about to announce
          pc,     \* the next call of each worker
          work    \* the locals of dispatch in each worker

executorVars == <<loop, pc, work>>

PCs == {"idle", "leased", "start", "claim", "mark", "wake", "load", "call", "recheck",
        "save", "send", "wait", "complete", "release", "fail", "announce", "finish", "enqueue"}

\* run: item.RunID; attempt: the value IncrementRunAttempt returned; seen: the
\* memos put in the callback; op, step: the answer, "none" once it is discarded
NoWork == [run |-> NoRun, attempt |-> 0, seen |-> {}, op |-> "none", step |-> 0]

ExecutorTypeOK ==
  /\ loop \in [pc : {"boot", "poll", "announce", "exited"}, run : Runs \cup {NoRun}]
  /\ pc \in [Items -> PCs]
  /\ work \in [Items -> [run : Runs \cup {NoRun}, attempt : Nat, seen : SUBSET Steps,
                         op : Ops \cup {"none"}, step : Steps \cup {0}]]

ExecutorInit ==
  /\ loop = [pc |-> "boot", run |-> NoRun]
  /\ pc = [i \in Items |-> "idle"]
  /\ work = [i \in Items |-> NoWork]

-----------------------------------------------------------------------------
\* The goroutine of item i goes on to its next call, or returns.
Goto(i, next) == pc' = [pc EXCEPT ![i] = next]
Return(i)     == Goto(i, "idle") /\ work' = [work EXCEPT ![i] = NoWork]

\* The branch of retryOrFail: out of attempts, or released for a retry.
RetryOnceMore(i) == IF work[i].attempt > MaxAttempts THEN "fail" ELSE "release"  \* mutant
RetryOrFail(i) == IF work[i].attempt >= MaxAttempts THEN "fail" ELSE "release"

\* A queue item id that no row and no other worker uses.
Fresh(j, i) == queue[j].st = "free" /\ (pc[j] = "idle" \/ j = i)

InFlight == {i \in Items : pc[i] \notin {"idle", "leased"}}

-----------------------------------------------------------------------------
(* The loop goroutine. *)

\* RequeueExpiredLeases, once, when the process starts.  The leases that have
\* run out by then depend on how long ago they were taken.  If the call errs,
\* Run returns, and the process goes on without an executor.
Reconcile ==
  /\ loop.pc = "boot"
  /\ \/ /\ Succeeds
        /\ loop' = [loop EXCEPT !.pc = "poll"]
        /\ \E expired \in SUBSET {i \in Items : queue[i].st = "leased"} :
             RequeueExpiredLeases(expired)
     \/ Errs /\ loop' = [loop EXCEPT !.pc = "exited"] /\ UNCHANGED queue
  /\ UNCHANGED <<status, attempt, memo, waits, asleep, sent, announced, pc, work>>

\* The loop handles a whole batch before the next tick.
Polling == loop.pc = "poll" /\ \A i \in Items : pc[i] # "leased"

Lease ==
  /\ Polling
  /\ \E batch \in SUBSET {i \in Items : Due(i)} :
       /\ batch # {}
       /\ \/ Cardinality(batch) = BatchSize
          \/ Cardinality(batch) < BatchSize /\ \A i \in Items : Due(i) => i \in batch
       /\ LeaseBatch(batch)
       /\ pc' = [i \in Items |-> IF i \in batch THEN "leased" ELSE pc[i]]
       /\ work' = [i \in Items |-> IF i \in batch THEN [NoWork EXCEPT !.run = queue[i].run]
                                                  ELSE work[i]]
  /\ UNCHANGED <<status, attempt, memo, waits, asleep, sent, announced, faults, loop>>

\* An item of the batch gets its goroutine ...
Admit(i) ==
  /\ pc[i] = "leased"
  /\ Cardinality(InFlight) < Concurrency
  /\ Goto(i, "start")
  /\ UNCHANGED <<storeVars, loop, work>>

\* ... or goes back to the queue: the function is at its concurrency limit.
Reject(i) ==
  /\ pc[i] = "leased"
  /\ Cardinality(InFlight) >= Concurrency
  /\ Return(i)
  /\ \/ Succeeds /\ ReleaseLease(i)
     \/ Errs /\ UNCHANGED queue
  /\ UNCHANGED <<status, attempt, memo, waits, asleep, sent, announced, loop>>

\* mutant of TimeoutRun: the run fails without being announced
TimeoutSilently(r) ==
  /\ HasTimeout /\ Polling
  /\ status[r] \in Active
  /\ EndRunAndPending(r, "Failed")
  /\ UNCHANGED <<attempt, memo, waits, asleep, sent, announced, faults, executorVars>>

\* scanRunTimeouts: an active run has outlived the timeout of its function.
TimeoutRun(r) ==
  /\ HasTimeout /\ Polling
  /\ status[r] \in Active
  /\ EndRunAndPending(r, "Failed")
  /\ loop' = [pc |-> "announce", run |-> r]
  /\ UNCHANGED <<attempt, memo, waits, asleep, sent, announced, faults, pc, work>>

AnnounceTimeout ==
  /\ loop.pc = "announce"
  /\ \/ Succeeds /\ announced' = announced \cup {loop.run}
     \/ Errs /\ UNCHANGED announced
  /\ loop' = [pc |-> "poll", run |-> NoRun]
  /\ UNCHANGED <<status, attempt, memo, waits, queue, asleep, sent, pc, work>>

-----------------------------------------------------------------------------
(* dispatch, up to the callback. *)

\* GetRun: a terminal run, or one that cannot be read, only loses its item.
Start(i) ==
  /\ pc[i] = "start"
  /\ \/ /\ Succeeds
        /\ Goto(i, IF status[work[i].run] \in Terminal THEN "finish" ELSE "claim")
     \/ Errs /\ Goto(i, "finish")
  /\ UNCHANGED <<status, attempt, memo, waits, queue, asleep, sent, announced, loop, work>>

\* Lookup does not find the function of an active run.
StartUnregistered(i) ==
  /\ MayUnregister
  /\ pc[i] = "start"
  /\ status[work[i].run] \notin Terminal
  /\ Goto(i, "fail")
  /\ UNCHANGED <<storeVars, loop, work>>

\* The throttle window of a run that has not executed yet is full, or the
\* reservation failed: the item waits for a later window.
StartThrottled(i) ==
  /\ HasThrottle
  /\ pc[i] = "start"
  /\ status[work[i].run] \notin Terminal
  /\ attempt[work[i].run] = 0
  /\ Goto(i, "release")
  /\ UNCHANGED <<storeVars, loop, work>>

\* IncrementRunAttempt: the update, then a read of the new value.
Claim(i) ==
  LET r == work[i].run IN
  /\ pc[i] = "claim"
  /\ \/ /\ Succeeds
        /\ IncrementRunAttempt(r)
        /\ work' = [work EXCEPT ![i].attempt = attempt[r] + 1]
        /\ Goto(i, "mark")
     \/ /\ Errs
        /\ IncrementRunAttempt(r) \/ UNCHANGED attempt
        /\ Goto(i, "release")
        /\ UNCHANGED work
  /\ UNCHANGED <<status, memo, waits, queue, asleep, sent, announced, loop>>

\* mutant of Mark: a run that has ended is set running again
MarkAnyRun(i) ==
  /\ pc[i] = "mark"
  /\ Succeeds /\ MarkRunRunning(work[i].run) /\ Goto(i, "wake")
  /\ UNCHANGED <<attempt, memo, waits, queue, asleep, sent, announced, loop, work>>

\* MarkRunRunning reports whether the run is still active.
Mark(i) ==
  LET r == work[i].run IN
  /\ pc[i] = "mark"
  /\ \/ Succeeds /\ status[r] \notin Terminal /\ MarkRunRunning(r) /\ Goto(i, "wake")
     \/ Succeeds /\ status[r] \in Terminal /\ UNCHANGED status /\ Goto(i, "finish")
     \/ Errs /\ UNCHANGED status /\ Goto(i, "release")
  /\ UNCHANGED <<attempt, memo, waits, queue, asleep, sent, announced, loop, work>>

WakeSleeping(i) ==
  /\ pc[i] = "wake"
  /\ \/ Succeeds /\ CompleteSleepingSteps(work[i].run) /\ Goto(i, "load")
     \/ Errs /\ UNCHANGED memo /\ Goto(i, RetryOrFail(i))
  /\ UNCHANGED <<status, attempt, waits, queue, asleep, sent, announced, loop, work>>

\* StepResults: only completed memos go into the callback.
Load(i) ==
  /\ pc[i] = "load"
  /\ \/ /\ Succeeds
        /\ work' = [work EXCEPT ![i].seen = CompletedSteps(work[i].run)]
        /\ Goto(i, "call")
     \/ Errs /\ UNCHANGED work /\ Goto(i, RetryOrFail(i))
  /\ UNCHANGED <<status, attempt, memo, waits, queue, asleep, sent, announced, loop>>

\* The app answers; the answer to a sleep fixes the time it lasts until.
Answer(i) ==
  LET w == work[i] IN
  /\ pc[i] = "call"
  /\ \E a \in Answers(w.seen) :
       /\ work' = [work EXCEPT ![i] = [run |-> w.run, attempt |-> w.attempt, seen |-> w.seen,
                                       op |-> a[1], step |-> a[2]]]
       /\ asleep' = IF a[1] = "Sleep" THEN asleep \cup {<<w.run, a[2]>>} ELSE asleep
  /\ Goto(i, "recheck")
  /\ UNCHANGED <<status, attempt, memo, waits, queue, sent, announced, faults, loop>>

\* No usable answer: connection error, client timeout, status other than 200,
\* undecodable body.  The state of the run is not looked at again.
NoAnswer(i) ==
  /\ pc[i] = "call"
  /\ Goto(i, RetryOrFail(i))
  /\ UNCHANGED <<storeVars, loop, work>>

-----------------------------------------------------------------------------
(* dispatch, after the callback. *)

\* The first call that handles an answer.
HandlesMemoFirst(op) ==      \* mutant: SendEvent's memo is saved, the events never stored
  IF op = "RunComplete" THEN "complete" ELSE "save"
Handles(op) == CASE op \in {"StepComplete", "StepError", "Sleep", "WaitForEvent"} -> "save"
                 [] op = "SendEvent"   -> "send"
                 [] op = "RunComplete" -> "complete"

\* GetRun once more: the answer for a run that ended in the meantime is
\* dropped.  A failed read counts as not ended.
Recheck(i) ==
  /\ pc[i] = "recheck"
  /\ \/ /\ Succeeds
        /\ status[work[i].run] \in Terminal
        /\ work' = [work EXCEPT ![i].op = "none"]
        /\ Goto(i, "finish")
     \/ /\ \/ Succeeds /\ status[work[i].run] \notin Terminal
           \/ Errs
        /\ UNCHANGED work
        /\ Goto(i, IF work[i].op = "RunError" THEN RetryOrFail(i) ELSE Handles(work[i].op))
  /\ UNCHANGED <<status, attempt, memo, waits, queue, asleep, sent, announced, loop>>

\* handleSendEvent: the events are stored under ids derived from run and step.
SendEvents(i) ==
  /\ pc[i] = "send"
  /\ \/ /\ Succeeds
        /\ sent' = sent \cup {<<work[i].run, work[i].step>>}
        /\ Goto(i, "save")
        /\ UNCHANGED work
     \/ /\ Errs
        /\ UNCHANGED sent
        /\ Goto(i, RetryOrFail(i))
        /\ work' = [work EXCEPT ![i].op = "none"]
  /\ UNCHANGED <<status, attempt, memo, waits, queue, asleep, announced, loop>>

\* The memo an answer leaves.
OpAsMemo(op) == op           \* mutant: the opcode stored as the status
MemoOf(op) == CASE op \in {"StepComplete", "SendEvent"} -> "completed"
                [] op = "StepError"    -> "failed"
                [] op = "Sleep"        -> "sleeping"
                [] op = "WaitForEvent" -> "waiting"

\* SaveStepResult, whose error every caller ignores.
Save(i) ==
  LET op == work[i].op IN
  /\ pc[i] = "save"
  /\ \/ Succeeds /\ SaveStepResult(work[i].run, work[i].step, MemoOf(op))
     \/ Errs /\ UNCHANGED memo
  /\ Goto(i, IF op = "WaitForEvent" THEN "wait"
             ELSE IF op = "StepError" THEN RetryOrFail(i) ELSE "finish")
  /\ UNCHANGED <<status, attempt, waits, queue, asleep, sent, announced, loop, work>>

\* mutant of Park: the item goes back to the queue as after a failed attempt
ParkAndRelease(i) ==
  /\ pc[i] = "wait"
  /\ Succeeds
  /\ CreateWait(work[i].run, work[i].step)
  /\ Goto(i, "release")
  /\ UNCHANGED <<status, attempt, memo, queue, asleep, sent, announced, loop, work>>

\* handleWaitForEvent: the run is parked on the wait, not on the queue.
Park(i) ==
  /\ pc[i] = "wait"
  /\ \/ /\ Succeeds
        /\ CreateWait(work[i].run, work[i].step)
        /\ Goto(i, "finish")
     \/ Errs /\ UNCHANGED waits /\ Goto(i, RetryOrFail(i))
  /\ UNCHANGED <<status, attempt, memo, queue, asleep, sent, announced, loop, work>>

Complete(i) ==
  /\ pc[i] = "complete"
  /\ \/ Succeeds /\ CompleteRun(work[i].run)
     \/ Errs /\ UNCHANGED status
  /\ Goto(i, "finish")
  /\ UNCHANGED <<attempt, memo, waits, queue, asleep, sent, announced, loop, work>>

\* failRun: FailRun reports success too when the run had already ended.
Fail(i) ==
  /\ pc[i] = "fail"
  /\ \/ Succeeds /\ FailRun(work[i].run) /\ Goto(i, "announce")
     \/ Errs /\ UNCHANGED status /\ Goto(i, "finish")
  /\ work' = [work EXCEPT ![i].op = "none"]
  /\ UNCHANGED <<attempt, memo, waits, queue, asleep, sent, announced, loop>>

\* emitRunFailed: the event has the id runfailed_<run>.
Announce(i) ==
  /\ pc[i] = "announce"
  /\ \/ Succeeds /\ announced' = announced \cup {work[i].run}
     \/ Errs /\ UNCHANGED announced
  /\ Goto(i, "finish")
  /\ UNCHANGED <<status, attempt, memo, waits, queue, asleep, sent, loop, work>>

\* retryOrFail with attempts left: back to the queue after the backoff.
Release(i) ==
  /\ pc[i] = "release"
  /\ \/ Succeeds /\ ReleaseLease(i)
     \/ Errs /\ UNCHANGED queue
  /\ Return(i)
  /\ UNCHANGED <<status, attempt, memo, waits, asleep, sent, announced, loop>>

\* The answers after which the run goes on with another hop.
AdvancesPastWait(op)  == op \in {"StepComplete", "Sleep", "SendEvent", "WaitForEvent"}  \* mutant
AdvancesNotSend(op)   == op \in {"StepComplete", "Sleep"}                               \* mutant
Advances(op) == op \in {"StepComplete", "Sleep", "SendEvent"}

\* CompleteQueueItem, whose error every caller ignores.
Finish(i) ==
  /\ pc[i] = "finish"
  /\ \/ Succeeds /\ CompleteQueueItem(i)
     \/ Errs /\ UNCHANGED queue
  /\ IF Advances(work[i].op) THEN Goto(i, "enqueue") /\ UNCHANGED work ELSE Return(i)
  /\ UNCHANGED <<status, attempt, memo, waits, asleep, sent, announced, loop>>

\* enqueueNext: the next hop, at the until of a sleep or at once.  An error is
\* only logged.
EnqueueNext(i) ==
  LET w == work[i] IN
  /\ pc[i] = "enqueue"
  /\ \/ /\ Succeeds
        /\ \E j \in Items : Fresh(j, i) /\ Enqueue(j, w.run, IF w.op = "Sleep" THEN w.step ELSE 0)
     \/ Errs /\ UNCHANGED queue
  /\ Return(i)
  /\ UNCHANGED <<status, attempt, memo, waits, asleep, sent, announced, loop>>

-----------------------------------------------------------------------------
Dispatch(i) ==
  \/ Start(i) \/ StartUnregistered(i) \/ StartThrottled(i)
  \/ Claim(i) \/ Mark(i) \/ WakeSleeping(i) \/ Load(i)
  \/ Answer(i) \/ NoAnswer(i)
  \/ Recheck(i) \/ SendEvents(i) \/ Save(i) \/ Park(i) \/ Complete(i)
  \/ Fail(i) \/ Announce(i) \/ Release(i) \/ Finish(i) \/ EnqueueNext(i)

Loop == Reconcile \/ Lease \/ (\E i \in Items : Admit(i) \/ Reject(i)) \/ AnnounceTimeout
=============================================================================
