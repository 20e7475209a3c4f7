------------------------------- MODULE Engine -------------------------------
(***************************************************************************)
(* The running platform: the executor and the runner of one process on the *)
(* store they share, together with the dashboard's cancel handler and the  *)
(* end and restart of the process.  What a goroutine keeps in memory is    *)
(* gone after a restart; the store is not.                                 *)
(***************************************************************************)
EXTENDS Executor, Runner

CONSTANT MaxCrashes      \* bound: how often the process ends

ASSUME EngineAssumption == MaxCrashes \in Nat

VARIABLE crashes         \* how often the process has ended

vars == <<storeVars, executorVars, rn, crashes>>

TypeOK == StoreTypeOK /\ ExecutorTypeOK /\ RunnerTypeOK /\ crashes \in Nat

Init == StoreInit /\ ExecutorInit /\ RunnerInit /\ crashes = 0

-----------------------------------------------------------------------------
\* The runner enqueues the first hop of a run it created, or the hop that
\* resumes a run.  An error is logged, and the hop is lost.
RunnerEnqueue ==
  /\ rn.pc \in {"start", "resume"}
  /\ \/ Succeeds /\ \E j \in Items : queue[j].st = "free" /\ pc[j] = "idle" /\ Enqueue(j, rn.run, 0)
     \/ Errs /\ UNCHANGED queue
  /\ rn' = Idle
  /\ UNCHANGED <<status, attempt, memo, waits, asleep, sent, announced, executorVars, crashes>>

\* POST /api/v1/runs/{id}/cancel: one CancelRun; the waits stay.
DashboardCancel(r) ==
  /\ status[r] \in Active
  /\ EndRunAndPending(r, "Cancelled")
  /\ UNCHANGED <<attempt, memo, waits, asleep, sent, announced, faults,
                 executorVars, rn, crashes>>

\* The process ends, between any two calls of any goroutine, and is started again.
Crash ==
  /\ crashes < MaxCrashes
  /\ crashes' = crashes + 1
  /\ loop' = [pc |-> "boot", run |-> NoRun]
  /\ pc' = [i \in Items |-> "idle"]
  /\ work' = [i \in Items |-> NoWork]
  /\ rn' = Idle
  /\ UNCHANGED storeVars

ExecutorStep ==
  /\ Loop \/ (\E r \in Runs : TimeoutRun(r)) \/ (\E i \in Items : Dispatch(i))
  /\ UNCHANGED <<rn, crashes>>

RunnerStep ==
  \/ /\ \/ \E r \in Runs : Trigger(r) \/ CancelOn(r) \/ \E s \in Steps : TakeWait(r, s)
        \/ CompleteWaitStep \/ Resolve \/ SweepWaits
     /\ UNCHANGED <<executorVars, crashes>>
  \/ RunnerEnqueue

TimePasses == (\E r \in Runs, s \in Steps : Wake(r, s)) /\ UNCHANGED <<executorVars, rn, crashes>>

Next ==
  \/ ExecutorStep
  \/ RunnerStep
  \/ TimePasses
  \/ \E r \in Runs : DashboardCancel(r)
  \/ Crash

\* Every goroutine that can take a step does so in the end, the callback
\* returns (the client gives up after five minutes), time goes on, and a wait
\* with a timeout expires.  Nothing is assumed of users: events, cancellations
\* and run timeouts may never come.
Fairness ==
  /\ WF_vars(Loop /\ UNCHANGED <<rn, crashes>>)
  /\ \A i \in Items : WF_vars(Dispatch(i) /\ UNCHANGED <<rn, crashes>>)
  /\ WF_vars((CompleteWaitStep \/ Resolve \/ SweepWaits) /\ UNCHANGED <<executorVars, crashes>>)
  /\ WF_vars(RunnerEnqueue)
  /\ WaitExpires => \A r \in Runs, s \in Steps :
                      SF_vars(TakeWait(r, s) /\ UNCHANGED <<executorVars, crashes>>)
  /\ WF_vars(TimePasses)

Spec     == Init /\ [][Next]_vars
FairSpec == Spec /\ Fairness

-----------------------------------------------------------------------------
(* What carries a run on. *)

\* Item i carries run r: a row of the queue or, between CompleteQueueItem and
\* enqueueNext, its worker.  A worker whose wait is parked does not: all it has
\* left to do is to delete its row.
Parked(i)     == pc[i] = "finish" /\ work[i].op = "WaitForEvent"
Carries(i, r) == \/ queue[i].run = r /\ ~Parked(i)
                 \/ pc[i] = "enqueue" /\ work[i].run = r

RunnerCarries(r) == rn.pc \in {"start", "resume"} /\ rn.run = r
WaitCarries(r, s) == waits[r][s] = "waiting"

\* No store call has failed, and the process never ended or no step waits for
\* an event.  The window of handleWaitForEvent is the only one in which the
\* end of the process leaves a run with two carriers.
WaitFree    == \A s \in Steps : Program[s] # "WaitForEvent"
Undisturbed == faults = 0 /\ (crashes = 0 \/ WaitFree)

\* A run is carried on by at most one thing: one queue item, or the runner
\* about to enqueue one, or one wait.  So no run is ever dispatched twice at
\* the same time, and a parked run holds neither a queue item nor a worker.
SingleCarrier ==
  Undisturbed =>
    \A r \in Runs :
      /\ \A i, j \in Items : Carries(i, r) /\ Carries(j, r) => i = j
      /\ \A s, t \in Steps : WaitCarries(r, s) /\ WaitCarries(r, t) => s = t
      /\ RunnerCarries(r) => \A i \in Items : ~Carries(i, r)
      /\ \A s \in Steps : WaitCarries(r, s) =>
           ~RunnerCarries(r) /\ \A i \in Items : ~Carries(i, r)

HasCarrier(r) ==
  RunnerCarries(r) \/ (\E i \in Items : Carries(i, r)) \/ (\E s \in Steps : WaitCarries(r, s))

\* As long as no call fails and the process does not end, an active run always
\* has something that carries it on: no interleaving of the executor, the
\* runner, the timeout scan and the dashboard loses a wake-up.
NoRunLost == faults = 0 /\ crashes = 0 => \A r \in Runs : status[r] \in Active => HasCarrier(r)

-----------------------------------------------------------------------------
(* What a run may rely on. *)

Done(r, s) == memo[r][s] = "completed"

\* The app is never made to execute a step whose result is already stored.
Executes(i, s) == pc[i] = "call" /\ pc'[i] = "recheck" /\ work'[i].step = s
ExecutedOnce ==
  [][Undisturbed => \A i \in Items, s \in Steps :
       Executes(i, s) => ~Done(work[i].run, s)]_vars

\* A stored result is never replaced: neither by the late answer of another
\* hop nor by a wait that is parked again.
ResultsLast ==
  [][Undisturbed => \A r \in Runs, s \in Steps : Done(r, s) => Done(r, s)']_vars

\* Steps finish in program order, and a completed run finished all of them.
StepsInOrder ==
  Undisturbed => \A r \in Runs, s \in Steps :
    /\ Done(r, s) => \A t \in Steps : t < s => Done(r, t)
    /\ status[r] = "Completed" => Done(r, s)

\* A sleep is not over before its until.
SleepsInFull ==
  faults = 0 /\ crashes = 0 => \A r \in Runs, s \in Steps :
    Program[s] = "Sleep" /\ Done(r, s) => <<r, s>> \notin asleep

\* A SendEvent step is recorded as done only after its events are stored,
\* whatever fails in between.
SentBeforeDone ==
  \A r \in Runs, s \in Steps : Program[s] = "SendEvent" /\ Done(r, s) => <<r, s>> \in sent

\* A run that has ended stays as it ended: not the late answer of a callback,
\* not a timeout or a cancellation, not a restart changes its status.
EndIsFinal ==
  [][\A r \in Runs : status[r] \in Terminal => status'[r] = status[r]]_vars

\* Retries and hops share one counter, and a run that has used up its attempts
\* survives only as long as every hop succeeds: a run with n steps is never
\* dispatched more than MaxAttempts + n times.
AttemptsBounded ==
  faults = 0 /\ crashes = 0 => \A r \in Runs : attempt[r] <= MaxAttempts + Len(Program)

-----------------------------------------------------------------------------
(* What must happen in the end. *)

\* A run that was triggered ends.
EveryRunEnds == \A r \in Runs : status[r] = "Queued" ~> status[r] \in Terminal

\* A run that failed is announced by its triggerlink/run.failed event.
FailureAnnounced == \A r \in Runs : status[r] = "Failed" ~> r \in announced

\* A run that has ended leaves no queue item and no open wait behind.
Swept(r) == (\A i \in Items : queue[i].run # r) /\ \A s \in Steps : waits[r][s] # "waiting"
EndedRunSwept == \A r \in Runs : status[r] \in Terminal ~> Swept(r)

-----------------------------------------------------------------------------
(* The engine does for each run what DurableRun promises.  (Where a call    *)
(* fails, or the process ends in the window of handleWaitForEvent, it does  *)
(* not: a stored result can be replaced.)                                   *)
Durable == INSTANCE DurableRun WITH phase <- status,
                                    done  <- [r \in Runs |-> CompletedSteps(r)]
ImplementsDurableRun == Durable!DurableSpec

-----------------------------------------------------------------------------
(* What the comments and documents of the code say, and the engine does not *)
(* keep to.                                                                 *)

\* triggerlink/run.failed announces a run that reached Failed, and no other
\* run (executor.go, failRun; docs/user-guide.md, OnFailure).
AnnouncedOnlyIfFailed == \A r \in announced : status[r] = "Failed"

\* A sleep lasts until its until, a restart of the platform notwithstanding
\* (docs/protocol.md, 5.5).
SleepSurvivesCrash ==
  \A r \in Runs, s \in Steps : Program[s] = "Sleep" /\ Done(r, s) => <<r, s>> \notin asleep

\* After a restart a running run is still carried on by something that the
\* reconciliation or the runner can pick up (docs/architecture.md, 5.2).
RunningSurvivesCrash == \A r \in Runs : status[r] = "Running" => HasCarrier(r)

\* The step of a resolved wait is recorded as done, an opcode replayed after a
\* crash notwithstanding (executor.go, handleWaitForEvent; docs/protocol.md, 5.7).
ResumedStepDone ==
  \A r \in Runs, s \in Steps : waits[r][s] \in {"resolved", "timeout"} => Done(r, s)

\* A lease left behind by a crash is taken back after the restart (docs/
\* deployment.md: a scheduling gap of at most 30s).
Orphaned(i) ==
  queue[i].st = "leased" /\ pc[i] = "idle" /\ status[queue[i].run] \in Active
LeasesTakenBack == \A i \in Items : Orphaned(i) ~> ~Orphaned(i)
=============================================================================
