---------------------------- MODULE CarrierProofs ----------------------------
(***************************************************************************)
(* A run is carried on by at most one thing, for any number of runs, items *)
(* and workers.  SingleCarrier is not inductive: that the trigger of a run *)
(* finds no carrier needs that a run that does not exist has none.         *)
(***************************************************************************)
EXTENDS EngineProofs

ItemsOfOneRun == \A r \in Runs, i, j \in Items : Carries(i, r) /\ Carries(j, r) => i = j
WaitsOfOneRun == \A r \in Runs, s, t \in Steps : WaitCarries(r, s) /\ WaitCarries(r, t) => s = t
RunnerOrItem  == \A r \in Runs, i \in Items : ~(RunnerCarries(r) /\ Carries(i, r))
RunnerOrWait  == \A r \in Runs, s \in Steps : ~(RunnerCarries(r) /\ WaitCarries(r, s))
ItemOrWait    == \A r \in Runs, i \in Items : Carries(i, r) => \A s \in Steps : ~WaitCarries(r, s)

\* A run that does not exist yet is carried on by nothing.
Unborn ==
  \A r \in Runs : status[r] = "None" =>
    /\ ~RunnerCarries(r)
    /\ \A i \in Items : ~Carries(i, r)
    /\ \A s \in Steps : ~WaitCarries(r, s)

Carriers == /\ ItemsOfOneRun /\ WaitsOfOneRun /\ RunnerOrItem /\ RunnerOrWait /\ ItemOrWait
            /\ Unborn

CarrierInv == Undisturbed => Carriers

-----------------------------------------------------------------------------
(* Most steps add no carrier. *)

NoNewCarrier ==
  /\ \A r \in Runs : /\ RunnerCarries(r)' => RunnerCarries(r)
                     /\ status'[r] = "None" => status[r] = "None"
  /\ \A r \in Runs, i \in Items : Carries(i, r)' => Carries(i, r)
  /\ \A r \in Runs, s \in Steps : WaitCarries(r, s)' => WaitCarries(r, s)

\* A step that adds no carrier, unless something goes wrong, keeps the invariant.
LEMMA FewerCarriers ==
  ASSUME CarrierInv, Undisturbed' => Undisturbed /\ NoNewCarrier
  PROVE  CarrierInv'
<1> SUFFICES ASSUME Undisturbed' PROVE Carriers'
  BY DEF CarrierInv
<1>1. Carriers /\ NoNewCarrier
  BY DEF CarrierInv
<1> QED BY <1>1 DEF Carriers, NoNewCarrier, ItemsOfOneRun, WaitsOfOneRun, RunnerOrItem,
           RunnerOrWait,
           ItemOrWait, Unborn

-----------------------------------------------------------------------------
(* The calls of a worker. *)

\* A call that deletes no row and does not reach enqueueNext.
PlainCall(i) ==
  /\ \A j \in Items : queue'[j].run = queue[j].run
  /\ \A j \in Items : j # i => pc'[j] = pc[j] /\ work'[j] = work[j]
  /\ pc[i] # "finish" /\ pc'[i] # "enqueue"

\* After such a call no item carries a run that it did not carry before.
LEMMA PlainCarries ==
  ASSUME NEW i \in Items, PlainCall(i), NEW r \in Runs, NEW j \in Items, Carries(j, r)'
  PROVE  Carries(j, r)
<1>1. CASE j = i
  BY <1>1 DEF PlainCall, Carries, Parked
<1>2. CASE j # i
  BY <1>2 DEF PlainCall, Carries, Parked
<1> QED BY <1>1, <1>2

\* The calls that are plain.
Plain(i) ==
  \/ Admit(i) \/ Reject(i) \/ Start(i) \/ StartUnregistered(i) \/ StartThrottled(i) \/ Claim(i)
  \/ Mark(i) \/ WakeSleeping(i) \/ Load(i) \/ Answer(i) \/ NoAnswer(i) \/ Recheck(i)
  \/ SendEvents(i) \/ Save(i) \/ Complete(i) \/ Fail(i) \/ Announce(i) \/ Release(i)

\* Which of a worker's calls are plain.
LEMMA PlainCalls ==
  ASSUME Shape, NEW i \in Items, Plain(i)
  PROVE  PlainCall(i)
<1> USE DEF Shape, TypeOK, StoreTypeOK, ExecutorTypeOK, PlainCall, Goto
<1>1. CASE Admit(i)
  BY <1>1 DEF Admit, storeVars
<1>2. CASE Reject(i)
  BY <1>2 DEF Reject, ReleaseLease, Return
<1>3. CASE Start(i)
  BY <1>3 DEF Start
<1>4. CASE StartUnregistered(i)
  BY <1>4 DEF StartUnregistered, storeVars
<1>5. CASE StartThrottled(i)
  BY <1>5 DEF StartThrottled, storeVars
<1>6. CASE Claim(i)
  BY <1>6 DEF Claim
<1>7. CASE Mark(i)
  BY <1>7 DEF Mark
<1>8. CASE WakeSleeping(i)
  BY <1>8 DEF WakeSleeping, RetryOrFail
<1>9. CASE Load(i)
  BY <1>9 DEF Load, RetryOrFail
<1>10. CASE Answer(i)
  BY <1>10 DEF Answer
<1>11. CASE NoAnswer(i)
  BY <1>11 DEF NoAnswer, storeVars, RetryOrFail
<1>12. CASE Recheck(i)
  <2>1. work[i].op \in Ops
    BY <1>12 DEF Recheck, WorkerOK
  <2>2. work[i].op # "RunError" => Handles(work[i].op) # "enqueue"
    BY <2>1 DEF Handles, Ops
  <2> QED BY <1>12, <2>2 DEF Recheck, RetryOrFail
<1>13. CASE SendEvents(i)
  BY <1>13 DEF SendEvents, RetryOrFail
<1>14. CASE Save(i)
  BY <1>14 DEF Save, RetryOrFail
<1>15. CASE Complete(i)
  BY <1>15 DEF Complete
<1>16. CASE Fail(i)
  BY <1>16 DEF Fail
<1>17. CASE Announce(i)
  BY <1>17 DEF Announce
<1>18. CASE Release(i)
  BY <1>18 DEF Release, ReleaseLease, Return
<1> QED BY <1>1, <1>2, <1>3, <1>4, <1>5, <1>6, <1>7, <1>8, <1>9, <1>10, <1>11, <1>12, <1>13, <1>14,
           <1>15, <1>16, <1>17, <1>18 DEF Plain

\* The other variables a plain call may change.
LEMMA PlainStatus ==
  ASSUME Shape, NEW i \in Items, Plain(i)
  PROVE  waits' = waits /\ \A r \in Runs : status'[r] = "None" => status[r] = "None"
<1>1. waits' = waits
  BY DEF Plain, storeVars, Admit, Reject, Start, StartUnregistered, StartThrottled, Claim, Mark,
     WakeSleeping, Load, Answer, NoAnswer, Recheck, SendEvents, Save, Complete, Fail, Announce,
     Release
<1>2. \/ status' = status
      \/ status' = [status EXCEPT ![work[i].run] = "Running"]
      \/ status' = [status EXCEPT ![work[i].run] = "Completed"]
      \/ status' = [status EXCEPT ![work[i].run] = "Failed"]
  BY DEF Plain, storeVars, MarkRunRunning, CompleteRun, FailRun, EndRun, Admit, Reject, Start,
     StartUnregistered, StartThrottled, Claim, Mark, WakeSleeping, Load, Answer, NoAnswer, Recheck,
     SendEvents, Save, Complete, Fail, Announce, Release
<1> QED BY <1>1, <1>2 DEF Shape, TypeOK, StoreTypeOK

\* The error of a store call is a disturbance.
LEMMA UndisturbedStep ==
  ASSUME Shape, Undisturbed'
  PROVE  ~Errs
BY DEF Undisturbed, Errs, Shape, TypeOK, StoreTypeOK

\* How a step of a worker may end an undisturbed state.
LEMMA StillUndisturbed ==
  ASSUME Shape, Succeeds \/ Errs \/ UNCHANGED faults, UNCHANGED crashes, Undisturbed'
  PROVE  Undisturbed
BY UndisturbedStep DEF Undisturbed, Succeeds

\* Only a step that waits for an event answers with WaitForEvent.
LEMMA WaitOpcode == ASSUME NEW kind, "WaitForEvent" \in Opcodes(kind) PROVE kind = "WaitForEvent"
BY DEF Opcodes

\* A plain call keeps the invariant.
LEMMA PlainKeepsCarriers ==
  ASSUME Shape, CarrierInv, NEW i \in Items, Plain(i), UNCHANGED <<rn, crashes>>
  PROVE  CarrierInv'
<1>1. Succeeds \/ Errs \/ UNCHANGED faults
  BY DEF Plain, storeVars, Admit, Reject, Start, StartUnregistered, StartThrottled, Claim, Mark,
     WakeSleeping, Load, Answer, NoAnswer, Recheck, SendEvents, Save, Complete, Fail, Announce,
     Release
<1>2. NoNewCarrier
  BY PlainCalls, PlainCarries, PlainStatus DEF NoNewCarrier, RunnerCarries, WaitCarries
<1> QED BY <1>1, <1>2, StillUndisturbed, FewerCarriers

\* The worker that goes on to enqueueNext carried its run as a row before.
LEMMA FinishCarries ==
  ASSUME Shape, NEW i \in Items, Finish(i), CompleteQueueItem(i),
         NEW r \in Runs, NEW j \in Items, Carries(j, r)'
  PROVE  Carries(j, r)
<1>1. CASE j # i
  BY <1>1 DEF Finish, CompleteQueueItem, Goto, Return, Carries, Parked, Shape, TypeOK,
     StoreTypeOK, ExecutorTypeOK
<1>2. CASE j = i
  <2>1. queue'[i].run = NoRun /\ r # NoRun
    BY StoreAssumption DEF CompleteQueueItem, NoItem, Shape, TypeOK, StoreTypeOK
  <2>2. pc'[i] = "enqueue" /\ work'[i].run = r
    BY <1>2, <2>1 DEF Carries
  <2>3. Advances(work[i].op) /\ work' = work
    BY <2>2 DEF Finish, Goto, Return, Shape, TypeOK, ExecutorTypeOK
  <2>4. queue[i].run = r /\ ~Parked(i)
    BY <2>2, <2>3 DEF Finish, Shape, WorkerOK, Advances, Parked
  <2> QED BY <1>2, <2>4 DEF Carries
<1> QED BY <1>1, <1>2

\* The worker that goes on to enqueueNext takes over from its row.
LEMMA FinishKeepsCarriers ==
  ASSUME Shape, CarrierInv, NEW i \in Items, Finish(i), UNCHANGED <<rn, crashes>>
  PROVE  CarrierInv'
<1> SUFFICES ASSUME Undisturbed' PROVE Undisturbed /\ NoNewCarrier
  BY FewerCarriers
<1>1. Undisturbed /\ CompleteQueueItem(i)
  BY UndisturbedStep, StillUndisturbed DEF Finish
<1>2. \A r \in Runs, j \in Items : Carries(j, r)' => Carries(j, r)
  BY <1>1, FinishCarries
<1>3. UNCHANGED <<status, waits>>
  BY DEF Finish
<1> QED BY <1>1, <1>2, <1>3 DEF NoNewCarrier, RunnerCarries, WaitCarries

\* The item of a worker that parked its wait carries nothing.
LEMMA ParkCarries ==
  ASSUME Shape, NEW i \in Items, Park(i), pc' = [pc EXCEPT ![i] = "finish"],
         NEW r \in Runs, NEW j \in Items, Carries(j, r)'
  PROVE  Carries(j, r) /\ j # i
<1>1. CASE j # i
  BY <1>1 DEF Carries, Parked, Park, Shape, TypeOK, ExecutorTypeOK
<1>2. CASE j = i
  BY <1>2 DEF Carries, Parked, Park, Shape, TypeOK, ExecutorTypeOK, WorkerOK
<1> QED BY <1>1, <1>2

\* The wait takes over from the item of its worker, which is parked from now on.
LEMMA ParkKeepsCarriers ==
  ASSUME Shape, CarrierInv, NEW i \in Items, Park(i), UNCHANGED <<rn, crashes>>
  PROVE  CarrierInv'
<1> SUFFICES ASSUME Undisturbed' PROVE Carriers'
  BY DEF CarrierInv
<1>0. PICK q \in Runs, u \in Steps : q = work[i].run /\ u = work[i].step
  BY DEF Park, Shape, WorkerOK, StepOps
<1>1. /\ CreateWait(q, u)
      /\ pc' = [pc EXCEPT ![i] = "finish"]
      /\ UNCHANGED <<status, queue, work>>
  BY <1>0, UndisturbedStep DEF Park, Goto
<1>2. Carriers
  BY StillUndisturbed DEF Park, CarrierInv
<1>3. Carries(i, q)
  BY <1>0 DEF Park, Shape, WorkerOK, Carries, Parked
<1>4. \A r \in Runs, j \in Items : Carries(j, r)' => Carries(j, r) /\ j # i
  BY <1>1, ParkCarries
<1>5. ASSUME NEW r \in Runs, NEW s \in Steps, WaitCarries(r, s)'
      PROVE  WaitCarries(r, s) \/ (r = q /\ s = u)
  BY <1>1, <1>5 DEF CreateWait, WaitCarries, Shape, TypeOK, StoreTypeOK
<1>6. \A r \in Runs : RunnerCarries(r)' <=> RunnerCarries(r)
  BY DEF RunnerCarries
<1>7. \A s \in Steps : ~WaitCarries(q, s)
  BY <1>2, <1>3 DEF Carriers, ItemOrWait
<1>8. \A j \in Items : ~Carries(j, q)'
  BY <1>2, <1>3, <1>4 DEF Carriers, ItemsOfOneRun
<1>9. ~RunnerCarries(q) /\ status'[q] # "None"
  BY <1>1, <1>2, <1>3 DEF Carriers, RunnerOrItem, Unborn
<1>10. ItemsOfOneRun' /\ RunnerOrItem'
  BY <1>2, <1>4, <1>6 DEF Carriers, ItemsOfOneRun, RunnerOrItem
<1>11. WaitsOfOneRun'
  BY <1>2, <1>5, <1>7 DEF Carriers, WaitsOfOneRun
<1>12. RunnerOrWait'
  BY <1>2, <1>5, <1>6, <1>9 DEF Carriers, RunnerOrWait
<1>13. ItemOrWait'
  BY <1>2, <1>4, <1>5, <1>8 DEF Carriers, ItemOrWait
<1>14. Unborn'
  BY <1>1, <1>2, <1>4, <1>5, <1>6, <1>9 DEF Carriers, Unborn
<1> QED BY <1>10, <1>11, <1>12, <1>13, <1>14 DEF Carriers

\* Once the next hop is stored as item j, item i is gone, unless it is item j.
LEMMA EnqueueNextCarries ==
  ASSUME Shape, NEW i \in Items, EnqueueNext(i), Undisturbed'
  PROVE  \E j \in Items :
           /\ Fresh(j, i) /\ Enqueue(j, work[i].run, IF work[i].op = "Sleep" THEN work[i].step ELSE 0)
           /\ pc'[j] = "idle"
           /\ \A r \in Runs, k \in Items :
                Carries(k, r)' => (k = j /\ r = work[i].run) \/ (Carries(k, r) /\ k # i)
<1>1. PICK j \in Items :
        Fresh(j, i) /\ Enqueue(j, work[i].run, IF work[i].op = "Sleep" THEN work[i].step ELSE 0)
  BY UndisturbedStep DEF EnqueueNext
<1>2. pc' = [pc EXCEPT ![i] = "idle"] /\ work' = [work EXCEPT ![i] = NoWork]
  BY DEF EnqueueNext, Return, Goto
<1>3. pc'[j] = "idle"
  BY <1>1, <1>2 DEF Fresh, Shape, TypeOK, ExecutorTypeOK
<1>4. faults = 0 /\ queue[i].run = NoRun
  BY UndisturbedStep DEF EnqueueNext, Undisturbed, Succeeds, Shape, WorkerOK
<1>5. /\ queue'[j].run = work[i].run
      /\ \A k \in Items : k # j => queue'[k] = queue[k]
  BY <1>1 DEF Enqueue, Shape, TypeOK, StoreTypeOK
<1>6. ASSUME NEW r \in Runs, NEW k \in Items, Carries(k, r)'
      PROVE  (k = j /\ r = work[i].run) \/ (Carries(k, r) /\ k # i)
  <2>1. CASE k = j
    BY <1>3, <1>5, <1>6, <2>1 DEF Carries
  <2>2. CASE k = i /\ k # j
    <3>1. queue'[i].run = NoRun /\ pc'[i] = "idle" /\ r # NoRun
      BY <1>2, <1>4, <1>5, <2>2, StoreAssumption DEF Shape, TypeOK, ExecutorTypeOK
    <3> QED BY <1>6, <2>2, <3>1 DEF Carries
  <2>3. CASE k # i /\ k # j
    BY <1>2, <1>5, <1>6, <2>3 DEF Carries, Parked
  <2> QED BY <2>1, <2>2, <2>3
<1> QED BY <1>1, <1>3, <1>6

\* The row of the next hop takes over from the worker.
LEMMA EnqueueNextKeepsCarriers ==
  ASSUME Shape, CarrierInv, NEW i \in Items, EnqueueNext(i), UNCHANGED <<rn, crashes>>
  PROVE  CarrierInv'
<1> SUFFICES ASSUME Undisturbed' PROVE Carriers'
  BY DEF CarrierInv
<1>0. PICK q \in Runs : q = work[i].run
  BY DEF EnqueueNext, Shape, WorkerOK
<1>1. PICK j \in Items : \A r \in Runs, k \in Items :
        Carries(k, r)' => (k = j /\ r = q) \/ (Carries(k, r) /\ k # i)
  BY <1>0, EnqueueNextCarries
<1>2. UNCHANGED <<status, waits>>
  BY DEF EnqueueNext
<1>3. Carriers
  BY StillUndisturbed DEF EnqueueNext, CarrierInv
<1>4. Carries(i, q)
  BY <1>0 DEF EnqueueNext, Carries
<1>5. ASSUME NEW r \in Runs, NEW k \in Items, Carries(k, r)'
      PROVE  (k = j /\ r = q) \/ (Carries(k, r) /\ r # q)
  BY <1>1, <1>3, <1>4, <1>5 DEF Carriers, ItemsOfOneRun
<1>6. \A r \in Runs : RunnerCarries(r)' <=> RunnerCarries(r)
  BY DEF RunnerCarries
<1>7. \A r \in Runs, s \in Steps : WaitCarries(r, s)' <=> WaitCarries(r, s)
  BY <1>2 DEF WaitCarries
<1>8. status'[q] # "None" /\ ~RunnerCarries(q) /\ \A s \in Steps : ~WaitCarries(q, s)
  BY <1>2, <1>3, <1>4 DEF Carriers, RunnerOrItem, ItemOrWait, Unborn
<1>9. ItemsOfOneRun'
  BY <1>3, <1>5 DEF Carriers, ItemsOfOneRun
<1>10. RunnerOrItem' /\ ItemOrWait'
  BY <1>3, <1>5, <1>6, <1>7, <1>8 DEF Carriers, RunnerOrItem, ItemOrWait
<1>11. WaitsOfOneRun' /\ RunnerOrWait'
  BY <1>3, <1>6, <1>7 DEF Carriers, WaitsOfOneRun, RunnerOrWait
<1>12. Unborn'
  BY <1>2, <1>3, <1>5, <1>6, <1>7, <1>8 DEF Carriers, Unborn
<1> QED BY <1>9, <1>10, <1>11, <1>12 DEF Carriers

\* Every call of a worker keeps the invariant ...
LEMMA DispatchKeepsCarriers ==
  ASSUME Shape, CarrierInv, NEW i \in Items, Dispatch(i), UNCHANGED <<rn, crashes>>
  PROVE  CarrierInv'
BY PlainKeepsCarriers, FinishKeepsCarriers, ParkKeepsCarriers, EnqueueNextKeepsCarriers
   DEF Dispatch, Plain

-----------------------------------------------------------------------------
(* The loop, time, the dashboard and the end of the process. *)

\* Ending a run takes carriers away.
LEMMA EndRunAndPendingCarries ==
  ASSUME Shape, NEW q \in Runs, NEW to \in Terminal, EndRunAndPending(q, to), UNCHANGED <<pc, work>>
  PROVE  /\ \A r \in Runs : status'[r] = "None" => status[r] = "None"
         /\ \A r \in Runs, i \in Items : Carries(i, r)' => Carries(i, r)
<1>1. \A r \in Runs : status'[r] = "None" => status[r] = "None"
  BY DEF EndRunAndPending, Terminal, Shape, TypeOK, StoreTypeOK
<1>2. \A i \in Items : queue'[i].run \in {queue[i].run, NoRun}
  BY DEF EndRunAndPending, NoItem
<1> QED BY <1>1, <1>2, StoreAssumption DEF Carries, Parked

\* The steps that start no worker's call and trigger or resume no run.
Background ==
  \/ Reconcile \/ Lease \/ AnnounceTimeout
  \/ \E q \in Runs : TimeoutRun(q)

\* They add no carrier.
LEMMA BackgroundCarries ==
  ASSUME Shape, Background, UNCHANGED rn
  PROVE  NoNewCarrier
<1>1. CASE Reconcile
  <2>1. \A i \in Items : queue'[i].run = queue[i].run
    <3>1. CASE UNCHANGED queue
      BY <3>1
    <3>2. CASE \E expired \in SUBSET Items : RequeueExpiredLeases(expired)
      BY <3>2 DEF RequeueExpiredLeases
    <3> QED BY <1>1, <3>1, <3>2 DEF Reconcile
  <2> QED BY <1>1, <2>1 DEF Reconcile, NoNewCarrier, Carries, Parked, RunnerCarries, WaitCarries
<1>2. CASE Lease
  <2>0. PICK batch \in SUBSET {i \in Items : Due(i)} :
          /\ LeaseBatch(batch)
          /\ pc' = [i \in Items |-> IF i \in batch THEN "leased" ELSE pc[i]]
          /\ work' = [i \in Items |-> IF i \in batch THEN [NoWork EXCEPT !.run = queue[i].run]
                                                     ELSE work[i]]
    BY <1>2 DEF Lease
  <2>1. \A i \in Items : /\ queue'[i].run = queue[i].run
                         /\ \/ queue[i].st = "pending" /\ pc'[i] = "leased"
                            \/ pc'[i] = pc[i] /\ work'[i] = work[i]
    BY <2>0 DEF LeaseBatch, Due
  <2>2. \A r \in Runs, i \in Items : Carries(i, r)' => Carries(i, r)
    BY <2>1 DEF Carries, Parked, Shape, WorkerOK
  <2> QED BY <1>2, <2>2 DEF Lease, NoNewCarrier, RunnerCarries, WaitCarries
<1>3. CASE AnnounceTimeout
  BY <1>3 DEF AnnounceTimeout, NoNewCarrier, Carries, Parked, RunnerCarries, WaitCarries
<1>4. ASSUME NEW q \in Runs, TimeoutRun(q) PROVE NoNewCarrier
  BY <1>4, EndRunAndPendingCarries DEF TimeoutRun, Terminal, NoNewCarrier, RunnerCarries, WaitCarries
<1> QED BY <1>1, <1>2, <1>3, <1>4 DEF Background

\* ... every step of the executor ...
LEMMA LoopKeepsCarriers ==
  ASSUME Shape, CarrierInv, ExecutorStep
  PROVE  CarrierInv'
<1>1. CASE Background
  <2>1. (Succeeds \/ Errs \/ UNCHANGED faults) /\ UNCHANGED <<rn, crashes>>
    BY <1>1 DEF ExecutorStep, Background, Reconcile, Lease, AnnounceTimeout, TimeoutRun
  <2> QED BY <1>1, <2>1, BackgroundCarries, FewerCarriers, StillUndisturbed
<1>2. ASSUME NEW i \in Items, Admit(i) \/ Reject(i) \/ Dispatch(i) PROVE CarrierInv'
  BY <1>2, PlainKeepsCarriers, DispatchKeepsCarriers DEF Plain, ExecutorStep
<1> QED BY <1>1, <1>2 DEF ExecutorStep, Loop, Background

\* ... time ...
LEMMA TimeKeepsCarriers == ASSUME Shape, CarrierInv, TimePasses PROVE CarrierInv'
<1>1. NoNewCarrier
  BY DEF TimePasses, Wake, executorVars, NoNewCarrier, Carries, Parked, RunnerCarries, WaitCarries
<1> QED BY <1>1, FewerCarriers, StillUndisturbed DEF TimePasses, Wake

\* ... and the dashboard.
LEMMA CancelKeepsCarriers ==
  ASSUME Shape, CarrierInv, NEW q \in Runs, DashboardCancel(q)
  PROVE  CarrierInv'
<1>1. NoNewCarrier
  BY EndRunAndPendingCarries DEF DashboardCancel, Terminal, executorVars, NoNewCarrier,
     RunnerCarries,
     WaitCarries
<1> QED BY <1>1, FewerCarriers, StillUndisturbed DEF DashboardCancel

\* A restart forgets workers.  A parked one would leave its row behind as a
\* second carrier, but without waits no worker is ever parked.
LEMMA CrashKeepsCarriers ==
  ASSUME Shape, CarrierInv, Crash
  PROVE  CarrierInv'
<1> SUFFICES ASSUME Undisturbed' PROVE Undisturbed /\ NoNewCarrier
  BY FewerCarriers
<1>1. WaitFree /\ Undisturbed
  BY DEF Undisturbed, WaitFree, Crash, storeVars, Shape, TypeOK
<1>2. ASSUME NEW i \in Items PROVE ~Parked(i)
  BY <1>1, WaitOpcode DEF WaitFree, Parked, Shape, WorkerOK, StepOps
<1>3. \A r \in Runs, i \in Items : Carries(i, r)' => Carries(i, r)
  BY <1>2 DEF Crash, storeVars, Carries
<1> QED BY <1>1, <1>3 DEF NoNewCarrier, Crash, Idle, storeVars, RunnerCarries, WaitCarries

-----------------------------------------------------------------------------
(* The runner. *)

\* The runner carries a run it created, which nothing carried before.
LEMMA TriggerKeepsCarriers ==
  ASSUME Shape, CarrierInv, NEW q \in Runs, Trigger(q), UNCHANGED <<executorVars, crashes>>
  PROVE  CarrierInv'
<1> SUFFICES ASSUME Undisturbed' PROVE Carriers'
  BY DEF CarrierInv
<1>1. Carriers
  BY StillUndisturbed DEF Trigger, CarrierInv
<1>2. /\ \A r \in Runs, i \in Items : Carries(i, r)' <=> Carries(i, r)
      /\ \A r \in Runs, s \in Steps : WaitCarries(r, s)' <=> WaitCarries(r, s)
      /\ \A r \in Runs : RunnerCarries(r)' <=> r = q
  BY DEF Trigger, executorVars, Carries, Parked, WaitCarries, RunnerCarries
<1>3. (\A i \in Items : ~Carries(i, q)) /\ (\A s \in Steps : ~WaitCarries(q, s))
  BY <1>1 DEF Trigger, Carriers, Unborn
<1>4. \A r \in Runs : status'[r] = "None" => status[r] = "None" /\ r # q
  BY DEF Trigger, CreateRun, Shape, TypeOK, StoreTypeOK
<1> QED BY <1>1, <1>2, <1>3, <1>4 DEF Carriers, ItemsOfOneRun, WaitsOfOneRun, RunnerOrItem,
           RunnerOrWait, ItemOrWait, Unborn

\* The runner takes over from the wait.
LEMMA ResolveKeepsCarriers ==
  ASSUME Shape, CarrierInv, Resolve, UNCHANGED <<executorVars, crashes>>
  PROVE  CarrierInv'
<1> SUFFICES ASSUME Undisturbed' PROVE Carriers'
  BY DEF CarrierInv
<1>0. PICK q \in Runs, u \in Steps : q = rn.run /\ u = rn.step
  BY DEF Resolve, Shape, RunnerOK
<1>1. Carriers /\ SetWaitStatus(q, u, rn.to) /\ rn' = [rn EXCEPT !.pc = "resume"]
  BY <1>0, UndisturbedStep, StillUndisturbed DEF Resolve, CarrierInv
<1>2. WaitCarries(q, u) /\ rn.to \in {"resolved", "timeout"}
  BY <1>0 DEF Resolve, Shape, RunnerOK, TypeOK, RunnerTypeOK, WaitCarries
<1>3. /\ \A r \in Runs, i \in Items : Carries(i, r)' <=> Carries(i, r)
      /\ \A r \in Runs : RunnerCarries(r)' <=> r = q
      /\ status' = status
  BY <1>0, <1>1 DEF Resolve, executorVars, Carries, Parked, RunnerCarries, Shape, TypeOK,
     RunnerTypeOK
<1>4. \A r \in Runs, s \in Steps : WaitCarries(r, s)' => WaitCarries(r, s) /\ ~(r = q /\ s = u)
  BY <1>1, <1>2 DEF SetWaitStatus, WaitCarries, Shape, TypeOK, StoreTypeOK
<1>5. \A s \in Steps : ~WaitCarries(q, s)'
  BY <1>1, <1>2, <1>4 DEF Carriers, WaitsOfOneRun
<1>6. status[q] # "None" /\ \A i \in Items : ~Carries(i, q)
  BY <1>1, <1>2 DEF Carriers, ItemOrWait, Unborn
<1>7. ItemsOfOneRun' /\ ItemOrWait'
  BY <1>1, <1>3, <1>4 DEF Carriers, ItemsOfOneRun, ItemOrWait
<1>8. RunnerOrItem' /\ RunnerOrWait'
  BY <1>3, <1>5, <1>6 DEF RunnerOrItem, RunnerOrWait
<1>9. WaitsOfOneRun'
  BY <1>1, <1>4 DEF Carriers, WaitsOfOneRun
<1>10. Unborn'
  BY <1>1, <1>3, <1>4, <1>6 DEF Carriers, Unborn
<1> QED BY <1>7, <1>8, <1>9, <1>10 DEF Carriers

\* The row takes over from the runner.
LEMMA RunnerEnqueueKeepsCarriers ==
  ASSUME Shape, CarrierInv, RunnerEnqueue
  PROVE  CarrierInv'
<1> SUFFICES ASSUME Undisturbed' PROVE Carriers'
  BY DEF CarrierInv
<1>0. PICK q \in Runs : q = rn.run
  BY DEF RunnerEnqueue, Shape, RunnerOK
<1>1. Carriers
  BY StillUndisturbed DEF RunnerEnqueue, CarrierInv
<1>2. PICK j \in Items : /\ pc[j] = "idle"
                         /\ queue'[j].run = q
                         /\ \A k \in Items : k # j => queue'[k] = queue[k]
  BY <1>0, UndisturbedStep DEF RunnerEnqueue, Enqueue, Shape, TypeOK, StoreTypeOK
<1>3. RunnerCarries(q)
  BY <1>0 DEF RunnerEnqueue, Shape, RunnerOK, RunnerCarries
<1>4. \A r \in Runs, k \in Items : Carries(k, r)' => (k = j /\ r = q) \/ Carries(k, r)
  BY <1>2 DEF RunnerEnqueue, executorVars, Carries, Parked
<1>5. /\ \A r \in Runs : ~RunnerCarries(r)'
      /\ \A r \in Runs, s \in Steps : WaitCarries(r, s)' <=> WaitCarries(r, s)
      /\ status' = status
  BY DEF RunnerEnqueue, RunnerCarries, Idle, WaitCarries
<1>6. /\ status[q] # "None"
      /\ \A i \in Items : ~Carries(i, q)
      /\ \A s \in Steps : ~WaitCarries(q, s)
  BY <1>1, <1>3 DEF Carriers, RunnerOrItem, RunnerOrWait, Unborn
<1> QED BY <1>1, <1>4, <1>5, <1>6 DEF Carriers, ItemsOfOneRun, WaitsOfOneRun, RunnerOrItem,
           RunnerOrWait, ItemOrWait, Unborn

\* The runner's other steps add no carrier.
LEMMA RunnerKeepsCarriers ==
  ASSUME Shape, CarrierInv, RunnerStep
  PROVE  CarrierInv'
<1> USE DEF executorVars, NoNewCarrier, Carries, Parked, RunnerCarries, WaitCarries
<1>1. CASE RunnerEnqueue
  BY <1>1, RunnerEnqueueKeepsCarriers
<1>2. ASSUME NEW q \in Runs, Trigger(q), UNCHANGED <<executorVars, crashes>> PROVE CarrierInv'
  BY <1>2, TriggerKeepsCarriers
<1>3. CASE Resolve /\ UNCHANGED <<executorVars, crashes>>
  BY <1>3, ResolveKeepsCarriers
<1>4. ASSUME NEW q \in Runs, CancelOn(q), UNCHANGED <<executorVars, crashes>> PROVE CarrierInv'
  <2>1. NoNewCarrier
    BY <1>4, EndRunAndPendingCarries DEF CancelOn, Terminal
  <2> QED BY <1>4, <2>1, FewerCarriers, StillUndisturbed DEF CancelOn
<1>5. ASSUME NEW q \in Runs, NEW u \in Steps, TakeWait(q, u), UNCHANGED <<executorVars, crashes>>
      PROVE  CarrierInv'
  <2>1. \A r \in Runs, s \in Steps : waits'[r][s] = "waiting" => waits[r][s] = "waiting"
    BY <1>5 DEF TakeWait, SetWaitStatus, Shape, TypeOK, StoreTypeOK
  <2>2. \A r \in Runs : RunnerCarries(r)' => RunnerCarries(r)
    BY <1>5 DEF TakeWait
  <2>3. NoNewCarrier
    BY <1>5, <2>1, <2>2 DEF TakeWait
  <2> QED BY <1>5, <2>3, FewerCarriers, StillUndisturbed DEF TakeWait
<1>6. CASE CompleteWaitStep /\ UNCHANGED <<executorVars, crashes>>
  <2>1. NoNewCarrier
    BY <1>6 DEF CompleteWaitStep, Idle, Shape, TypeOK, RunnerTypeOK
  <2>2. (Succeeds \/ Errs) /\ UNCHANGED crashes
    BY <1>6 DEF CompleteWaitStep
  <2> QED BY <2>1, <2>2, FewerCarriers, StillUndisturbed
<1>7. CASE SweepWaits /\ UNCHANGED <<executorVars, crashes>>
  <2>1. \A r \in Runs, s \in Steps : waits'[r][s] = "waiting" => waits[r][s] = "waiting"
    <3>1. CASE UNCHANGED waits
      BY <3>1
    <3>2. CASE CancelWaitsForRun(rn.run)
      BY <3>2 DEF CancelWaitsForRun, Shape, TypeOK, StoreTypeOK
    <3> QED BY <1>7, <3>1, <3>2 DEF SweepWaits
  <2>2. NoNewCarrier
    BY <1>7, <2>1 DEF SweepWaits, Idle
  <2>3. (Succeeds \/ Errs) /\ UNCHANGED crashes
    BY <1>7 DEF SweepWaits
  <2> QED BY <2>2, <2>3, FewerCarriers, StillUndisturbed
<1> QED BY <1>1, <1>2, <1>3, <1>4, <1>5, <1>6, <1>7 DEF RunnerStep

-----------------------------------------------------------------------------
\* At the start nothing is carried on ...
LEMMA CarrierInit == Init => CarrierInv
BY StoreAssumption DEF Init, StoreInit, ExecutorInit, RunnerInit, Idle, NoItem, CarrierInv,
   Carriers,
   ItemsOfOneRun, WaitsOfOneRun, RunnerOrItem, RunnerOrWait, ItemOrWait, Unborn, Carries,
   RunnerCarries, WaitCarries

\* ... and every step keeps the invariant.
LEMMA CarrierNext == Shape /\ CarrierInv /\ [Next]_vars => CarrierInv'
<1> SUFFICES ASSUME Shape, CarrierInv, [Next]_vars PROVE CarrierInv'
  OBVIOUS
<1>1. CASE UNCHANGED vars
  BY <1>1 DEF vars, storeVars, executorVars, CarrierInv, Undisturbed, Carriers, ItemsOfOneRun,
     WaitsOfOneRun, RunnerOrItem, RunnerOrWait, ItemOrWait, Unborn, Carries, Parked, RunnerCarries,
     WaitCarries
<1> QED BY <1>1, LoopKeepsCarriers, RunnerKeepsCarriers, TimeKeepsCarriers, CancelKeepsCarriers,
           CrashKeepsCarriers DEF Next

\* A run is never carried on by two things at once: no run is dispatched twice
\* at the same time, and a parked run holds neither a queue item nor a worker.
THEOREM OneCarrier == Spec => []SingleCarrier
<1>1. CarrierInv => SingleCarrier
  BY DEF CarrierInv, SingleCarrier, Carriers, ItemsOfOneRun, WaitsOfOneRun, RunnerOrItem,
     RunnerOrWait,
     ItemOrWait
<1>2. Spec => []CarrierInv
  BY ShapeHolds, CarrierInit, CarrierNext, PTL DEF Spec
<1> QED BY <1>1, <1>2, PTL
=============================================================================
