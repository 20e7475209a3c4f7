------------------------------- MODULE Store -------------------------------
(***************************************************************************)
(* The durable store (internal/store/store.go): the tables the engine      *)
(* reads and writes, and each transaction on them.  One transaction is     *)
(* atomic; a handler that calls several can be interrupted, by another     *)
(* goroutine or by the end of the process, between any two of them.        *)
(* Rows are abstracted to the columns that decide what the engine does.    *)
(***************************************************************************)
EXTENDS Workflow, FiniteSets

CONSTANTS Runs,      \* run ids
          Items,     \* queue item ids; an id is free again once its row and its worker are gone
          NoRun,     \* the run of no run
          MaxFaults  \* bound: how many store calls return an error

ASSUME StoreAssumption == NoRun \notin Runs /\ MaxFaults \in Nat

VARIABLES status,    \* runs.status; "None" before the row exists
          attempt,   \* runs.attempt
          memo,      \* step_runs.status by run and step; "none" without a row
          waits,     \* waits.status by run and step, the table's unique key
          queue,     \* queue_items: status, run and, as at, the sleep to wait for
          asleep,    \* the sleeps <<run, step>> whose until lies in the future
          sent,      \* the steps <<run, step>> whose events are in the events table
          announced, \* the runs whose runfailed_<run> event is in the events table
          faults     \* how many store calls have failed

storeVars == <<status, attempt, memo, waits, queue, asleep, sent, announced, faults>>

Active   == {"Queued", "Running"}
Terminal == {"Completed", "Failed", "Cancelled"}

NoItem == [st |-> "free", run |-> NoRun, wake |-> 0]

StoreTypeOK ==
  /\ status \in [Runs -> {"None"} \cup Active \cup Terminal]
  /\ attempt \in [Runs -> Nat]
  /\ memo \in [Runs -> [Steps -> {"none", "completed", "failed", "sleeping", "waiting"}]]
  /\ waits \in [Runs -> [Steps -> {"none", "waiting", "resolved", "timeout", "cancelled"}]]
  /\ queue \in [Items -> [st : {"free", "pending", "leased"},
                          run : Runs \cup {NoRun}, wake : Steps \cup {0}]]
  /\ asleep \subseteq Runs \X Steps
  /\ sent \subseteq Runs \X Steps
  /\ announced \subseteq Runs
  /\ faults \in Nat

StoreInit ==
  /\ status = [r \in Runs |-> "None"]
  /\ attempt = [r \in Runs |-> 0]
  /\ memo = [r \in Runs |-> [s \in Steps |-> "none"]]
  /\ waits = [r \in Runs |-> [s \in Steps |-> "none"]]
  /\ queue = [i \in Items |-> NoItem]
  /\ asleep = {}
  /\ sent = {}
  /\ announced = {}
  /\ faults = 0

-----------------------------------------------------------------------------
\* The outcome of a call: it succeeds, or it errs and changes nothing.
Succeeds == UNCHANGED faults
Errs     == faults < MaxFaults /\ faults' = faults + 1

\* runs
CreateRun(r)   == status' = [status EXCEPT ![r] = "Queued"]
MarkRunRunning(r) == status' = [status EXCEPT ![r] = "Running"]
EndRunBlindly(r, to) == status' = [status EXCEPT ![r] = to]     \* mutant: no status condition
EndRun(r, to)  == status' = IF status[r] \in Active THEN [status EXCEPT ![r] = to] ELSE status
CompleteRun(r) == EndRun(r, "Completed")
FailRun(r)     == EndRun(r, "Failed")
IncrementRunAttempt(r) == attempt' = [attempt EXCEPT ![r] = @ + 1]

\* CancelRun and TimeoutRun: one transaction ends the run and deletes its
\* pending queue items; a leased one is left to its worker.
EndRunAndPending(r, to) ==
  /\ status' = [status EXCEPT ![r] = to]
  /\ queue' = [i \in Items |-> IF queue[i].run = r /\ queue[i].st = "pending"
                               THEN NoItem ELSE queue[i]]

\* step_runs: an upsert that overwrites whatever status the memo had
SaveStepResult(r, s, to) == memo' = [memo EXCEPT ![r][s] = to]
CompleteSleepingSteps(r) ==
  memo' = [memo EXCEPT ![r] =
             [s \in Steps |-> IF memo[r][s] = "sleeping" THEN "completed" ELSE memo[r][s]]]
StoredSteps(r) == {s \in Steps : memo[r][s] # "none"}    \* mutant: memos of any status
CompletedSteps(r) == {s \in Steps : memo[r][s] = "completed"}

\* waits: CreateWait does nothing on a conflict, SetWaitStatus is unconditional
CreateWait(r, s) == waits' = IF waits[r][s] = "none" THEN [waits EXCEPT ![r][s] = "waiting"]
                                                     ELSE waits
SetWaitStatus(r, s, to) == waits' = [waits EXCEPT ![r][s] = to]
CancelWaitsForRun(r) ==
  waits' = [waits EXCEPT ![r] =
              [s \in Steps |-> IF waits[r][s] = "waiting" THEN "cancelled" ELSE waits[r][s]]]

\* queue_items
Enqueue(i, r, wake)  == queue' = [queue EXCEPT ![i] = [st |-> "pending", run |-> r, wake |-> wake]]
KeepQueueItem(i)     == UNCHANGED queue     \* mutant: the row is not deleted
CompleteQueueItem(i) == queue' = [queue EXCEPT ![i] = NoItem]
ReleaseLease(i)      == queue' = [queue EXCEPT ![i].st = "pending"]

\* A leased item was due, so from now on its at lies in the past (wake 0).
LeaseBatch(batch) ==
  queue' = [i \in Items |-> IF i \in batch THEN [st |-> "leased", run |-> queue[i].run, wake |-> 0]
                                            ELSE queue[i]]
RequeueExpiredLeases(expired) ==
  queue' = [i \in Items |-> IF i \in expired THEN [queue[i] EXCEPT !.st = "pending"]
                                             ELSE queue[i]]

\* A pending item is due once at has passed.  Only a sleep sets at to a time
\* the model keeps track of; a backoff is taken to have passed at any time.
Pending(i) == queue[i].st = "pending"     \* mutant of Due: at is not compared
Due(i) == queue[i].st = "pending" /\ <<queue[i].run, queue[i].wake>> \notin asleep

\* Time reaches the until of a sleep.
Wake(r, s) ==
  /\ <<r, s>> \in asleep
  /\ asleep' = asleep \ {<<r, s>>}
  /\ UNCHANGED <<status, attempt, memo, waits, queue, sent, announced, faults>>
=============================================================================
