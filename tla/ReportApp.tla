----------------------------- MODULE ReportApp -----------------------------
(***************************************************************************)
(* The example app as the platform and its two pages see it: the runs of   *)
(* build-report (examples/nextjs), whose steps write the progress of their *)
(* task to a table in the app, which the panel of the app asks for.  A     *)
(* callback whose answer is lost is repeated, while the step it executed   *)
(* goes on as a stray and writes to the table too.  How the platform       *)
(* queues, leases and retries is the subject of Engine.                    *)
(***************************************************************************)
EXTENDS Naturals, Sequences

CONSTANTS
  Steps,      \* the number of steps of build-report
  MaxRuns,    \* bound on runs
  MaxFaults   \* bound on what is lost or refused

ASSUME ReportAssumption == Steps \in Nat \ {0} /\ {MaxRuns, MaxFaults} \subseteq Nat

VARIABLES
  runs,     \* the runs in the order of their creation
  table,    \* the tasks of the app: status and whether there is a result
  strays,   \* executions of steps nobody waits for: task and position
  faults

appVars == <<runs, table, strays, faults>>

Active  == {"queued", "running"}
Ended   == {"completed", "failed", "cancelled"}
Tasks   == 1 .. MaxRuns
Unknown == [status |-> "unknown", result |-> FALSE]

NewRun(t) == [task |-> t, st |-> "queued", done |-> 0, exec |-> FALSE]
Known     == {runs[r].task : r \in DOMAIN runs}

\* The id of a new task.
Fresh     == CHOOSE t \in Tasks \ Known : \A u \in Tasks \ Known : t <= u

Fault == faults < MaxFaults /\ faults' = faults + 1

-----------------------------------------------------------------------------
\* updateTask: what a patch does not name is kept.
updateTask(t, patch) ==
  [table EXCEPT ![t] = [k \in DOMAIN Unknown |-> IF k \in DOMAIN patch THEN patch[k] ELSE @[k]]]

\* A step tells that the task is running when it begins, the last one the result
\* when it ends.
Begun(t) == updateTask(t, [status |-> "running"])

\* mutant of Finished: the interrupt that ends a step is taken for a failure
CatchAll(t, k) == updateTask(t, [status |-> "failed"])

Finished(t, k) ==
  IF k = Steps THEN updateTask(t, [status |-> "completed", result |-> TRUE]) ELSE table

\* mutant of Callback: one step more than there is
CallsOnceMore(r) ==
  /\ runs[r].st \in Active /\ ~ runs[r].exec
  /\ runs[r].done <= Steps
  /\ runs' = [runs EXCEPT ![r].st = "running", ![r].exec = TRUE]
  /\ table' = Begun(runs[r].task)
  /\ UNCHANGED <<strays, faults>>

\* A callback: the function goes through its memos; the next step begins, or
\* there is none and the run completes.
Callback(r) ==
  /\ runs[r].st \in Active /\ ~ runs[r].exec
  /\ IF runs[r].done < Steps
     THEN /\ runs' = [runs EXCEPT ![r].st = "running", ![r].exec = TRUE]
          /\ table' = Begun(runs[r].task)
     ELSE /\ runs' = [runs EXCEPT ![r].st = "completed"]
          /\ UNCHANGED table
  /\ UNCHANGED <<strays, faults>>

\* The step ends and its output is recorded.
StepEnds(r) ==
  /\ runs[r].exec
  /\ runs' = [runs EXCEPT ![r].exec = FALSE, ![r].done = @ + 1]
  /\ table' = Finished(runs[r].task, runs[r].done + 1)
  /\ UNCHANGED <<strays, faults>>

Stray(r) == strays \cup {[task |-> runs[r].task, at |-> runs[r].done + 1]}

\* The answer will not reach the platform: it retries, or fails the run if the
\* attempt was the last.
Lose(r) ==
  /\ runs[r].exec /\ Fault
  /\ \E st \in {"running", "failed"} :
       runs' = [runs EXCEPT ![r].exec = FALSE, ![r].st = st]
  /\ strays' = Stray(r)
  /\ UNCHANGED table

StrayEnds ==
  \E s \in strays :
    /\ table' = Finished(s.task, s.at)
    /\ strays' = strays \ {s}
    /\ UNCHANGED <<runs, faults>>

\* cancelRun: only a run that has not ended; the step it executes goes on.
Cancelled(r) ==
  IF runs[r].st \in Active
  THEN /\ runs' = [runs EXCEPT ![r].st = "cancelled", ![r].exec = FALSE]
       /\ strays' = IF runs[r].exec THEN Stray(r) ELSE strays
  ELSE UNCHANGED <<runs, strays>>

\* replayRun: a new run from the event of any run, without its steps.
Replayed(r) == runs' = Append(runs, NewRun(runs[r].task))

\* send, with the new task's id as the id of the event: a run is made of it.
Triggered == runs' = Append(runs, NewRun(Fresh))

AppInit == runs = <<>> /\ table = [t \in Tasks |-> Unknown] /\ strays = {} /\ faults = 0
=============================================================================
