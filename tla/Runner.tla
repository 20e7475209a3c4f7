------------------------------- MODULE Runner -------------------------------
(***************************************************************************)
(* The part of the runner (internal/runner/runner.go) that starts, resumes *)
(* and cancels runs.  The runner is a single goroutine: it routes one      *)
(* event, or handles one expired wait, at a time, and rn says which store  *)
(* call of the current handler comes next.  Which event arrives, and what  *)
(* it matches, is left open.                                               *)
(***************************************************************************)
EXTENDS Store

CONSTANT WaitExpires     \* the function gives its waits a timeout

ASSUME RunnerAssumption == WaitExpires \in BOOLEAN

VARIABLE rn              \* the runner's next call, and the locals it uses

Idle == [pc |-> "idle", run |-> NoRun, step |-> 0, to |-> "none"]

RunnerTypeOK ==
  rn \in [pc : {"idle", "start", "memo", "resolve", "resume", "sweep"},
          run : Runs \cup {NoRun}, step : Steps \cup {0},
          to : {"none", "resolved", "timeout"}]

RunnerInit == rn = Idle

-----------------------------------------------------------------------------
\* route: an event triggers a run that does not exist yet.  Its id derives
\* from the event, so an event routed again finds the run and does nothing.
Trigger(r) ==
  /\ rn.pc = "idle"
  /\ status[r] = "None"
  /\ CreateRun(r)
  /\ rn' = [pc |-> "start", run |-> r, step |-> 0, to |-> "none"]
  /\ UNCHANGED <<attempt, memo, waits, queue, asleep, sent, announced, faults>>

\* mutant of TakeWait: the waits of runs that have ended are passed over
TakeLiveWait(r, s) ==
  /\ rn.pc = "idle"
  /\ waits[r][s] = "waiting"
  /\ status[r] \notin Terminal
  /\ \E to \in {"resolved"} \cup (IF WaitExpires THEN {"timeout"} ELSE {}) :
       rn' = [pc |-> "memo", run |-> r, step |-> s, to |-> to]
  /\ UNCHANGED storeVars

\* resumeWaits and scanWaitTimeouts take up one waiting wait: the event
\* matches it, or it has expired.  The wait of a run that has ended is cancelled.
TakeWait(r, s) ==
  /\ rn.pc = "idle"
  /\ waits[r][s] = "waiting"
  /\ \/ /\ status[r] \in Terminal
        /\ SetWaitStatus(r, s, "cancelled")
        /\ UNCHANGED rn
     \/ /\ status[r] \notin Terminal
        /\ \E to \in {"resolved"} \cup (IF WaitExpires THEN {"timeout"} ELSE {}) :
             rn' = [pc |-> "memo", run |-> r, step |-> s, to |-> to]
        /\ UNCHANGED waits
  /\ UNCHANGED <<status, attempt, memo, queue, asleep, sent, announced, faults>>

\* On an error the handler goes on with the next wait.
CompleteWaitStep ==
  /\ rn.pc = "memo"
  /\ \/ /\ Succeeds
        /\ SaveStepResult(rn.run, rn.step, "completed")
        /\ rn' = [rn EXCEPT !.pc = "resolve"]
     \/ Errs /\ UNCHANGED memo /\ rn' = Idle
  /\ UNCHANGED <<status, attempt, waits, queue, asleep, sent, announced>>

ResolveOnly ==                \* mutant: the run is not enqueued again
  /\ rn.pc = "resolve"
  /\ Succeeds /\ SetWaitStatus(rn.run, rn.step, rn.to) /\ rn' = Idle
  /\ UNCHANGED <<status, attempt, memo, queue, asleep, sent, announced>>

Resolve ==
  /\ rn.pc = "resolve"
  /\ \/ Succeeds /\ SetWaitStatus(rn.run, rn.step, rn.to) /\ rn' = [rn EXCEPT !.pc = "resume"]
     \/ Errs /\ UNCHANGED waits /\ rn' = Idle
  /\ UNCHANGED <<status, attempt, memo, queue, asleep, sent, announced>>

\* applyCancelOn: an event cancels an active run, then the run's waits.
CancelOn(r) ==
  /\ rn.pc = "idle"
  /\ status[r] \in Active
  /\ EndRunAndPending(r, "Cancelled")
  /\ rn' = [pc |-> "sweep", run |-> r, step |-> 0, to |-> "none"]
  /\ UNCHANGED <<attempt, memo, waits, asleep, sent, announced, faults>>

SweepWaits ==
  /\ rn.pc = "sweep"
  /\ \/ Succeeds /\ CancelWaitsForRun(rn.run)
     \/ Errs /\ UNCHANGED waits
  /\ rn' = Idle
  /\ UNCHANGED <<status, attempt, memo, queue, asleep, sent, announced>>
=============================================================================
