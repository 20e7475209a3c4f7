------------------------------- MODULE Pages -------------------------------
(***************************************************************************)
(* The two pages over the platform and the example app.  A browser tab     *)
(* shows one of them at a time, each of its own origin: leaving a page     *)
(* drops its state and what it still waits for.  Somebody else may cancel  *)
(* a run meanwhile.                                                        *)
(***************************************************************************)
EXTENDS RunPage, ReportPanel

VARIABLE tab    \* "none", "run" or "report"

vars == <<appVars, page, polls, stale, panelVars, tab>>

Init ==
  /\ AppInit
  /\ page = NoPage /\ polls = NoPolls /\ stale = FALSE
  /\ panel = NoPanel /\ starts = <<>> /\ followups = [t \in Tasks |-> 0]
  /\ tab = "none"

-----------------------------------------------------------------------------
\* Another page is loaded: nothing of the one before stays.
Open ==
  /\ tab' \in {"run", "report"} \ {tab}
  /\ IF tab' = "run" THEN \E r \in DOMAIN runs : page' = [NoPage EXCEPT !.run = r]
                     ELSE page' = NoPage
  /\ panel' = NoPanel /\ starts' = <<>> /\ polls' = NoPolls /\ stale' = FALSE
  /\ followups' = [t \in Tasks |-> 0]
  /\ UNCHANGED appVars

\* Another operator.
Elsewhere ==
  /\ \E r \in DOMAIN runs : runs[r].st \in Active /\ Cancelled(r)
  /\ UNCHANGED <<table, faults, page, polls, stale, panelVars, tab>>

App ==
  /\ \/ \E r \in DOMAIN runs : Callback(r) \/ StepEnds(r) \/ Lose(r)
     \/ StrayEnds
  /\ UNCHANGED <<page, polls, stale, panelVars, tab>>

Dashboard ==
  /\ tab = "run"
  /\ \/ /\ Tick \/ ServeRun \/ ShowRun \/ OnStop \/ StopAnswered \/ OnReplay
           \/ ReplayAnswered \/ (\E r \in DOMAIN runs : GoTo(r))
        /\ UNCHANGED appVars
     \/ ServeStop \/ ServeReplay \/ PageFault
  /\ UNCHANGED <<panelVars, tab>>

Panel ==
  /\ tab = "report"
  /\ \/ (Start \/ StartAnswered \/ Poll \/ ServePoll \/ ShowPoll) /\ UNCHANGED appVars
     \/ ServeStart \/ PanelFault
  /\ UNCHANGED <<page, tab>>

Next == Open \/ Elsewhere \/ App \/ Dashboard \/ Panel

-----------------------------------------------------------------------------
\* Timers fire and requests are answered, and the app goes on with its steps.
\* Nobody has to open a page, click or act elsewhere.
Asks    == tab = "run" /\ Tick /\ UNCHANGED <<appVars, panelVars, tab>>
Asked   == tab = "run" /\ ServeRun /\ UNCHANGED <<appVars, panelVars, tab>>
Shows   == tab = "run" /\ ShowRun /\ UNCHANGED <<appVars, panelVars, tab>>
Polls   == tab = "report" /\ Poll /\ UNCHANGED <<appVars, page, tab>>
Polled  == tab = "report" /\ ServePoll /\ UNCHANGED <<appVars, page, tab>>
Updates == tab = "report" /\ ShowPoll /\ UNCHANGED <<appVars, page, tab>>

Fairness ==
  /\ WF_vars(Asks) /\ WF_vars(Asked) /\ WF_vars(Shows)
  /\ WF_vars(Polls) /\ WF_vars(Polled) /\ WF_vars(Updates)
Spec == Init /\ [][Next]_vars /\ Fairness

-----------------------------------------------------------------------------
(* Properties. *)

TypeOK ==
  /\ Len(runs) <= MaxRuns /\ faults \in 0 .. MaxFaults
  /\ \A r \in DOMAIN runs :
       /\ runs[r].task \in Tasks /\ runs[r].st \in Active \cup Ended
       /\ runs[r].done \in 0 .. Steps /\ (runs[r].exec => runs[r].st = "running")
       /\ runs[r].st = "completed" => runs[r].done = Steps
  /\ \A t \in Tasks : table[t].status \in {"unknown", "running", "completed", "failed"}
  /\ tab \in {"none", "run", "report"}
  /\ InFlight(polls) <= MaxPolls
  /\ tab # "run" => page = NoPage
  /\ tab # "report" => panel = NoPanel /\ starts = <<>>
  /\ page.run \in 0 .. Len(runs) /\ page.terminal \in BOOLEAN /\ stale \in BOOLEAN
  /\ panel.kind \in {"idle", "running", "completed", "failed"}

\* A run page that has stopped polling shows the run of its address as it ended,
\* and will for good: unless an answer was shown that a later one had overtaken,
\* or that was asked for before the address changed (RunDetailPage.jsx:133-143).
FrozenIsFinal ==
  page.terminal /\ ~ stale =>
    /\ page.data = [run |-> page.run, st |-> runs[page.run].st]
    /\ runs[page.run].st \in Ended

\* A page that stays on a run which has ended, by Stop or otherwise, comes to show
\* that and stops polling (RunDetailPage.jsx:159), with the same exception.
Converges ==
  \A r \in 1 .. MaxRuns :
    (page.run = r /\ runs[r].st \in Ended)
      ~> (page.run # r \/ stale \/ (page.terminal /\ page.data.st \in Ended))

\* The task of a run that completed says so, with the result, whatever executions
\* of its steps went on beside the recorded ones; unless the task was run again
\* (route.ts:74-76, tasks.ts:24-26).
DoneIsCompleted ==
  \A r \in DOMAIN runs :
    runs[r].st = "completed" /\ (\A q \in DOMAIN runs : runs[q].task = runs[r].task => q = r)
      => table[runs[r].task].status = "completed" /\ table[runs[r].task].result

\* Between two loads of the panel the follow-up of a task is sent once, and for a
\* result there is; unless the panel showed the answer of a poll it had made for
\* another task (ReportPanel.tsx:40-43).
FollowedUpOnce ==
  \A t \in Tasks : ~ stale => followups[t] <= 1 /\ (followups[t] = 1 => table[t].result)

\* A panel that waits for a task which has completed comes to show it; unless it
\* was left or led astray so, or the task was run again (ReportPanel.tsx:23-38).
PanelCompletes ==
  \A t \in Tasks :
    (panel.task = t /\ table[t].status = "completed")
      ~> (panel.kind = "completed" \/ tab # "report" \/ stale \/ table[t].status # "completed")
=============================================================================
