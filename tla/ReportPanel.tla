---------------------------- MODULE ReportPanel ----------------------------
(***************************************************************************)
(* The panel of the example app (ReportPanel.tsx): a click makes a task,   *)
(* its state is polled until it is completed or failed, and a follow-up is *)
(* sent once it is completed.                                              *)
(***************************************************************************)
EXTENDS ReportApp, Polling
LOCAL INSTANCE SequencesExt

VARIABLES
  panel,      \* phase and task (0: none or not known yet), followupSent
  starts,     \* the clicks whose POST is on its way: 0, or the task it was answered with
  followups   \* auxiliary: how often the follow-up of each task was sent

panelVars == <<panel, starts, followups>>

NoPanel == [kind |-> "idle", task |-> 0, sent |-> 0]

\* start
Start ==
  /\ panel.kind # "running" /\ Len(runs) + Len(starts) < MaxRuns
  /\ panel' = [panel EXCEPT !.kind = "running", !.task = 0]
  /\ starts' = Append(starts, 0)
  /\ UNCHANGED <<polls, stale, followups>>

\* POST of api/report: the event is sent, the id of the task returned.
ServeStart ==
  \E i \in DOMAIN starts :
    /\ starts[i] = 0 /\ Len(runs) < MaxRuns
    /\ Triggered
    /\ starts' = [starts EXCEPT ![i] = Fresh]
    /\ UNCHANGED <<table, strays, faults, panel, polls, stale, followups>>

StartAnswered ==
  \E i \in DOMAIN starts :
    /\ starts[i] # 0
    /\ panel' = [panel EXCEPT !.kind = "running", !.task = starts[i]]
    /\ starts' = RemoveAt(starts, i)
    /\ UNCHANGED <<polls, stale, followups>>

\* The timer of the phase "running".
Poll ==
  /\ panel.kind = "running" /\ InFlight(polls) < MaxPolls
  /\ polls' = Ask(polls, panel.task)
  /\ UNCHANGED <<panel, starts, stale, followups>>

\* GET of api/report
Status(t) == IF t = 0 THEN "unknown" ELSE table[t].status
ServePoll ==
  \E i \in DOMAIN polls.asked :
    /\ polls' = Reply(polls, i, Status(polls.asked[i]))
    /\ UNCHANGED <<panel, starts, stale, followups>>

\* mutant of Phase: a task that is completed is polled again
NeverDone(status) == "running"

Phase(status) == IF status \in {"completed", "failed"} THEN status ELSE "running"

\* mutant of FollowsUp: the panel does not remember what it sent
FollowsAgain(p) == p.kind = "completed"

\* The effect of a completed phase.
FollowsUp(p) == p.kind = "completed" /\ p.sent # p.task

ShowPoll ==
  \E i \in DOMAIN polls.got :
    LET d == polls.got[i]
        p == [panel EXCEPT !.kind = Phase(d.is), !.task = d.of] IN
    /\ IF FollowsUp(p)
       THEN /\ panel' = [p EXCEPT !.sent = p.task]
            /\ followups' = [followups EXCEPT ![p.task] = @ + 1]
       ELSE panel' = p /\ UNCHANGED followups
    /\ polls' = Taken(polls, i)
    /\ stale' = (stale \/ d.of # panel.task)
    /\ UNCHANGED starts

\* A click is refused, or gets no answer and leaves the panel as it is.
PanelFault ==
  /\ Fault
  /\ \E i \in DOMAIN starts :
       /\ starts' = RemoveAt(starts, i)
       /\ \/ starts[i] = 0 /\ panel' = [panel EXCEPT !.kind = "failed", !.task = 0]
          \/ UNCHANGED panel
  /\ UNCHANGED <<runs, table, strays, polls, stale, followups>>
=============================================================================
