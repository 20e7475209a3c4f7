------------------------------ MODULE RunPage ------------------------------
(***************************************************************************)
(* The page of one run in the dashboard (RunDetailPage.jsx): it polls the  *)
(* run until it has seen an ended one, and can stop or replay it.  The     *)
(* same component stays mounted while the address goes from run to run,    *)
(* with its state but for terminal.                                        *)
(***************************************************************************)
EXTENDS ReportApp, Polling

VARIABLE page   \* run: the run of the address (0: the page is not open); data,
                \* terminal and the states of the two buttons

NoData   == [run |-> 0, st |-> "none"]
Waits(r, st) == [run |-> r, st |-> st]
Idle     == Waits(0, "idle")
NoPage   == [run |-> 0, data |-> NoData, terminal |-> FALSE, stop |-> Idle, replay |-> Idle]

-----------------------------------------------------------------------------
\* mutant of AtRun: terminal is kept
KeepsTerminal(p, r) == [p EXCEPT !.run = r]

\* The address changes to another run: terminal is reset, the rest of the
\* state stays, what is on its way too.
AtRun(p, r) == [p EXCEPT !.run = r, !.terminal = FALSE]

\* Back or forward between the runs a replay has put into the history of the tab.
GoTo(r) ==
  /\ page.run \notin {0, r} /\ page.replay.st = "replayed"
  /\ page' = AtRun(page, r)
  /\ UNCHANGED <<polls, stale>>

\* The timer, which is off once terminal is set.
Tick ==
  /\ page.run # 0 /\ ~ page.terminal /\ InFlight(polls) < MaxPolls
  /\ polls' = Ask(polls, page.run)
  /\ UNCHANGED <<page, stale>>

\* getRun
ServeRun ==
  \E i \in DOMAIN polls.asked :
    /\ polls' = Reply(polls, i, runs[polls.asked[i]].st)
    /\ UNCHANGED <<page, stale>>

\* mutant of Shown: a run that was cancelled is asked for again and again
WaitsOn(p, d) ==
  [p EXCEPT !.data = [run |-> d.of, st |-> d.is],
            !.terminal = @ \/ d.is \in {"completed", "failed"}]

\* An answer is shown, whatever was shown before; an ended run ends the polling.
Shown(p, d) ==
  [p EXCEPT !.data = [run |-> d.of, st |-> d.is], !.terminal = @ \/ d.is \notin Active]

ShowRun ==
  \E i \in DOMAIN polls.got :
    /\ page' = Shown(page, polls.got[i])
    /\ polls' = Taken(polls, i)
    /\ stale' = (stale \/ polls.got[i].late \/ polls.got[i].of # page.run)

\* onStop, after the user has confirmed it: the run that is shown.
OnStop ==
  /\ page.data.st \in Active /\ page.stop.st = "idle"
  /\ page' = [page EXCEPT !.stop = Waits(page.data.run, "asked")]
  /\ UNCHANGED <<polls, stale>>

\* The answer, or the error, makes the button work again.
StopAnswered ==
  /\ page.stop.st = "served"
  /\ page' = [page EXCEPT !.stop = Idle]
  /\ UNCHANGED <<polls, stale>>

\* onReplay
OnReplay ==
  /\ page.terminal /\ page.data.run # 0 /\ page.replay.st = "idle"
  /\ page' = [page EXCEPT !.replay = Waits(page.data.run, "asked")]
  /\ UNCHANGED <<polls, stale>>

\* The address changes to the new run; the button goes on saying Replaying.
ReplayAnswered ==
  /\ page.replay.st = "served"
  /\ page' = AtRun([page EXCEPT !.replay = Waits(0, "replayed")], page.replay.run)
  /\ UNCHANGED <<polls, stale>>

\* The platform serves the two requests.
ServeStop ==
  /\ page.stop.st = "asked"
  /\ Cancelled(page.stop.run)
  /\ page' = [page EXCEPT !.stop = Waits(0, "served")]
  /\ UNCHANGED <<table, faults, polls, stale>>

ServeReplay ==
  /\ page.replay.st = "asked" /\ Len(runs) < MaxRuns
  /\ Replayed(page.replay.run)
  /\ page' = [page EXCEPT !.replay = Waits(Len(runs) + 1, "served")]
  /\ UNCHANGED <<table, strays, faults, polls, stale>>

\* Stop or Replay gets no answer, be it lost on its way or back: an error is
\* shown and the button works again.  (A poll that fails changes nothing but a
\* banner, and is as good as not made.)
PageFault ==
  /\ page.run # 0 /\ Fault
  /\ \/ page.stop.st # "idle" /\ page' = [page EXCEPT !.stop = Idle]
     \/ page.replay.st \in {"asked", "served"} /\ page' = [page EXCEPT !.replay = Idle]
  /\ UNCHANGED <<runs, table, strays, polls, stale>>
=============================================================================
