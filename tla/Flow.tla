-------------------------------- MODULE Flow --------------------------------
(***************************************************************************)
(* Debounce and batch: how the runner (runner.go) turns the events of a    *)
(* stream into runs of functions that merge or collect them, beside the    *)
(* executor (executor.go) that dispatches the merged runs, closes their    *)
(* windows and retries them, an operator who cancels, errors of the store  *)
(* and crashes.  A window of a function is the one of one key.  A run may  *)
(* be dispatched at any time after it was enqueued, a batch be flushed at  *)
(* any scan: periods and timeouts only say when.  Steps are the subject of *)
(* Engine: here a callback completes the run or fails.                     *)
(***************************************************************************)
EXTENDS Naturals, Sequences
LOCAL INSTANCE SequencesExt

CONSTANTS
  Subscribers,  \* of each event name: its functions in the order of the registry
  Debounced,    \* those with debounce; the others have batch
  MaxSize,      \* of a batch
  MaxEvents,    \* bound on events
  MaxFaults     \* bound on errors and crashes

ASSUME FlowAssumption ==
  /\ MaxSize \in Nat \ {0} /\ {MaxEvents, MaxFaults} \subseteq Nat

VARIABLES
  events,    \* what has been sent, in the order of arrival: its name, "stored" or "routed"
  stream,    \* the channel of the events inserted
  runner,    \* the position of the runner's Run and route
  executor,  \* the position of the executor's Run
  runs,      \* the runs of debounced functions: status, event, queue item, and the
             \* position of the goroutine that dispatches it
  window,    \* debounce_pending: the run of the open window of a function, or 0
  entries,   \* batch_entries of a function
  batches,   \* the runs of a batched function: their events
  faults,
  appended,  \* auxiliary: what was ever appended for a function
  cut,       \* auxiliary: runs whose routing stopped before they were enqueued
  dropped,   \* auxiliary: runs that an error kept from being read or ended
  raced      \* auxiliary: runs that an event or a window came to too late to be read,
             \* or whose window could not be closed

intake   == <<events, stream, runner>>
batching == <<entries, batches, appended>>
vars     == <<intake, executor, runs, window, batching, faults, cut, dropped, raced>>

Names     == DOMAIN Subscribers
Functions == UNION {Range(Subscribers[n]) : n \in Names}
Batched   == Functions \ Debounced
Errors(n) == faults + n <= MaxFaults /\ faults' = faults + n
Fault     == Errors(1)

Down     == [pc |-> "down", e |-> 0, todo |-> <<>>, r |-> 0, orphans |-> {}]
Fn       == Head(runner.todo)
At(pc)   == runner.pc = pc
To(pc)   == [runner EXCEPT !.pc = pc]
Done     == [runner EXCEPT !.pc = "route", !.todo = Tail(@), !.r = 0]

Ended(r) == runs[r].st # "active"

-----------------------------------------------------------------------------
(* Intake and the loop of the runner. *)

\* The event is inserted and put into the channel.
Send ==
  /\ ~ At("down") /\ Len(events) < MaxEvents
  /\ \E n \in Names : events' = Append(events, [name |-> n, st |-> "stored"])
  /\ stream' = Append(stream, Len(events) + 1)
  /\ UNCHANGED <<runner, executor, runs, window, batching, faults, cut, dropped, raced>>

\* At its start the runner lists what was stored and not routed, be it in the
\* channel as well, and routes that first, in the order of arrival.  If it cannot,
\* its goroutine ends, and nothing is routed till the next start.
Reconcile ==
  /\ At("start")
  /\ \/ /\ runner' = [To("loop") EXCEPT
             !.orphans = {e \in DOMAIN events : events[e].st = "stored"}]
        /\ UNCHANGED faults
     \/ Fault /\ runner' = To("exited")
  /\ UNCHANGED <<events, stream, executor, runs, window, batching, cut, dropped, raced>>

Route(e) == [runner EXCEPT !.pc = "route", !.e = e, !.todo = Subscribers[events[e].name]]

Take ==
  /\ At("loop")
  /\ \/ \E e \in runner.orphans :
          /\ \A d \in runner.orphans : e <= d
          /\ runner' = [Route(e) EXCEPT !.orphans = @ \ {e}]
          /\ UNCHANGED stream
     \/ /\ runner.orphans = {} /\ stream # <<>>
        /\ runner' = Route(Head(stream))
        /\ stream' = Tail(stream)
  /\ UNCHANGED <<events, executor, runs, window, batching, faults, cut, dropped, raced>>

\* mutant of MarkRouted: marked before every function has had the event
MarksEarly ==
  /\ At("route")
  /\ events' = [events EXCEPT ![runner.e].st = "routed"]
  /\ runner' = [To("loop") EXCEPT !.e = 0]
  /\ UNCHANGED <<stream, executor, runs, window, batching, faults, cut, dropped, raced>>

\* MarkEventRouted, when every function has had the event.
MarkRouted ==
  /\ At("route") /\ runner.todo = <<>>
  /\ events' = [events EXCEPT ![runner.e].st = "routed"]
  /\ runner' = [To("loop") EXCEPT !.e = 0]
  /\ UNCHANGED <<stream, executor, runs, window, batching, faults, cut, dropped, raced>>

\* A call to the store fails: route returns, the event stays stored till the
\* next start.
RouteFails ==
  /\ runner.pc \in {"route", "snapshot", "push", "enqueue", "open", "flush"} /\ Fault
  /\ cut' = IF At("enqueue") THEN cut \cup {runner.r} ELSE cut
  /\ runner' = [Down EXCEPT !.pc = "loop", !.orphans = runner.orphans]
  /\ UNCHANGED <<events, stream, executor, runs, window, batching, dropped, raced>>

-----------------------------------------------------------------------------
(* routeDebounced *)

\* mutant of NewRun: the run is created without the event
NoSnapshot(e) == [of |-> e, fn |-> Fn, st |-> "active", item |-> "none", pc |-> "idle",
                  snap |-> 0, sent |-> 0, merged |-> {e}]

NewRun(e) == [of |-> e, fn |-> Fn, st |-> "active", item |-> "none", pc |-> "idle",
              snap |-> e, sent |-> 0, merged |-> {e}]

\* The window of the function is looked up.  There is none: the run is created,
\* unless the event has made one before.
Lookup ==
  /\ At("route") /\ runner.todo # <<>> /\ Fn \in Debounced
  /\ IF window[Fn] # 0
     THEN runner' = [To("snapshot") EXCEPT !.r = window[Fn]] /\ UNCHANGED runs
     ELSE IF \E r \in DOMAIN runs : runs[r].of = runner.e /\ runs[r].fn = Fn
          THEN runner' = Done /\ UNCHANGED runs
          ELSE /\ runs' = Append(runs, NewRun(runner.e))
               /\ runner' = [To("enqueue") EXCEPT !.r = Len(runs) + 1]
  /\ UNCHANGED <<events, stream, executor, window, batching, faults, cut, dropped, raced>>

\* A dispatch to come will read the run, or it was ended without having completed.
Unread(r) ==
  \/ runs[r].st = "stopped"
  \/ ~ Ended(r) /\ runs[r].item # "none" /\ runs[r].pc = "idle"

\* UpdateRunEventSnapshot: whatever has become of the run.
Snapshot ==
  /\ At("snapshot")
  /\ runs' = [runs EXCEPT ![runner.r].snap = runner.e,
                          ![runner.r].merged = @ \cup {runner.e}]
  /\ raced' = IF Unread(runner.r) THEN raced ELSE raced \cup {runner.r}
  /\ runner' = To("push")
  /\ UNCHANGED <<events, stream, executor, window, batching, faults, cut, dropped>>

\* UpsertDebouncePending: the run of a window that is open stays.
Upsert(f, r) ==
  /\ window' = [window EXCEPT ![f] = IF @ = 0 THEN r ELSE @]
  /\ raced' = IF window[f] = 0 /\ ~ Unread(r) THEN raced \cup {r} ELSE raced

\* The window is written again: also one that the dispatch has closed meanwhile.
Push ==
  /\ At("push")
  /\ Upsert(Fn, runner.r)
  /\ runner' = Done
  /\ UNCHANGED <<events, stream, executor, runs, batching, faults, cut, dropped>>

Enqueue ==
  /\ At("enqueue")
  /\ runs' = [runs EXCEPT ![runner.r].item = "pending"]
  /\ runner' = To("open")
  /\ UNCHANGED <<events, stream, executor, window, batching, faults, cut, dropped, raced>>

\* The window is opened: also one of a run that has been dispatched meanwhile.
OpenWindow ==
  /\ At("open")
  /\ Upsert(Fn, runner.r)
  /\ runner' = Done
  /\ UNCHANGED <<events, stream, executor, runs, batching, faults, cut, dropped>>

-----------------------------------------------------------------------------
(* routeBatched *)

AppendEntry ==
  /\ At("route") /\ runner.todo # <<>> /\ Fn \in Batched
  /\ entries' = [entries EXCEPT ![Fn] = Append(@, runner.e)]
  /\ appended' = [appended EXCEPT ![Fn] = Append(@, runner.e)]
  /\ runner' = IF Len(entries[Fn]) + 1 >= MaxSize THEN To("flush") ELSE Done
  /\ UNCHANGED <<events, stream, executor, runs, window, batches, faults, cut, dropped, raced>>

\* mutant of Batch: the entries that do not fit are not kept for the next one
AllEntries(s) ==
  [out |-> IF Len(s) > MaxSize THEN SubSeq(s, 1, MaxSize) ELSE s, rest |-> <<>>]

\* One batch goes out, what does not fit stays.
Batch(s) ==
  IF Len(s) > MaxSize THEN [out |-> SubSeq(s, 1, MaxSize), rest |-> SubSeq(s, MaxSize + 1, Len(s))]
                      ELSE [out |-> s, rest |-> <<>>]

FlushBatch(f) ==
  /\ batches' = [batches EXCEPT ![f] = Append(@, Batch(entries[f]).out)]
  /\ entries' = [entries EXCEPT ![f] = Batch(@).rest]

FlushOnSize ==
  /\ At("flush")
  /\ FlushBatch(Fn)
  /\ runner' = Done
  /\ UNCHANGED <<events, stream, executor, runs, window, faults, appended, cut, dropped, raced>>

\* scanBatchTimeouts, between two events.
FlushOnTimeout ==
  /\ At("loop") /\ runner.orphans = {}
  /\ \E f \in Batched : entries[f] # <<>> /\ FlushBatch(f)
  /\ UNCHANGED <<intake, executor, runs, window, faults, appended, cut, dropped, raced>>

-----------------------------------------------------------------------------
(* The executor.  A run has one item at most, and so one goroutine. *)

\* mutant of Requeued: what was leased is deleted
ForgetsLeases(expired) ==
  [r \in DOMAIN runs |-> IF r \in expired THEN [runs[r] EXCEPT !.item = "none"] ELSE runs[r]]

Requeued(expired) ==
  [r \in DOMAIN runs |-> IF r \in expired THEN [runs[r] EXCEPT !.item = "pending"] ELSE runs[r]]

\* The goroutine ends, and what it has read is forgotten; what a run was completed with
\* is kept.
Forgets(x) == [x EXCEPT !.pc = "idle", !.sent = IF x.st = "completed" THEN @ ELSE 0]

\* The last call of a dispatch, after n errors: CompleteQueueItem or ReleaseLease, and
\* the run is x.  If that call fails too, or never comes, the item stays leased.
Leave(r, x, item, n) ==
  \E err \in {0, 1} :
    /\ Errors(n + err)
    /\ runs' = [runs EXCEPT ![r] =
         [Forgets(x) EXCEPT !.item = IF err = 0 THEN item ELSE "leased"]]

Lost(r) == dropped' = IF Ended(r) THEN dropped ELSE dropped \cup {r}

\* CompleteRun or FailRun, which change no run that has ended, and CompleteQueueItem,
\* be it that the first one failed.
EndRun(r, st) ==
  \/ /\ Leave(r, [runs[r] EXCEPT !.st = IF Ended(r) THEN @ ELSE st], "none", 0)
     /\ UNCHANGED dropped
  \/ Lost(r) /\ Leave(r, runs[r], "none", 1)

\* The limit of concurrency or the throttle holds the item back, be it that the
\* throttle's window cannot be read (n = 1): it is put back.
HoldBack(r) ==
  /\ executor = "up" /\ runs[r].item = "pending"
  /\ \E n \in {0, 1} : Leave(r, runs[r], "pending", n)
  /\ UNCHANGED <<intake, executor, window, batching, cut, dropped, raced>>

\* The item is leased and the run read: what it is called back with.  A run that
\* cannot be read loses its item, as one that has ended does; one whose function is
\* not registered fails.
Dispatch(r) ==
  /\ executor = "up" /\ runs[r].item = "pending"
  /\ \/ Lost(r) /\ Leave(r, runs[r], "none", 1)
     \/ Ended(r) /\ Leave(r, runs[r], "none", 0) /\ UNCHANGED dropped
     \/ ~ Ended(r) /\ EndRun(r, "stopped")
     \/ /\ ~ Ended(r)
        /\ runs' = [runs EXCEPT ![r].item = "leased", ![r].pc = "close", ![r].sent = runs[r].snap]
        /\ UNCHANGED <<faults, dropped>>
  /\ UNCHANGED <<intake, executor, window, batching, cut, raced>>

\* mutant of Closed: the window stays open
StaysOpen(r) == window

\* DeleteDebouncePendingByRun
Closed(r) == [f \in Debounced |-> IF window[f] = r THEN 0 ELSE window[f]]

\* The windows of the run are closed; an error of that (n = 1) is only logged.  Then the
\* attempt is counted and the run set running: an error of either call puts the item
\* back, a run that has ended loses it.
Close(r) ==
  /\ runs[r].pc = "close"
  /\ \E n \in {0, 1} :
       /\ IF n = 0 THEN window' = Closed(r) /\ UNCHANGED raced
                   ELSE UNCHANGED window /\ raced' = raced \cup {r}
       /\ \/ Leave(r, runs[r], "pending", n + 1)
          \/ Ended(r) /\ Leave(r, runs[r], "none", n)
          \/ ~ Ended(r) /\ Errors(n) /\ runs' = [runs EXCEPT ![r].pc = "call"]
  /\ UNCHANGED <<intake, executor, batching, cut, dropped>>

\* The callback, or one of the reads before it, fails, and there are attempts left.
Retry(r) ==
  /\ runs[r].pc = "call"
  /\ Leave(r, runs[r], "pending", 0)
  /\ UNCHANGED <<intake, executor, window, batching, cut, dropped, raced>>

\* It fails, and there are none left; or it returns, and the run completes.
Return(r) ==
  /\ runs[r].pc = "call"
  /\ EndRun(r, "stopped") \/ EndRun(r, "completed")
  /\ UNCHANGED <<intake, executor, window, batching, cut, raced>>

\* CancelRun, or TimeoutRun of the executor's scan: the run and its pending item, not
\* the window.
End(r) ==
  /\ ~ At("down") /\ ~ Ended(r)
  /\ runs' = [runs EXCEPT ![r].st = "stopped", ![r].item = IF @ = "pending" THEN "none" ELSE @]
  /\ UNCHANGED <<intake, executor, window, batching, faults, cut, dropped, raced>>

-----------------------------------------------------------------------------
\* What was leased stays so, the goroutines are gone.
Crash ==
  /\ ~ At("down") /\ Fault
  /\ stream' = <<>>
  /\ cut' = IF At("enqueue") THEN cut \cup {runner.r} ELSE cut
  /\ runner' = Down /\ executor' = "down"
  /\ runs' = [r \in DOMAIN runs |-> Forgets(runs[r])]
  /\ UNCHANGED <<events, window, batching, dropped, raced>>

\* RequeueExpiredLeases takes back, this once, whichever leases have run out by now.  If
\* it fails, the executor's goroutine ends, and nothing is dispatched till the next start.
Restart ==
  /\ At("down") /\ runner' = To("start")
  /\ \/ /\ \E expired \in SUBSET {r \in DOMAIN runs : runs[r].item = "leased"} :
             runs' = Requeued(expired)
        /\ executor' = "up" /\ UNCHANGED faults
     \/ Fault /\ executor' = "exited" /\ UNCHANGED runs
  /\ UNCHANGED <<events, stream, window, batching, cut, dropped, raced>>

Init ==
  /\ events = <<>> /\ stream = <<>> /\ runner = Down /\ executor = "down" /\ runs = <<>>
  /\ window = [f \in Debounced |-> 0]
  /\ entries = [f \in Batched |-> <<>>] /\ batches = [f \in Batched |-> <<>>]
  /\ faults = 0
  /\ appended = [f \in Batched |-> <<>>] /\ cut = {} /\ dropped = {} /\ raced = {}

Runner ==
  \/ Reconcile \/ Take \/ MarkRouted \/ Lookup \/ Snapshot \/ Push \/ Enqueue \/ OpenWindow
  \/ AppendEntry \/ FlushOnSize
Executor(r) == HoldBack(r) \/ Dispatch(r) \/ Close(r) \/ Retry(r) \/ Return(r)

Next ==
  \/ Send \/ Runner \/ RouteFails \/ FlushOnTimeout
  \/ \E r \in DOMAIN runs : Executor(r) \/ End(r)
  \/ Crash \/ Restart

\* The runner takes what there is, the scan of the batch windows comes every
\* second, the executor goes on with one run or another, no run is retried for ever
\* (its attempts are limited), the process is started again.
Fairness ==
  /\ WF_vars(Runner) /\ SF_vars(FlushOnTimeout) /\ WF_vars(Restart)
  /\ WF_vars(\E r \in DOMAIN runs : Executor(r))
  /\ SF_vars(\E r \in DOMAIN runs : Return(r))
Spec == Init /\ [][Next]_vars /\ Fairness

-----------------------------------------------------------------------------
(* Properties. *)

TypeOK ==
  /\ runner.pc \in {"down", "start", "exited", "loop", "route", "snapshot", "push", "enqueue",
                    "open", "flush"}
  /\ executor \in {"down", "up", "exited"}
  /\ \A e \in DOMAIN events : events[e].name \in Names /\ events[e].st \in {"stored", "routed"}
  /\ \A r \in DOMAIN runs :
       /\ runs[r].st \in {"active", "completed", "stopped"}
       /\ runs[r].item \in {"none", "pending", "leased"}
       /\ runs[r].pc \in {"idle", "close", "call"}
       /\ runs[r].pc # "idle" => runs[r].item = "leased" /\ executor = "up"
       /\ runs[r].snap \in runs[r].merged
       /\ runs[r].pc \in {"close", "call"} \/ runs[r].st = "completed" => runs[r].sent # 0
  /\ \A f \in Debounced : window[f] \in 0 .. Len(runs)
  /\ faults \in 0 .. MaxFaults /\ cut \cup dropped \cup raced \subseteq DOMAIN runs

\* The batches of a function, and what is collected for the next one, are the
\* events in the order in which they were appended, each once; no batch is
\* larger than MaxSize (runner.go:199-246, store.go:816-853).
BatchesInOrder ==
  \A f \in Batched :
    /\ FlattenSeq(batches[f]) \o entries[f] = appended[f]
    /\ \A b \in Range(batches[f]) : Len(b) \in 1 .. MaxSize

\* A run that has not ended has a queue item, pending or leased, over retries,
\* errors, crashes and whatever is routed again; but for one being enqueued, those
\* whose routing was cut there, which no later routing enqueues, and those that an
\* error of GetRun, CompleteRun or FailRun kept from being read or ended, whose item
\* goes all the same (runner.go:293-330, executor.go:172-177, 342-344, 477-499).
QueuedIsEnqueued ==
  \A r \in DOMAIN runs :
    ~ Ended(r) /\ runs[r].item = "none" =>
      r \in cut \cup dropped \/ (At("enqueue") /\ runner.r = r)

\* An open window is one of a run that has not ended and is in the queue, so that
\* what it absorbs can still be executed.  Its exceptions are those in which the code
\* leaves a window open that nobody will close: a run that was cancelled, timed out
\* or failed as its function was not registered; one that could not be read
\* (dropped); one that an event or a window came to beside or after its dispatch, or
\* whose window could not be closed (raced; runner.go:274-329, executor.go:172-214).
WindowIsLive ==
  \A f \in Debounced :
    LET r == window[f] IN
    r # 0 => \/ ~ Ended(r) /\ runs[r].item \in {"pending", "leased"}
             \/ runs[r].st = "stopped" \/ r \in dropped \cup raced

Routed(e, f) == events[e].st = "routed" /\ f \in Range(Subscribers[events[e].name])

\* A debounced run completes with the last event merged into it, a batched event is
\* in a batch; or it is one of the cases in which the code loses an event.
Handled(e, f) ==
  IF f \in Debounced
  THEN \E r \in DOMAIN runs :
         /\ runs[r].fn = f /\ e \in runs[r].merged
         /\ \/ runs[r].st = "completed" /\ runs[r].sent = runs[r].snap
            \/ runs[r].st = "stopped" \/ r \in cut \cup dropped \cup raced
  ELSE \E b \in Range(batches[f]) : e \in Range(b)

\* It waits for the next start: the goroutine that would go on has ended, or the run
\* is left with a lease that had not run out at the last start.
AwaitsStart(e, f) ==
  IF f \in Debounced
  THEN \/ executor = "exited"
       \/ \E r \in DOMAIN runs : /\ runs[r].fn = f /\ e \in runs[r].merged
                                 /\ runs[r].item = "leased" /\ runs[r].pc = "idle"
  ELSE At("exited")

\* With these exceptions, every event that is routed comes to be executed, over
\* retries, errors and crashes (user-guide.md:396-440).  What is routed stays so, and
\* the events are finitely many: from some time on all of them are handled.
AllHandled ==
  <>[](\A e \in DOMAIN events : \A f \in Functions :
         Routed(e, f) => Handled(e, f) \/ AwaitsStart(e, f))
=============================================================================
