----------------------------- MODULE FlowProofs -----------------------------
(***************************************************************************)
(* That the runs of debounced functions are in the queue till they end and *)
(* the open windows are theirs, but for the exceptions the properties      *)
(* name, and that the batches hold the events in order, for all            *)
(* subscribers and every number of events, errors and crashes.             *)
(***************************************************************************)
EXTENDS Flow, NatSets, TLAPS
LOCAL INSTANCE SequencesExt

Pos   == Nat \ {0}
Run   == [of : Pos, fn : Debounced, st : {"active", "completed", "stopped"},
          item : {"none", "pending", "leased"}, pc : {"idle", "close", "call"},
          snap : Pos, sent : Nat, merged : SUBSET Pos]
InRun == {"snapshot", "push", "enqueue", "open"}   \* where the runner works on runner.r

\* What the variables look like.
Event    == [name : Names, st : {"stored", "routed"}]
EventsOK == events \in Seq(Event) /\ stream \in Seq(Pos)
RunnerOK ==
  /\ runner = [pc |-> runner.pc, e |-> runner.e, todo |-> runner.todo, r |-> runner.r,
               orphans |-> runner.orphans]
  /\ runner.pc \in {"down", "start", "exited", "loop", "route", "flush"} \cup InRun
  /\ executor \in {"down", "up", "exited"} /\ (executor = "down" <=> runner.pc = "down")
  /\ runner.orphans \subseteq Pos
  /\ runner.pc \in {"route", "flush"} \cup InRun => runner.e \in Pos
  /\ runner.pc \in InRun => runner.r \in DOMAIN runs /\ Fn \in Debounced
RunsOK ==
  /\ runs \in Seq(Run)
  /\ \A r \in DOMAIN runs :
       /\ runs[r].snap \in runs[r].merged
       /\ runs[r].pc # "idle" => runs[r].item = "leased" /\ executor = "up"
       /\ runs[r].pc # "idle" \/ runs[r].st = "completed" => runs[r].sent # 0
WindowOK == window \in [Debounced -> Nat] /\ \A f \in Debounced : window[f] \in 0 .. Len(runs)
BoundsOK == faults \in 0 .. MaxFaults /\ cut \cup dropped \cup raced \subseteq DOMAIN runs
Shape    == EventsOK /\ RunnerOK /\ RunsOK /\ WindowOK /\ BoundsOK

\* A run being called back has no window any more; one being enqueued no item yet.
Excused(r) == runs[r].st = "stopped" \/ r \in dropped \cup raced
Shut ==
  \A r \in DOMAIN runs :
    runs[r].pc = "call" => Excused(r) \/ \A f \in Debounced : window[f] # r
New  == At("enqueue") => runs[runner.r].item = "none"

Inv == Shape /\ Shut /\ New /\ QueuedIsEnqueued /\ WindowIsLive

-----------------------------------------------------------------------------
(* Steps that change only some of the variables. *)

\* A run that is changed stays in its place among the others.
LEMMA RunBecomes ==
  ASSUME NEW s \in Seq(Run), NEW r \in DOMAIN s, NEW x \in Run, NEW t, t = [s EXCEPT ![r] = x]
  PROVE  /\ t \in Seq(Run) /\ Len(t) = Len(s) /\ DOMAIN t = DOMAIN s /\ t[r] = x
         /\ \A q \in DOMAIN s : q # r => t[q] = s[q]
OBVIOUS

\* An entry of a sequence that is changed, if it is there, leaves the others.
LEMMA EntryBecomes ==
  ASSUME NEW S, NEW s \in Seq(S), NEW k, NEW x \in S
  PROVE  [s EXCEPT ![k] = x] \in Seq(S)
<1>1. DOMAIN s = 1 .. Len(s) /\ Len(s) \in Nat /\ \A i \in DOMAIN s : s[i] \in S
    OBVIOUS
<1>2. [s EXCEPT ![k] = x] = [i \in 1 .. Len(s) |-> IF i = k THEN x ELSE s[i]]
    BY <1>1, Zenon
<1>3. [i \in 1 .. Len(s) |-> IF i = k THEN x ELSE s[i]] \in Seq(S)
    BY <1>1
<1>. QED  BY <1>2, <1>3

\* Initially there is nothing.
LEMMA InitInv == Init => Inv
<1> SUFFICES ASSUME Init PROVE Inv
    OBVIOUS
<1>1. Shape
  <2>1. EventsOK /\ RunsOK /\ RunnerOK
      BY DEF Init, EventsOK, RunsOK, RunnerOK, Down, InRun
  <2>2. WindowOK /\ BoundsOK
      BY FlowAssumption DEF Init, WindowOK, BoundsOK
  <2>. QED  BY <2>1, <2>2 DEF Shape
<1>2. Shut /\ New /\ QueuedIsEnqueued /\ WindowIsLive
    BY DEF Init, Shut, New, QueuedIsEnqueued, WindowIsLive, At, Down
<1>. QED  BY <1>1, <1>2 DEF Inv

\* Steps of the runner that leave runs and windows alone.
Aside == Send \/ Reconcile \/ Take \/ MarkRouted \/ AppendEntry \/ FlushOnSize \/ FlushOnTimeout

LEMMA AsideInv == Inv /\ Aside => Inv'
<1> SUFFICES ASSUME Inv, Aside PROVE Inv'
    OBVIOUS
<1> USE DEF Inv, Shape
<1>1. UNCHANGED <<executor, runs, window, cut, dropped, raced>> /\ faults' \in 0 .. MaxFaults
  <2>1. faults \in 0 .. MaxFaults
      BY DEF BoundsOK
  <2>. QED  BY <2>1, FlowAssumption DEF Aside, Send, Reconcile, Take, MarkRouted, AppendEntry,
              FlushOnSize, FlushOnTimeout, Fault, Errors, intake
<1>2. runner' = runner \/ (/\ runner'.pc \in {"exited", "loop", "route", "flush"}
                          /\ runner.pc \notin InRun \cup {"down"})
  <2>1. CASE Send \/ FlushOnTimeout
      BY <2>1 DEF Send, FlushOnTimeout, intake
  <2>2. CASE Reconcile
      BY <2>2 DEF Reconcile, RunnerOK, At, To, InRun
  <2>3. CASE Take
      BY <2>3 DEF Take, Route, RunnerOK, At, InRun
  <2>4. CASE MarkRouted \/ AppendEntry \/ FlushOnSize
      BY <2>4 DEF MarkRouted, AppendEntry, FlushOnSize, RunnerOK, At, To, Done, InRun
  <2>. QED  BY <2>1, <2>2, <2>3, <2>4 DEF Aside
<1>3. EventsOK'
  <2>1. CASE Send
    <3>1. events' \in Seq(Event)
        BY <2>1 DEF Send, EventsOK, Event
    <3>2. Len(events) + 1 \in Pos
        BY DEF EventsOK, Pos
    <3>. QED  BY <2>1, <3>1, <3>2 DEF Send, EventsOK
  <2>2. CASE Take
      BY <2>2 DEF Take, EventsOK
  <2>3. CASE MarkRouted
    <3> DEFINE x == [events[runner.e] EXCEPT !.st = "routed"]
    <3>1. events' = [events EXCEPT ![runner.e] = x] /\ UNCHANGED stream
        BY <2>3 DEF MarkRouted
    <3>2. CASE runner.e \in DOMAIN events
      <4>1. events[runner.e] \in Event
          BY <3>2 DEF EventsOK
      <4>2. x \in Event
          BY <4>1 DEF Event
      <4> HIDE DEF x
      <4>. QED  BY <3>1, <4>2, EntryBecomes DEF EventsOK
    <3>3. CASE runner.e \notin DOMAIN events
      <4>1. events = [i \in DOMAIN events |-> events[i]]
          BY DEF EventsOK
      <4> HIDE DEF x
      <4>2. [events EXCEPT ![runner.e] = x] = [i \in DOMAIN events |-> events[i]]
          BY <3>3
      <4>. QED  BY <3>1, <4>1, <4>2 DEF EventsOK
    <3>. QED  BY <3>2, <3>3
  <2>4. CASE Reconcile \/ AppendEntry \/ FlushOnSize \/ FlushOnTimeout
      BY <2>4 DEF Reconcile, AppendEntry, FlushOnSize, FlushOnTimeout, EventsOK, intake
  <2>. QED  BY <2>1, <2>2, <2>3, <2>4 DEF Aside
<1>4. RunnerOK'
  <2>1. CASE Send \/ FlushOnTimeout
      BY <1>1, <2>1 DEF Send, FlushOnTimeout, RunnerOK, Fn, intake
  <2>2. CASE Reconcile
    <3>1. {e \in DOMAIN events : events[e].st = "stored"} \subseteq Pos
        BY DEF EventsOK, Pos
    <3>2. PICK pc \in {"loop", "exited"}, o \in SUBSET Pos :
            runner' = [pc |-> pc, e |-> runner.e, todo |-> runner.todo, r |-> runner.r,
                       orphans |-> o]
        BY <2>2, <3>1 DEF Reconcile, RunnerOK, To
    <3>3. executor # "down"
        BY <2>2 DEF Reconcile, RunnerOK, At
    <3>. QED  BY <1>1, <3>2, <3>3 DEF RunnerOK, InRun
  <2>3. CASE Take
    <3>1. PICK e \in Pos, o \in SUBSET Pos :
            runner' = [pc |-> "route", e |-> e, todo |-> Subscribers[events[e].name],
                       r |-> runner.r, orphans |-> o]
      <4>1. CASE \E e \in runner.orphans : runner' = [Route(e) EXCEPT !.orphans = @ \ {e}]
        <5>1. PICK e \in runner.orphans : runner' = [Route(e) EXCEPT !.orphans = @ \ {e}]
            BY <4>1
        <5>. QED  BY <5>1 DEF Route, RunnerOK
      <4>2. CASE stream # <<>> /\ runner' = Route(Head(stream))
        <5>1. Head(stream) \in Pos
            BY <4>2 DEF EventsOK
        <5>2. runner.orphans \in SUBSET Pos
            BY DEF RunnerOK
        <5>3. runner' = [pc |-> "route", e |-> Head(stream),
                         todo |-> Subscribers[events[Head(stream)].name], r |-> runner.r,
                         orphans |-> runner.orphans]
            BY <4>2 DEF Route, RunnerOK
        <5>. QED  BY <5>1, <5>2, <5>3
      <4>. QED  BY <2>3, <4>1, <4>2 DEF Take
    <3>2. executor # "down"
        BY <2>3 DEF Take, RunnerOK, At
    <3>. QED  BY <1>1, <3>1, <3>2 DEF RunnerOK, InRun
  <2>4. CASE MarkRouted \/ AppendEntry \/ FlushOnSize
    <3>1. CASE MarkRouted
        BY <1>1, <3>1 DEF MarkRouted, RunnerOK, To, At, InRun
    <3>2. CASE AppendEntry /\ runner' = To("flush")
        BY <1>1, <3>2 DEF AppendEntry, RunnerOK, To, At, InRun
    <3>3. CASE runner' = Done /\ runner.pc \in {"route", "flush"}
        BY <1>1, <3>3 DEF RunnerOK, Done, InRun
    <3>. QED  BY <2>4, <3>1, <3>2, <3>3 DEF AppendEntry, FlushOnSize, At
  <2>. QED  BY <2>1, <2>2, <2>3, <2>4 DEF Aside
<1>5. (RunsOK /\ WindowOK /\ BoundsOK /\ Shut)'
    BY <1>1 DEF RunsOK, WindowOK, BoundsOK, Shut, Excused
<1>6. (New /\ QueuedIsEnqueued /\ WindowIsLive)'
    BY <1>1, <1>2 DEF New, QueuedIsEnqueued, WindowIsLive, Ended, At, InRun
<1>. QED  BY <1>3, <1>4, <1>5, <1>6

-----------------------------------------------------------------------------
(* The steps of routeDebounced. *)

\* The window leads to its run, or a new run is appended.
LEMMA LookupInv == Inv /\ Lookup => Inv'
<1> SUFFICES ASSUME Inv, Lookup PROVE Inv'
    OBVIOUS
<1> USE DEF Inv, Shape
<1>1. /\ UNCHANGED <<events, stream, executor, window, faults, cut, dropped, raced>>
      /\ At("route") /\ Fn \in Debounced
    BY DEF Lookup
<1>2. CASE window[Fn] # 0
  <2>1. UNCHANGED runs /\ runner' = [pc |-> "snapshot", e |-> runner.e, todo |-> runner.todo,
                                    r |-> window[Fn], orphans |-> runner.orphans]
      BY <1>2 DEF Lookup, To, RunnerOK
  <2>2. window[Fn] \in DOMAIN runs
      BY <1>1, <1>2 DEF WindowOK, RunsOK
  <2>3. RunnerOK' /\ EventsOK'
      BY <1>1, <2>1, <2>2 DEF RunnerOK, EventsOK, At, Fn, InRun
  <2>4. (RunsOK /\ WindowOK /\ BoundsOK /\ Shut)'
      BY <1>1, <2>1 DEF RunsOK, WindowOK, BoundsOK, Shut, Excused
  <2>5. (New /\ QueuedIsEnqueued /\ WindowIsLive)'
      BY <1>1, <2>1 DEF New, QueuedIsEnqueued, WindowIsLive, Ended, At
  <2>. QED  BY <2>3, <2>4, <2>5
<1>3. CASE UNCHANGED runs /\ runner' = Done
  <2>1. runner' = [pc |-> "route", e |-> runner.e, todo |-> Tail(runner.todo), r |-> 0,
                   orphans |-> runner.orphans]
      BY <1>3 DEF Done, RunnerOK
  <2>2. RunnerOK' /\ EventsOK'
      BY <1>1, <2>1 DEF RunnerOK, EventsOK, At, InRun
  <2>3. (RunsOK /\ WindowOK /\ BoundsOK /\ Shut)'
      BY <1>1, <1>3 DEF RunsOK, WindowOK, BoundsOK, Shut, Excused
  <2>4. (New /\ QueuedIsEnqueued /\ WindowIsLive)'
      BY <1>1, <1>3, <2>1 DEF New, QueuedIsEnqueued, WindowIsLive, Ended, At
  <2>. QED  BY <2>2, <2>3, <2>4
<1>4. CASE /\ runs' = Append(runs, NewRun(runner.e))
           /\ runner' = [To("enqueue") EXCEPT !.r = Len(runs) + 1]
  <2> DEFINE new == Len(runs) + 1
  <2>1. runner' = [pc |-> "enqueue", e |-> runner.e, todo |-> runner.todo, r |-> new,
                   orphans |-> runner.orphans]
      BY <1>4 DEF To, RunnerOK
  <2>2. NewRun(runner.e) \in Run
      BY <1>1 DEF NewRun, Run, RunnerOK, At
  <2>3. /\ runs' \in Seq(Run) /\ Len(runs') = new /\ DOMAIN runs' = DOMAIN runs \cup {new}
        /\ new \notin DOMAIN runs /\ runs'[new] = NewRun(runner.e)
        /\ \A r \in DOMAIN runs : runs'[r] = runs[r]
      BY <1>4, <2>2 DEF RunsOK
  <2>4. RunnerOK' /\ EventsOK'
      BY <1>1, <2>1, <2>3 DEF RunnerOK, EventsOK, At, Fn, InRun
  <2>5. RunsOK' /\ Shut' /\ New'
    <3>1. NewRun(runner.e).snap \in NewRun(runner.e).merged
        BY DEF NewRun
    <3>. QED  BY <1>1, <2>1, <2>3, <3>1 DEF RunsOK, Shut, Excused, New, At, NewRun
  <2>6. WindowOK' /\ BoundsOK'
    <3>1. Len(runs) \in Nat /\ Len(runs') = Len(runs) + 1
        BY <2>3 DEF RunsOK
    <3>. QED  BY <1>1, <2>3, <3>1 DEF WindowOK, BoundsOK
  <2>7. QueuedIsEnqueued'
      BY <1>1, <2>1, <2>3 DEF QueuedIsEnqueued, Ended, At
  <2>8. WindowIsLive'
    <3>1. \A f \in Debounced : window[f] # 0 => window[f] \in DOMAIN runs
        BY DEF WindowOK, RunsOK
    <3>. QED  BY <1>1, <2>3, <3>1 DEF WindowIsLive, Ended
  <2>. QED  BY <2>4, <2>5, <2>6, <2>7, <2>8
<1>. QED  BY <1>2, <1>3, <1>4 DEF Lookup

\* The event is merged into the run of the window.
LEMMA SnapshotInv == Inv /\ Snapshot => Inv'
<1> SUFFICES ASSUME Inv, Snapshot PROVE Inv'
    OBVIOUS
<1> USE DEF Inv, Shape
<1> DEFINE x == [runs[runner.r] EXCEPT !.snap = runner.e, !.merged = @ \cup {runner.e}]
<1>1. /\ UNCHANGED <<events, stream, executor, window, faults, cut, dropped>> /\ At("snapshot")
      /\ raced \subseteq raced' /\ raced' \subseteq raced \cup {runner.r}
    BY DEF Snapshot
<1>2. runner.r \in DOMAIN runs /\ runner.e \in Pos /\ Fn \in Debounced
    BY <1>1 DEF RunnerOK, At, InRun
<1>3. runs[runner.r] \in Run
    BY <1>2 DEF RunsOK
<1>4. /\ x \in Run /\ x.st = runs[runner.r].st /\ x.item = runs[runner.r].item
      /\ x.sent = runs[runner.r].sent /\ x.pc = runs[runner.r].pc /\ x.snap \in x.merged
    BY <1>2, <1>3 DEF Run
<1>5. runs' = [runs EXCEPT ![runner.r] = x]
    BY DEF Snapshot
<1> HIDE DEF x
<1>6. /\ runs' \in Seq(Run) /\ Len(runs') = Len(runs) /\ DOMAIN runs' = DOMAIN runs
      /\ runs'[runner.r] = x /\ \A q \in DOMAIN runs : q # runner.r => runs'[q] = runs[q]
    BY <1>2, <1>4, <1>5, RunBecomes DEF RunsOK
<1>7. \A q \in DOMAIN runs : 
       runs'[q].st = runs[q].st /\ runs'[q].item = runs[q].item /\ runs'[q].pc = runs[q].pc
    BY <1>4, <1>6
<1>8. runner' = [pc |-> "push", e |-> runner.e, todo |-> runner.todo, r |-> runner.r,
                 orphans |-> runner.orphans]
    BY DEF Snapshot, To, RunnerOK
<1>9. RunnerOK' /\ EventsOK'
    BY <1>1, <1>2, <1>6, <1>8 DEF RunnerOK, EventsOK, Fn, InRun, At
<1>10. RunsOK' /\ WindowOK' /\ BoundsOK'
  <2>1. RunsOK'
      BY <1>1, <1>4, <1>6 DEF RunsOK
  <2>2. WindowOK' /\ BoundsOK'
      BY <1>1, <1>2, <1>6 DEF WindowOK, BoundsOK
  <2>. QED  BY <2>1, <2>2
<1>11. Shut' /\ New'
    BY <1>1, <1>6, <1>7, <1>8 DEF Shut, Excused, New, At
<1>12. QueuedIsEnqueued'
    BY <1>1, <1>6, <1>7, <1>8 DEF QueuedIsEnqueued, Ended, At
<1>13. WindowIsLive'
  <2>1. \A f \in Debounced : window[f] # 0 => window[f] \in DOMAIN runs
      BY DEF WindowOK, RunsOK
  <2>. QED  BY <1>1, <1>7, <2>1 DEF WindowIsLive, Ended
<1>. QED  BY <1>9, <1>10, <1>11, <1>12, <1>13

\* A window is written, for a run that is still unread or raced.
LEMMA WindowWritten == Inv /\ (Push \/ OpenWindow) => Inv'
<1> SUFFICES ASSUME Inv, Push \/ OpenWindow PROVE Inv'
    OBVIOUS
<1> USE DEF Inv, Shape
<1>1. /\ UNCHANGED <<events, stream, executor, runs, faults, cut, dropped>>
      /\ runner.pc \in InRun \ {"enqueue"} /\ Upsert(Fn, runner.r)
    BY DEF Push, OpenWindow, At, InRun
<1>10. raced \subseteq raced' /\ raced' \subseteq raced \cup {runner.r}
    BY <1>1 DEF Upsert
<1>2. runner.r \in DOMAIN runs /\ Fn \in Debounced
    BY <1>1 DEF RunnerOK
<1>3. window' = window \/ (/\ window' = [window EXCEPT ![Fn] = runner.r]
                           /\ runner.r \in raced' \/ Unread(runner.r))
  <2>1. CASE window[Fn] = 0
      BY <1>1, <2>1 DEF Upsert
  <2>2. CASE window[Fn] # 0
      BY <1>1, <1>2, <2>2 DEF Upsert, WindowOK
  <2>. QED  BY <2>1, <2>2
<1>4. runner' = [pc |-> "route", e |-> runner.e, todo |-> Tail(runner.todo), r |-> 0,
                 orphans |-> runner.orphans]
    BY DEF Push, OpenWindow, Done, RunnerOK
<1>5. RunnerOK' /\ EventsOK'
    BY <1>1, <1>4 DEF RunnerOK, EventsOK, InRun
<1>6. RunsOK' /\ New' /\ BoundsOK'
    BY <1>1, <1>2, <1>4, <1>10 DEF RunsOK, New, At, BoundsOK
<1>11. Shut'
    BY <1>1, <1>2, <1>3, <1>10 DEF Shut, Excused, WindowOK, Unread
<1>7. WindowOK'
    BY <1>1, <1>2, <1>3 DEF WindowOK, RunsOK
<1>8. QueuedIsEnqueued'
    BY <1>1, <1>4 DEF QueuedIsEnqueued, Ended, At, InRun
<1>9. WindowIsLive'
  <2>1. runs[runner.r] \in Run
      BY <1>2 DEF RunsOK
  <2>. QED  BY <1>1, <1>2, <1>3, <1>10, <2>1 DEF WindowIsLive, WindowOK, Unread, Ended, Run
<1>. QED  BY <1>5, <1>6, <1>7, <1>8, <1>9, <1>11

\* The run comes to the queue.
LEMMA EnqueueInv == Inv /\ Enqueue => Inv'
<1> SUFFICES ASSUME Inv, Enqueue PROVE Inv'
    OBVIOUS
<1> USE DEF Inv, Shape
<1> DEFINE x == [runs[runner.r] EXCEPT !.item = "pending"]
<1>1. /\ UNCHANGED <<events, stream, executor, window, faults, cut, dropped, raced>>
      /\ At("enqueue")
    BY DEF Enqueue
<1>2. runner.r \in DOMAIN runs /\ runner.e \in Pos /\ Fn \in Debounced
    BY <1>1 DEF RunnerOK, At, InRun
<1>3. runs[runner.r] \in Run
    BY <1>2 DEF RunsOK
<1>4. /\ x \in Run /\ x.st = runs[runner.r].st /\ x.item = "pending" /\ x.snap = runs[runner.r].snap
      /\ x.merged = runs[runner.r].merged /\ x.st = runs[runner.r].st
      /\ x.sent = runs[runner.r].sent /\ x.pc = runs[runner.r].pc
    BY <1>3 DEF Run
<1>5. runs' = [runs EXCEPT ![runner.r] = x]
    BY DEF Enqueue
<1> HIDE DEF x
<1>6. /\ runs' \in Seq(Run) /\ Len(runs') = Len(runs) /\ DOMAIN runs' = DOMAIN runs
      /\ runs'[runner.r] = x /\ \A q \in DOMAIN runs : q # runner.r => runs'[q] = runs[q]
    BY <1>2, <1>4, <1>5, RunBecomes DEF RunsOK
<1>7. runner' = [pc |-> "open", e |-> runner.e, todo |-> runner.todo, r |-> runner.r,
                 orphans |-> runner.orphans]
    BY DEF Enqueue, To, RunnerOK
<1>8. RunnerOK' /\ EventsOK'
    BY <1>1, <1>2, <1>6, <1>7 DEF RunnerOK, EventsOK, Fn, InRun, At
<1>9. runs[runner.r].item = "none" /\ runs[runner.r].pc = "idle"
    BY <1>1, <1>2 DEF New, RunsOK
<1>10. RunsOK'
    BY <1>1, <1>4, <1>6, <1>9 DEF RunsOK
<1>11. WindowOK' /\ BoundsOK'
    BY <1>1, <1>6 DEF WindowOK, BoundsOK
<1>12. Shut' /\ New'
    BY <1>1, <1>4, <1>6, <1>7, <1>9 DEF Shut, Excused, New, At
<1>13. QueuedIsEnqueued'
    BY <1>1, <1>4, <1>6, <1>7 DEF QueuedIsEnqueued, Ended, At
<1>14. WindowIsLive'
  <2>1. \A f \in Debounced : window[f] # 0 => window[f] \in DOMAIN runs
      BY DEF WindowOK, RunsOK
  <2>. QED  BY <1>1, <1>4, <1>6, <2>1 DEF WindowIsLive, Ended
<1>. QED  BY <1>8, <1>10, <1>11, <1>12, <1>13, <1>14

\* The routing of an event ends with an error.
LEMMA RouteFailsInv == Inv /\ RouteFails => Inv'
<1> SUFFICES ASSUME Inv, RouteFails PROVE Inv'
    OBVIOUS
<1> USE DEF Inv, Shape
<1>1. UNCHANGED <<events, stream, executor, runs, window, dropped, raced>>
    BY DEF RouteFails
<1>2. cut' = IF At("enqueue") THEN cut \cup {runner.r} ELSE cut
    BY DEF RouteFails
<1>3. faults' \in 0 .. MaxFaults
    BY FlowAssumption DEF RouteFails, Fault, Errors, BoundsOK
<1>4. runner' = [pc |-> "loop", e |-> 0, todo |-> <<>>, r |-> 0, orphans |-> runner.orphans]
    BY DEF RouteFails, Down
<1>5. runner.pc # "down" /\ runner.orphans \subseteq Pos
    BY DEF RouteFails, RunnerOK
<1>6. RunnerOK' /\ EventsOK'
    BY <1>1, <1>4, <1>5 DEF RunnerOK, EventsOK, InRun
<1>7. (RunsOK /\ WindowOK /\ Shut /\ New)'
    BY <1>1, <1>4 DEF RunsOK, WindowOK, Shut, Excused, New, At
<1>8. BoundsOK'
    BY <1>1, <1>2, <1>3 DEF BoundsOK, RunnerOK, At, InRun
<1>9. QueuedIsEnqueued' /\ WindowIsLive'
    BY <1>1, <1>2 DEF QueuedIsEnqueued, WindowIsLive, Ended
<1>. QED  BY <1>6, <1>7, <1>8, <1>9

-----------------------------------------------------------------------------
(* The steps of the executor and of an operator. *)

\* A run that is taken up by the executor, put back, or ended changes so that it does
\* not hurt the others.
LEMMA RunMoves ==
  ASSUME Inv, NEW r \in DOMAIN runs, NEW x \in Run,
         x.snap \in x.merged, x.pc # "idle" => x.item = "leased" /\ executor = "up",
         x.pc # "idle" \/ x.st = "completed" => x.sent # 0,
         x.st = "active" /\ x.item = "none" =>
           r \in dropped' \/ (runs[r].item = "none" /\ runs[r].st = "active"),
         \/ x.st = "active" /\ x.item # "none" /\ x.pc # "call"
         \/ x.st = "stopped" \/ r \in dropped' \cup raced'
         \/ \A f \in Debounced : window'[f] # r,
         At("enqueue") /\ runner.r = r => x.item = "none",
         runs' = [runs EXCEPT ![r] = x],
         UNCHANGED <<events, stream, runner, executor, cut>>,
         raced' \in {raced, raced \cup {r}}, dropped' \in {dropped, dropped \cup {r}},
         faults' \in 0 .. MaxFaults,
         window' \in [Debounced -> Nat], \A f \in Debounced : window'[f] \in {0, window[f]}
  PROVE  Inv'
<1> USE DEF Inv, Shape
<1>1. /\ runs' \in Seq(Run) /\ Len(runs') = Len(runs) /\ DOMAIN runs' = DOMAIN runs
      /\ runs'[r] = x /\ \A q \in DOMAIN runs : q # r => runs'[q] = runs[q]
    BY RunBecomes DEF RunsOK
<1>2. EventsOK' /\ RunnerOK'
    BY <1>1 DEF EventsOK, RunnerOK, Fn
<1>3. RunsOK' /\ BoundsOK'
    BY <1>1 DEF RunsOK, BoundsOK
<1>4. \A f \in Debounced : window[f] \in 0 .. Len(runs)
    BY DEF WindowOK
<1>5. 0 \notin DOMAIN runs
    BY DEF RunsOK
<1>6. Shut' /\ New'
  <2>1. Shut'
      BY <1>1, <1>5 DEF Shut, Excused
  <2>2. New'
      BY <1>1 DEF New, At, RunnerOK, InRun
  <2>. QED  BY <2>1, <2>2
<1>7. QueuedIsEnqueued'
    BY <1>1 DEF QueuedIsEnqueued, Ended, At, Run
<1>8. WindowIsLive'
  <2>1. \A f \in Debounced : window[f] # 0 => window[f] \in DOMAIN runs
      BY <1>4 DEF RunsOK
  <2>2. SUFFICES ASSUME NEW f \in Debounced, window'[f] # 0
                 PROVE  \/ ~ Ended(window[f])' /\ runs'[window'[f]].item \in {"pending", "leased"}
                        \/ runs'[window'[f]].st = "stopped" \/ window'[f] \in dropped' \cup raced'
      BY DEF WindowIsLive
  <2>3. window'[f] = window[f] /\ window[f] \in DOMAIN runs
      BY <2>1, <2>2
  <2>4. CASE window[f] = r
      BY <1>1, <2>2, <2>3, <2>4 DEF Ended, Run
  <2>5. CASE window[f] # r
      BY <1>1, <2>3, <2>5 DEF WindowIsLive, Ended
  <2>. QED  BY <2>4, <2>5
<1>9. WindowOK'
  <2>1. Len(runs) \in Nat
      BY DEF RunsOK
  <2>2. ASSUME NEW f \in Debounced PROVE window'[f] \in 0 .. Len(runs')
    <3>1. window[f] \in 0 .. Len(runs) /\ window'[f] \in {0, window[f]}
        BY <1>4
    <3>. QED  BY <1>1, <2>1, <3>1
  <2>. QED  BY <2>2 DEF WindowOK
<1>. QED  BY <1>2, <1>3, <1>6, <1>7, <1>8, <1>9

\* A run that its dispatch leaves: with the item it is left, or a lease.
LEMMA LeaveMakes ==
  ASSUME Inv, NEW r \in DOMAIN runs, NEW x \in Run, NEW item \in {"none", "pending"}, NEW n \in Nat,
         Leave(r, x, item, n)
  PROVE  /\ faults' \in 0 .. MaxFaults
         /\ \E y \in Run :
              /\ runs' = [runs EXCEPT ![r] = y] /\ y.pc = "idle" /\ y.item \in {item, "leased"}
              /\ y.st = x.st /\ y.snap = x.snap /\ y.merged = x.merged
              /\ y.st = "completed" => y.sent = x.sent
<1>1. PICK err \in {0, 1} :
        /\ Errors(n + err)
        /\ runs' = [runs EXCEPT ![r] =
             [Forgets(x) EXCEPT !.item = IF err = 0 THEN item ELSE "leased"]]
    BY DEF Leave
<1>2. faults' \in 0 .. MaxFaults
  <2>1. faults \in 0 .. MaxFaults
      BY DEF Inv, Shape, BoundsOK
  <2>. QED  BY <1>1, <2>1, FlowAssumption DEF Errors
<1> DEFINE y == [Forgets(x) EXCEPT !.item = IF err = 0 THEN item ELSE "leased"]
<1>3. /\ y \in Run /\ y.pc = "idle" /\ y.item \in {item, "leased"}
      /\ y.st = x.st /\ y.snap = x.snap /\ y.merged = x.merged
      /\ y.st = "completed" => y.sent = x.sent
    BY DEF Forgets, Run
<1> HIDE DEF y
<1>4. runs' = [runs EXCEPT ![r] = y]
    BY <1>1 DEF y
<1>. QED  BY <1>2, <1>3, <1>4

\* What the executor leaves alone while it works on a run.
Apart == UNCHANGED <<intake, executor, batching, cut>>

\* A dispatch ends, with the run as it was or ended, and the window as it was or closed.
LEMMA LeaveInv ==
  ASSUME Inv, Apart, NEW r \in DOMAIN runs, NEW x \in Run, NEW item \in {"none", "pending"},
         NEW n \in Nat, Leave(r, x, item, n),
         runs[r].item # "none", x.snap \in x.merged, x.st = "completed" => x.sent # 0,
         x.st = "active" /\ item = "none" => r \in dropped',
         x.st = "completed" => \/ r \in dropped' \cup raced'
                               \/ \A f \in Debounced : window'[f] # r,
         raced' \in {raced, raced \cup {r}}, dropped' \in {dropped, dropped \cup {r}},
         window' \in {window, Closed(r)}
  PROVE  Inv'
<1>1. PICK y \in Run :
        /\ runs' = [runs EXCEPT ![r] = y] /\ y.pc = "idle" /\ y.item \in {item, "leased"}
        /\ y.st = x.st /\ y.snap = x.snap /\ y.merged = x.merged
        /\ y.st = "completed" => y.sent = x.sent
    BY LeaveMakes
<1>2. faults' \in 0 .. MaxFaults
    BY LeaveMakes
<1>3. window \in [Debounced -> Nat] /\ r # 0
    BY DEF Inv, Shape, WindowOK, RunsOK
<1>4. window' \in [Debounced -> Nat] /\ \A f \in Debounced : window'[f] \in {0, window[f]}
    BY <1>3 DEF Closed
<1>5. ~ (At("enqueue") /\ runner.r = r)
    BY DEF Inv, New
<1>6. UNCHANGED <<events, stream, runner, executor, cut>>
    BY DEF Apart, intake
<1>7. y.st \in {"active", "completed", "stopped"}
    BY DEF Run
<1>8. \/ y.st = "active" /\ y.item # "none" /\ y.pc # "call"
      \/ y.st = "stopped" \/ r \in dropped' \cup raced'
      \/ \A f \in Debounced : window'[f] # r
    BY <1>1, <1>7
<1>9. y.st = "active" /\ y.item = "none" => r \in dropped'
    BY <1>1
<1>. QED  BY <1>1, <1>2, <1>4, <1>5, <1>6, <1>8, <1>9, RunMoves

\* A run that has completed and still has a window is one of the exceptions.
LEMMA Completed ==
  ASSUME Inv, NEW r \in DOMAIN runs, runs[r].st = "completed"
  PROVE  r \in dropped \cup raced \/ \A f \in Debounced : window[f] # r
<1>1. r # 0
    BY DEF Inv, Shape, RunsOK
<1>. QED  BY <1>1 DEF Inv, WindowIsLive, Ended

\* A run is ended, or its end fails.
LEMMA EndRunInv ==
  ASSUME Inv, Apart, NEW r \in DOMAIN runs, NEW st \in {"completed", "stopped"}, EndRun(r, st),
         runs[r].item # "none", st = "completed" => runs[r].pc = "call",
         UNCHANGED <<window, raced>>
  PROVE  Inv'
<1> DEFINE x == [runs[r] EXCEPT !.st = IF Ended(r) THEN @ ELSE st]
<1>1. /\ runs[r] \in Run /\ runs[r].snap \in runs[r].merged
      /\ runs[r].pc # "idle" \/ runs[r].st = "completed" => runs[r].sent # 0
    BY DEF Inv, Shape, RunsOK
<1>2. /\ x \in Run /\ x.st = (IF Ended(r) THEN runs[r].st ELSE st) /\ x.snap = runs[r].snap
      /\ x.merged = runs[r].merged /\ x.sent = runs[r].sent
    BY <1>1 DEF Run
<1>3. runs[r].pc = "call" => Excused(r) \/ \A f \in Debounced : window[f] # r
    BY DEF Inv, Shut
<1>4. CASE Leave(r, x, "none", 0) /\ UNCHANGED dropped
  <2> HIDE DEF x
  <2>1. x.st # "active"
      BY <1>2 DEF Ended
  <2>2. x.st = "completed" => r \in dropped \cup raced \/ \A f \in Debounced : window[f] # r
    <3>1. CASE runs[r].st = "completed"
        BY <3>1, Completed
    <3>2. CASE runs[r].st # "completed"
        BY <1>2, <1>3, <3>2 DEF Ended, Excused
    <3>. QED  BY <3>1, <3>2
  <2>3. x.st = "completed" => x.sent # 0
      BY <1>1, <1>2
  <2>. QED  BY <1>1, <1>2, <1>4, <2>1, <2>2, <2>3, LeaveInv
<1>5. CASE Lost(r) /\ Leave(r, runs[r], "none", 1)
    BY <1>1, <1>5, Completed, LeaveInv DEF Lost, Ended
<1>. QED  BY <1>4, <1>5 DEF EndRun

LEMMA HoldBackInv == ASSUME Inv, NEW r \in DOMAIN runs, HoldBack(r) PROVE Inv'
<1>1. /\ runs[r] \in Run /\ runs[r].item # "none" /\ runs[r].snap \in runs[r].merged
      /\ runs[r].st = "completed" => runs[r].sent # 0
    BY DEF Inv, Shape, RunsOK, HoldBack
<1>2. Apart /\ UNCHANGED <<window, dropped, raced>>
    BY DEF HoldBack, Apart
<1>3. PICK n \in {0, 1} : Leave(r, runs[r], "pending", n)
    BY DEF HoldBack
<1>4. n \in Nat
    OBVIOUS
<1>. QED  BY <1>1, <1>2, <1>3, <1>4, Completed, LeaveInv

LEMMA DispatchInv == ASSUME Inv, NEW r \in DOMAIN runs, Dispatch(r) PROVE Inv'
<1>1. /\ runs[r] \in Run /\ runs[r].item = "pending" /\ runs[r].snap \in runs[r].merged
      /\ runs[r].st = "completed" => runs[r].sent # 0
    BY DEF Inv, Shape, RunsOK, Dispatch
<1>2. Apart /\ UNCHANGED <<window, raced>> /\ executor = "up"
    BY DEF Dispatch, Apart
<1>3. CASE Lost(r) /\ Leave(r, runs[r], "none", 1)
    BY <1>1, <1>2, <1>3, Completed, LeaveInv DEF Lost, Ended
<1>4. CASE Ended(r) /\ Leave(r, runs[r], "none", 0) /\ UNCHANGED dropped
    BY <1>1, <1>2, <1>4, Completed, LeaveInv DEF Ended
<1>5. CASE EndRun(r, "stopped")
    BY <1>1, <1>2, <1>5, EndRunInv
<1>6. CASE /\ ~ Ended(r)
           /\ runs' = [runs EXCEPT ![r].item = "leased", ![r].pc = "close", ![r].sent = runs[r].snap]
           /\ UNCHANGED <<faults, dropped>>
  <2> DEFINE x == [runs[r] EXCEPT !.item = "leased", !.pc = "close", !.sent = runs[r].snap]
  <2>1. /\ x \in Run /\ x.st = "active" /\ x.item = "leased" /\ x.pc = "close" /\ x.sent # 0
        /\ x.snap = runs[r].snap /\ x.merged = runs[r].merged
      BY <1>1, <1>6 DEF Run, Pos, Ended
  <2>2. runs' = [runs EXCEPT ![r] = x]
      BY <1>6
  <2> HIDE DEF x
  <2>3. ~ (At("enqueue") /\ runner.r = r)
      BY <1>1 DEF Inv, New
  <2>4. /\ UNCHANGED <<events, stream, runner, executor, cut>>
        /\ window \in [Debounced -> Nat] /\ faults \in 0 .. MaxFaults
      BY <1>2 DEF Apart, intake, Inv, Shape, WindowOK, BoundsOK
  <2>. QED  BY <1>1, <1>2, <1>6, <2>1, <2>2, <2>3, <2>4, RunMoves
<1>. QED  BY <1>3, <1>4, <1>5, <1>6 DEF Dispatch

\* What a goroutine of the executor knows of its run.
LEMMA Working ==
  ASSUME Inv, NEW r \in DOMAIN runs, runs[r].pc # "idle"
  PROVE  /\ runs[r] \in Run /\ runs[r].item = "leased" /\ executor = "up"
         /\ runs[r].snap \in runs[r].merged /\ runs[r].sent # 0
         /\ ~ (At("enqueue") /\ runner.r = r)
BY DEF Inv, Shape, RunsOK, New

LEMMA CloseInv == ASSUME Inv, NEW r \in DOMAIN runs, Close(r) PROVE Inv'
<1>1. runs[r].pc = "close" /\ Apart /\ UNCHANGED dropped
    BY DEF Close, Apart
<1>2. /\ runs[r] \in Run /\ runs[r].item = "leased" /\ executor = "up"
      /\ runs[r].snap \in runs[r].merged /\ runs[r].sent # 0
      /\ ~ (At("enqueue") /\ runner.r = r)
    BY <1>1, Working
<1>3. PICK n \in {0, 1} :
        /\ IF n = 0 THEN window' = Closed(r) /\ UNCHANGED raced
                    ELSE UNCHANGED window /\ raced' = raced \cup {r}
        /\ \/ Leave(r, runs[r], "pending", n + 1)
           \/ Ended(r) /\ Leave(r, runs[r], "none", n)
           \/ ~ Ended(r) /\ Errors(n) /\ runs' = [runs EXCEPT ![r].pc = "call"]
    BY DEF Close
<1>4. window' \in {window, Closed(r)} /\ raced' \in {raced, raced \cup {r}}
    BY <1>3
<1>5. window \in [Debounced -> Nat] /\ r # 0 /\ faults \in 0 .. MaxFaults
    BY DEF Inv, Shape, WindowOK, RunsOK, BoundsOK
<1>6. r \in raced' \/ \A f \in Debounced : window'[f] # r
    BY <1>3, <1>5 DEF Closed
<1>7. CASE Leave(r, runs[r], "pending", n + 1)
    BY <1>1, <1>2, <1>4, <1>6, <1>7, LeaveInv
<1>8. CASE Ended(r) /\ Leave(r, runs[r], "none", n)
    BY <1>1, <1>2, <1>4, <1>6, <1>8, LeaveInv DEF Ended
<1>9. CASE ~ Ended(r) /\ Errors(n) /\ runs' = [runs EXCEPT ![r].pc = "call"]
  <2> DEFINE x == [runs[r] EXCEPT !.pc = "call"]
  <2>1. /\ x \in Run /\ x.st = "active" /\ x.item = "leased" /\ x.pc = "call" /\ x.sent # 0
        /\ x.snap = runs[r].snap /\ x.merged = runs[r].merged
      BY <1>2, <1>9 DEF Run, Ended
  <2>2. runs' = [runs EXCEPT ![r] = x]
      BY <1>9
  <2> HIDE DEF x
  <2>3. window' \in [Debounced -> Nat] /\ \A f \in Debounced : window'[f] \in {0, window[f]}
      BY <1>4, <1>5 DEF Closed
  <2>4. faults' \in 0 .. MaxFaults
      BY <1>5, <1>9, FlowAssumption DEF Errors
  <2>5. UNCHANGED <<events, stream, runner, executor, cut>>
      BY <1>1 DEF Apart, intake
  <2>. QED  BY <1>1, <1>2, <1>4, <1>6, <2>1, <2>2, <2>3, <2>4, <2>5, RunMoves
<1>. QED  BY <1>3, <1>7, <1>8, <1>9

LEMMA RetryInv == ASSUME Inv, NEW r \in DOMAIN runs, Retry(r) PROVE Inv'
<1>1. runs[r].pc = "call" /\ Apart /\ UNCHANGED <<window, raced, dropped>>
    BY DEF Retry, Apart
<1>2. Leave(r, runs[r], "pending", 0)
    BY DEF Retry
<1>. QED  BY <1>1, <1>2, Working, Completed, LeaveInv

LEMMA ReturnInv == ASSUME Inv, NEW r \in DOMAIN runs, Return(r) PROVE Inv'
<1>1. runs[r].pc = "call" /\ Apart /\ UNCHANGED <<window, raced>>
    BY DEF Return, Apart
<1>. QED  BY <1>1, Working, EndRunInv DEF Return

LEMMA EndInv == ASSUME Inv, NEW r \in DOMAIN runs, End(r) PROVE Inv'
<1> DEFINE x == [runs[r] EXCEPT !.st = "stopped", !.item = IF @ = "pending" THEN "none" ELSE @]
<1>1. /\ runs[r] \in Run /\ runs[r].snap \in runs[r].merged
      /\ runs[r].pc # "idle" => runs[r].item = "leased" /\ executor = "up" /\ runs[r].sent # 0
    BY DEF Inv, Shape, RunsOK
<1>2. At("enqueue") /\ runner.r = r => runs[r].item = "none"
    BY DEF Inv, New
<1>3. /\ x \in Run /\ x.st = "stopped" /\ x.snap = runs[r].snap /\ x.pc = runs[r].pc
      /\ x.merged = runs[r].merged /\ x.sent = runs[r].sent
      /\ x.item = IF runs[r].item = "pending" THEN "none" ELSE runs[r].item
    BY <1>1 DEF Run
<1>4. runs' = [runs EXCEPT ![r] = x]
    BY DEF End
<1> HIDE DEF x
<1>5. /\ UNCHANGED <<events, stream, runner, executor, cut, dropped, raced, window, faults>>
      /\ window \in [Debounced -> Nat] /\ faults \in 0 .. MaxFaults
    BY DEF End, intake, Inv, Shape, WindowOK, BoundsOK
<1>6. x.pc # "idle" => x.item = "leased" /\ executor = "up" /\ x.sent # 0
    BY <1>1, <1>3
<1>7. At("enqueue") /\ runner.r = r => x.item = "none"
    BY <1>2, <1>3
<1>. QED  BY <1>1, <1>3, <1>4, <1>5, <1>6, <1>7, RunMoves

-----------------------------------------------------------------------------
(* The end and the start of the process. *)

\* Runs that keep all but their items, which may be taken back, and lose their goroutines.
LEMMA AllIdle ==
  ASSUME Inv, ~ At("enqueue")', runner.pc = "enqueue" => runner.r \in cut',
         runs' = [r \in DOMAIN runs |-> runs'[r]],
         \A r \in DOMAIN runs :
           /\ runs'[r] \in Run /\ runs'[r].st = runs[r].st /\ runs'[r].snap = runs[r].snap
           /\ runs'[r].merged = runs[r].merged /\ runs'[r].pc = "idle"
           /\ runs[r].st = "completed" => runs'[r].sent = runs[r].sent
           /\ runs'[r].item = runs[r].item
                \/ (runs[r].item = "leased" /\ runs'[r].item = "pending"),
         UNCHANGED <<window, dropped, raced>>, cut \subseteq cut', cut' \subseteq DOMAIN runs,
         faults' \in 0 .. MaxFaults
  PROVE  /\ RunsOK' /\ WindowOK' /\ BoundsOK' /\ Shut' /\ New'
         /\ QueuedIsEnqueued' /\ WindowIsLive'
<1> USE DEF Inv, Shape
<1>1. runs' \in Seq(Run) /\ DOMAIN runs' = DOMAIN runs /\ Len(runs') = Len(runs)
  <2>1. DOMAIN runs = 1 .. Len(runs) /\ Len(runs) \in Nat
      BY DEF RunsOK
  <2>2. runs' = [r \in 1 .. Len(runs) |-> runs'[r]]
      BY <2>1
  <2>. QED  BY <2>1, <2>2
<1>2. RunsOK'
    BY <1>1 DEF RunsOK
<1>3. WindowOK' /\ BoundsOK'
    BY <1>1 DEF WindowOK, BoundsOK
<1>4. Shut' /\ New'
    BY <1>1 DEF Shut, New
<1>5. QueuedIsEnqueued'
    BY <1>1 DEF QueuedIsEnqueued, Ended, At
<1>6. WindowIsLive'
  <2>1. \A f \in Debounced : window[f] # 0 => window[f] \in DOMAIN runs
      BY DEF WindowOK, RunsOK
  <2>. QED  BY <1>1, <2>1 DEF WindowIsLive, Ended
<1>. QED  BY <1>2, <1>3, <1>4, <1>5, <1>6

\* What was leased stays leased, the goroutines are gone.
LEMMA CrashInv == Inv /\ Crash => Inv'
<1> SUFFICES ASSUME Inv, Crash PROVE Inv'
    OBVIOUS
<1>1. UNCHANGED <<events, window, dropped, raced>> /\ stream' = <<>> /\ executor' = "down"
    BY DEF Crash
<1>2. runner' = [pc |-> "down", e |-> 0, todo |-> <<>>, r |-> 0, orphans |-> {}]
    BY DEF Crash, Down
<1>3. cut' = IF At("enqueue") THEN cut \cup {runner.r} ELSE cut
    BY DEF Crash
<1>4. RunnerOK' /\ EventsOK'
  <2>1. stream' \in Seq(Pos)
      BY <1>1
  <2>. QED  BY <1>1, <1>2, <2>1 DEF Inv, Shape, RunnerOK, EventsOK, InRun
<1>5. \A r \in DOMAIN runs :
        /\ runs'[r] \in Run /\ runs'[r].st = runs[r].st /\ runs'[r].snap = runs[r].snap
        /\ runs'[r].merged = runs[r].merged /\ runs'[r].pc = "idle"
        /\ runs[r].st = "completed" => runs'[r].sent = runs[r].sent
        /\ runs'[r].item = runs[r].item
  <2> TAKE r \in DOMAIN runs
  <2>1. runs[r] \in Run
      BY DEF Inv, Shape, RunsOK
  <2>2. runs'[r] = Forgets(runs[r])
      BY DEF Crash
  <2> DEFINE x == runs[r]
  <2>3. /\ Forgets(x) \in Run /\ Forgets(x).st = x.st /\ Forgets(x).snap = x.snap
        /\ Forgets(x).merged = x.merged /\ Forgets(x).pc = "idle"
        /\ x.st = "completed" => Forgets(x).sent = x.sent
        /\ Forgets(x).item = x.item
    <3>1. x \in Run
        BY <2>1
    <3> HIDE DEF x
    <3>. QED  BY <3>1 DEF Forgets, Run
  <2>. QED  BY <2>2, <2>3
<1>6. runs' = [r \in DOMAIN runs |-> runs'[r]]
  <2>1. DOMAIN runs' = DOMAIN runs
      BY DEF Crash
  <2>. QED  BY <2>1 DEF Crash
<1>7. faults' \in 0 .. MaxFaults
    BY FlowAssumption DEF Crash, Fault, Errors, Inv, Shape, BoundsOK
<1>8. cut \subseteq cut' /\ cut' \subseteq DOMAIN runs /\ (runner.pc = "enqueue" => runner.r \in cut')
    BY <1>3 DEF Inv, Shape, BoundsOK, RunnerOK, At, InRun
<1>9. ~ At("enqueue")'
    BY <1>2 DEF At
<1>10. /\ RunsOK' /\ WindowOK' /\ BoundsOK' /\ Shut' /\ New'
       /\ QueuedIsEnqueued' /\ WindowIsLive'
    BY <1>1, <1>5, <1>6, <1>7, <1>8, <1>9, AllIdle
<1>. QED  BY <1>4, <1>10 DEF Inv, Shape

\* Some leases are taken back.
LEMMA RestartInv == Inv /\ Restart => Inv'
<1> SUFFICES ASSUME Inv, Restart PROVE Inv'
    OBVIOUS
<1>1. /\ UNCHANGED <<events, stream, window, cut, dropped, raced>> /\ At("down")
      /\ executor' \in {"up", "exited"}
    BY DEF Restart
<1>2. runner' = [pc |-> "start", e |-> runner.e, todo |-> runner.todo, r |-> runner.r,
                 orphans |-> runner.orphans]
    BY DEF Restart, To, Inv, Shape, RunnerOK
<1>3. RunnerOK' /\ EventsOK'
    BY <1>1, <1>2 DEF Inv, Shape, RunnerOK, EventsOK, InRun
<1>4. PICK expired \in SUBSET {r \in DOMAIN runs : runs[r].item = "leased"} :
        runs' = Requeued(expired)
  <2>1. runs = Requeued({})
    <3>1. runs = [r \in DOMAIN runs |-> runs[r]]
        BY DEF Inv, Shape, RunsOK
    <3>. QED  BY <3>1 DEF Requeued
  <2>. QED  BY <2>1 DEF Restart
<1>5. \A r \in DOMAIN runs :
        /\ runs'[r] \in Run /\ runs'[r].st = runs[r].st /\ runs'[r].snap = runs[r].snap
        /\ runs'[r].merged = runs[r].merged /\ runs'[r].pc = "idle"
        /\ runs'[r].sent = runs[r].sent
        /\ runs'[r].item = runs[r].item
             \/ (runs[r].item = "leased" /\ runs'[r].item = "pending")
  <2> TAKE r \in DOMAIN runs
  <2>1. runs[r] \in Run /\ runs[r].pc = "idle"
      BY <1>1 DEF Inv, Shape, RunsOK, RunnerOK, At
  <2>2. CASE r \in expired
    <3>1. runs'[r] = [runs[r] EXCEPT !.item = "pending"] /\ runs[r].item = "leased"
        BY <1>4, <2>2 DEF Requeued
    <3>. QED  BY <2>1, <3>1 DEF Run
  <2>3. CASE r \notin expired
    <3>1. runs'[r] = runs[r]
        BY <1>4, <2>3 DEF Requeued
    <3>. QED  BY <2>1, <3>1
  <2>. QED  BY <2>2, <2>3
<1>6. runs' = [r \in DOMAIN runs |-> runs'[r]]
  <2>1. DOMAIN runs' = DOMAIN runs
      BY <1>4 DEF Requeued
  <2>. QED  BY <1>4, <2>1 DEF Requeued
<1>7. faults' \in 0 .. MaxFaults
  <2>1. faults \in 0 .. MaxFaults
      BY DEF Inv, Shape, BoundsOK
  <2>. QED  BY <2>1, FlowAssumption DEF Restart, Fault, Errors
<1>8. cut' \subseteq DOMAIN runs /\ runner.pc # "enqueue"
    BY <1>1 DEF Inv, Shape, BoundsOK, At
<1>9. ~ At("enqueue")'
    BY <1>2 DEF At
<1>10. /\ RunsOK' /\ WindowOK' /\ BoundsOK' /\ Shut' /\ New'
       /\ QueuedIsEnqueued' /\ WindowIsLive'
    BY <1>1, <1>5, <1>6, <1>7, <1>8, <1>9, AllIdle
<1>. QED  BY <1>3, <1>10 DEF Inv, Shape

-----------------------------------------------------------------------------
LEMMA InvPreserved == Inv /\ [Next]_vars => Inv'
<1> SUFFICES ASSUME Inv, [Next]_vars PROVE Inv'
    OBVIOUS
<1>1. CASE Send \/ Runner \/ FlushOnTimeout
    BY <1>1, AsideInv, LookupInv, SnapshotInv, WindowWritten, EnqueueInv DEF Runner, Aside
<1>2. CASE RouteFails \/ Crash \/ Restart
    BY <1>2, RouteFailsInv, CrashInv, RestartInv
<1>3. ASSUME NEW r \in DOMAIN runs, Executor(r) \/ End(r) PROVE Inv'
    BY <1>3, HoldBackInv, DispatchInv, CloseInv, RetryInv, ReturnInv, EndInv DEF Executor
<1>5. CASE UNCHANGED vars
    BY <1>5 DEF vars, intake, Inv, Shape, EventsOK, RunnerOK, RunsOK, WindowOK, BoundsOK, Shut,
                Excused, New, QueuedIsEnqueued, WindowIsLive, Ended, At, Fn
<1>. QED  BY <1>1, <1>2, <1>3, <1>5 DEF Next

\* The invariant that the following theorems rest on: what the runner holds while it
\* routes, the executor's goroutines while they dispatch, and what they make of a run,
\* its item and its window (runner.go:267-330, executor.go:171-358, 477-500).
THEOREM FlowInvariant == Spec => []Inv
<1>1. Init => Inv
    BY InitInv
<1>2. Inv /\ [Next]_vars => Inv'
    BY InvPreserved
<1>. QED  BY <1>1, <1>2, PTL DEF Spec

\* The variables keep their types; in particular no run completes without having
\* been given an event.
THEOREM TypesHold == Spec => []TypeOK
<1>1. Inv => TypeOK
  <2> SUFFICES ASSUME Inv PROVE TypeOK
      OBVIOUS
  <2>1. /\ runner.pc \in {"down", "start", "exited", "loop", "route", "snapshot", "push",
                          "enqueue", "open", "flush"}
        /\ executor \in {"down", "up", "exited"}
      BY DEF Inv, Shape, RunnerOK, InRun
  <2>3. \A e \in DOMAIN events : events[e] \in Event
      BY DEF Inv, Shape, EventsOK
  <2>4. \A e \in DOMAIN events : events[e].name \in Names /\ events[e].st \in {"stored", "routed"}
      BY <2>3 DEF Event
  <2>2. \A r \in DOMAIN runs : runs[r] \in Run
      BY DEF Inv, Shape, RunsOK
  <2>. QED  BY <2>1, <2>2, <2>4 DEF TypeOK, Inv, Shape, RunsOK, WindowOK, BoundsOK, Run
<1>. QED  BY <1>1, FlowInvariant, PTL

\* A run that has not ended is in the queue, over retries, errors, crashes and starts,
\* but for one being enqueued, those whose routing was cut there, and those dropped as
\* they could not be read or ended (runner.go:293-330, executor.go:172-177, 477-499).
THEOREM QueuedIsEnqueuedAlways == Spec => []QueuedIsEnqueued
<1>1. Inv => QueuedIsEnqueued
    BY DEF Inv
<1>. QED  BY <1>1, FlowInvariant, PTL

\* An open window is that of a run that has not ended and is in the queue, but for runs
\* ended otherwise than by completing, dropped by an error, or raced by an event or a
\* window or left with theirs by an error (runner.go:274-329, executor.go:172-214).
THEOREM WindowIsLiveAlways == Spec => []WindowIsLive
<1>1. Inv => WindowIsLive
    BY DEF Inv
<1>. QED  BY <1>1, FlowInvariant, PTL
-----------------------------------------------------------------------------
(* Batches: nothing is lost, doubled or reordered on the way into them.     *)

\* The prefixes of a flattened sequence, as FlattenSeq builds them.
PrefixesTo(s, n, g) == g = [i \in 1 .. n |-> IF i = 1 THEN s[i] ELSE g[i - 1] \o s[i]]

\* One prefix more.
LEMMA PrefixesOneMore ==
  ASSUME NEW s, NEW n \in Nat, NEW g, PrefixesTo(s, n, g),
         NEW t, \A i \in 1 .. n : t[i] = s[i],
         NEW h, h = [i \in 1 .. n + 1 |-> IF i = n + 1 THEN IF n = 0 THEN t[1] ELSE g[n] \o t[n + 1]
                                                       ELSE g[i]]
  PROVE  PrefixesTo(t, n + 1, h)
<1>1. ASSUME NEW i \in 1 .. n + 1 PROVE h[i] = IF i = 1 THEN t[i] ELSE h[i - 1] \o t[i]
  <2>1. CASE i = n + 1
      BY <2>1
  <2>2. CASE i # n + 1
    <3>1. i \in 1 .. n /\ h[i] = g[i]
        BY <2>2
    <3>2. g[i] = IF i = 1 THEN s[i] ELSE g[i - 1] \o s[i]
        BY <3>1 DEF PrefixesTo
    <3>3. i # 1 => h[i - 1] = g[i - 1]
        BY <3>1
    <3>. QED  BY <3>1, <3>2, <3>3
  <2>. QED  BY <2>1, <2>2
<1>2. h = [i \in 1 .. n + 1 |-> h[i]]
    OBVIOUS
<1>. QED  BY <1>1, <1>2 DEF PrefixesTo

\* There are such prefixes, ...
LEMMA PrefixesExist ==
  ASSUME NEW s
  PROVE  \A n \in Nat : \E g : PrefixesTo(s, n, g)
<1> DEFINE S == {n \in Nat : \E g : PrefixesTo(s, n, g)}
<1>1. 0 \in S
  <2>1. PrefixesTo(s, 0, <<>>)
      BY DEF PrefixesTo
  <2>. QED  BY <2>1
<1>2. ASSUME NEW n \in S PROVE n + 1 \in S
  <2>1. PICK g : PrefixesTo(s, n, g)
      BY <1>2
  <2>2. \E h : PrefixesTo(s, n + 1, h)
      BY <2>1, PrefixesOneMore
  <2>. QED  BY <2>2
<1> HIDE DEF S
<1>3. S = Nat
    BY <1>1, <1>2, SetInduction DEF S
<1>. QED  BY <1>3 DEF S

\* ... and only these.
LEMMA PrefixesAgree ==
  ASSUME NEW s, NEW n \in Nat, NEW g, PrefixesTo(s, n, g), NEW h, PrefixesTo(s, n, h)
  PROVE  g = h
<1> DEFINE S == {k \in Nat : k \in 1 .. n => g[k] = h[k]}
<1>1. \A i \in 1 .. n : /\ g[i] = IF i = 1 THEN s[i] ELSE g[i - 1] \o s[i]
                        /\ h[i] = IF i = 1 THEN s[i] ELSE h[i - 1] \o s[i]
    BY DEF PrefixesTo
<1>2. 0 \in S
    OBVIOUS
<1>3. ASSUME NEW k \in S PROVE k + 1 \in S
    BY <1>1, <1>3
<1> HIDE DEF S
<1>4. S = Nat
    BY <1>2, <1>3, SetInduction DEF S
<1>5. \A i \in 1 .. n : g[i] = h[i]
    BY <1>4 DEF S
<1>6. g = [i \in 1 .. n |-> g[i]] /\ h = [i \in 1 .. n |-> h[i]]
    BY DEF PrefixesTo
<1>. QED  BY <1>5, <1>6

\* What is flattened is the last prefix.
LEMMA FlattenIsPrefix ==
  ASSUME NEW s, Len(s) \in Nat \ {0}, NEW g, PrefixesTo(s, Len(s), g)
  PROVE  FlattenSeq(s) = g[Len(s)]
<1> DEFINE c == CHOOSE f : f = [i \in 1 .. Len(s) |-> IF i = 1 THEN s[i] ELSE f[i - 1] \o s[i]]
<1>1. FlattenSeq(s) = c[Len(s)]
    BY DEF FlattenSeq
<1>2. PrefixesTo(s, Len(s), c)
    BY DEF PrefixesTo
<1> HIDE DEF c
<1>3. c = g
    BY <1>2, PrefixesAgree
<1>. QED  BY <1>1, <1>3

\* A batch more: its events come last.
LEMMA FlattenAppend ==
  ASSUME NEW s \in Seq(Seq(Pos)), NEW b \in Seq(Pos)
  PROVE  FlattenSeq(Append(s, b)) = FlattenSeq(s) \o b
<1> DEFINE n == Len(s)
           t == Append(s, b)
<1>1. n \in Nat /\ Len(t) = n + 1 /\ t[n + 1] = b /\ \A i \in 1 .. n : t[i] = s[i]
    OBVIOUS
<1>2. PICK g : PrefixesTo(s, n, g)
    BY <1>1, PrefixesExist
<1> DEFINE h == [i \in 1 .. n + 1 |-> IF i = n + 1 THEN IF n = 0 THEN t[1] ELSE g[n] \o t[n + 1] ELSE g[i]]
<1>3. h[n + 1] = IF n = 0 THEN t[1] ELSE g[n] \o t[n + 1]
    BY <1>1
<1> HIDE DEF t
<1>4. PrefixesTo(t, n + 1, h)
  <2>1. h = [i \in 1 .. n + 1 |-> IF i = n + 1 THEN IF n = 0 THEN t[1] ELSE g[n] \o t[n + 1] ELSE g[i]]
      OBVIOUS
  <2> HIDE DEF h
  <2>. QED  BY <1>1, <1>2, <2>1, PrefixesOneMore
<1> HIDE DEF h
<1>5. FlattenSeq(t) = h[n + 1]
    BY <1>1, <1>4, FlattenIsPrefix
<1>6. CASE n = 0
  <2>1. FlattenSeq(s) = s /\ s = <<>>
      BY <1>6 DEF FlattenSeq
  <2>2. s \o b = b
      BY <2>1
  <2>. QED  BY <1>1, <1>3, <1>5, <1>6, <2>1, <2>2 DEF t
<1>7. CASE n # 0
  <2>1. FlattenSeq(s) = g[n]
      BY <1>1, <1>2, <1>7, FlattenIsPrefix
  <2>. QED  BY <1>1, <1>3, <1>5, <1>7, <2>1 DEF t
<1>. QED  BY <1>6, <1>7

SQT == INSTANCE SequenceTheorems

\* Sequences put together, and put together again.
LEMMA Concatenated ==
  ASSUME NEW S, NEW a \in Seq(S), NEW b \in Seq(S), NEW c \in Seq(S)
  PROVE  a \o b \in Seq(S) /\ (a \o b) \o c = a \o (b \o c)
BY SQT!ConcatAssociative

LEMMA Appended ==
  ASSUME NEW S, NEW a \in Seq(S), NEW b \in Seq(S), NEW x \in S
  PROVE  a \o Append(b, x) = Append(a \o b, x)
<1>1. <<x>> \in Seq(S) /\ a \o b \in Seq(S)
    OBVIOUS
<1>2. Append(b, x) = b \o <<x>> /\ Append(a \o b, x) = (a \o b) \o <<x>>
    BY <1>1, SQT!AppendIsConcat
<1>3. (a \o b) \o <<x>> = a \o (b \o <<x>>)
    BY <1>1, Concatenated
<1>. QED  BY <1>2, <1>3

\* A sequence is its beginning and the rest.
LEMMA Cut ==
  ASSUME NEW S, NEW s \in Seq(S), NEW n \in 1 .. Len(s)
  PROVE  SubSeq(s, 1, n) \o SubSeq(s, n + 1, Len(s)) = s
<1>1. n \in 1 - 1 .. Len(s) /\ 1 \in 1 .. Len(s) + 1 /\ Len(s) \in n .. Len(s)
    OBVIOUS
<1>2. SubSeq(s, 1, n) \o SubSeq(s, n + 1, Len(s)) = SubSeq(s, 1, Len(s))
    BY <1>1, SQT!ConcatAdjacentSubSeq
<1>. QED  BY <1>2, SQT!SubSeqFull

\* A function's batches and what is collected are what was appended.
BatchesOf(f) ==
  /\ entries[f] \in Seq(Pos) /\ batches[f] \in Seq(Seq(Pos)) /\ FlattenSeq(batches[f]) \in Seq(Pos)
  /\ FlattenSeq(batches[f]) \o entries[f] = appended[f]
  /\ \A k \in DOMAIN batches[f] : Len(batches[f][k]) \in 1 .. MaxSize

\* A batch that is full is flushed before anything else can happen to it.
BatchInv ==
  /\ DOMAIN entries = Batched /\ DOMAIN batches = Batched /\ DOMAIN appended = Batched
  /\ \A f \in Batched : BatchesOf(f)
  /\ At("flush") => Fn \in Batched /\ entries[Fn] # <<>>

\* A batch is what comes first, in order and in its size.
LEMMA BatchSplits ==
  ASSUME NEW s \in Seq(Pos), s # <<>>
  PROVE  /\ Batch(s).out \in Seq(Pos) /\ Batch(s).rest \in Seq(Pos)
         /\ Len(Batch(s).out) \in 1 .. MaxSize
         /\ Batch(s).out \o Batch(s).rest = s
<1>1. MaxSize \in Nat \ {0} /\ Len(s) \in Nat \ {0}
    BY FlowAssumption
<1>2. CASE Len(s) > MaxSize
  <2> DEFINE a == SubSeq(s, 1, MaxSize)
             b == SubSeq(s, MaxSize + 1, Len(s))
  <2>1. Batch(s).out = a /\ Batch(s).rest = b
      BY <1>2 DEF Batch
  <2>2. /\ a \in Seq(Pos) /\ Len(a) = MaxSize /\ \A i \in 1 .. MaxSize : a[i] = s[i]
        /\ b \in Seq(Pos) /\ Len(b) = Len(s) - MaxSize
        /\ \A i \in 1 .. Len(s) - MaxSize : b[i] = s[MaxSize + i]
      BY <1>1, <1>2
  <2> HIDE DEF a, b
  <2>3. MaxSize \in 1 .. Len(s)
      BY <1>1, <1>2
  <2>4. a \o b = s
      BY <2>3, Cut DEF a, b
  <2>. QED  BY <1>1, <2>1, <2>2, <2>4
<1>3. CASE ~ (Len(s) > MaxSize)
  <2>1. Batch(s).out = s /\ Batch(s).rest = <<>>
      BY <1>3 DEF Batch
  <2>. QED  BY <1>1, <1>3, <2>1
<1>. QED  BY <1>2, <1>3

\* A flush moves the first of what is collected to the end of the batches.
LEMMA FlushKeepsBatches ==
  ASSUME BatchInv, NEW f \in Batched, entries[f] # <<>>, FlushBatch(f), UNCHANGED appended
  PROVE  /\ DOMAIN entries' = Batched /\ DOMAIN batches' = Batched
         /\ \A g \in Batched : BatchesOf(g)'
<1> DEFINE out == Batch(entries[f]).out
           rest == Batch(entries[f]).rest
           flat == FlattenSeq(batches[f])
<1>1. BatchesOf(f)
    BY DEF BatchInv
<1>2. /\ DOMAIN entries' = Batched /\ DOMAIN batches' = Batched
      /\ batches'[f] = Append(batches[f], out) /\ entries'[f] = rest
      /\ \A g \in Batched \ {f} : batches'[g] = batches[g] /\ entries'[g] = entries[g]
    BY DEF FlushBatch, BatchInv
<1>3. /\ out \in Seq(Pos) /\ rest \in Seq(Pos) /\ Len(out) \in 1 .. MaxSize
      /\ out \o rest = entries[f]
    BY <1>1, BatchSplits DEF BatchesOf
<1>4. FlattenSeq(batches'[f]) = flat \o out
    BY <1>1, <1>2, <1>3, FlattenAppend DEF BatchesOf
<1>5. flat \in Seq(Pos) /\ flat \o entries[f] = appended[f] /\ batches[f] \in Seq(Seq(Pos))
    BY <1>1 DEF BatchesOf
<1> HIDE DEF out, rest, flat
<1>6. (flat \o out) \o rest = flat \o (out \o rest) /\ flat \o out \in Seq(Pos)
  <2>1. \A a, b, c \in Seq(Pos) : a \o b \in Seq(Pos) /\ (a \o b) \o c = a \o (b \o c)
      BY Concatenated
  <2>. QED  BY <1>3, <1>5, <2>1
<1>7. \A k \in DOMAIN batches'[f] : Len(batches'[f][k]) \in 1 .. MaxSize
  <2>1. \A k \in DOMAIN batches'[f] :
          (k \in DOMAIN batches[f] /\ batches'[f][k] = batches[f][k]) \/ batches'[f][k] = out
      BY <1>2, <1>3, <1>5
  <2>. QED  BY <1>1, <1>3, <2>1 DEF BatchesOf
<1>8. BatchesOf(f)'
  <2>1. batches'[f] \in Seq(Seq(Pos))
      BY <1>2, <1>3, <1>5
  <2>2. FlattenSeq(batches'[f]) \in Seq(Pos) /\ FlattenSeq(batches'[f]) \o entries'[f] = appended'[f]
      BY <1>2, <1>3, <1>4, <1>5, <1>6
  <2>. QED  BY <1>2, <1>3, <1>7, <2>1, <2>2 DEF BatchesOf
<1>9. ASSUME NEW g \in Batched \ {f} PROVE BatchesOf(g)'
  <2>1. BatchesOf(g)
      BY DEF BatchInv
  <2>. QED  BY <1>2, <1>9, <2>1 DEF BatchesOf
<1>. QED  BY <1>2, <1>8, <1>9

LEMMA BatchInit == Init => BatchInv
<1> SUFFICES ASSUME Init PROVE BatchInv
    OBVIOUS
<1>1. FlattenSeq(<<>>) = <<>>
    BY DEF FlattenSeq
<1>2. \A f \in Batched : entries[f] = <<>> /\ batches[f] = <<>> /\ appended[f] = <<>>
    BY DEF Init
<1>3. <<>> \o <<>> = <<>> /\ DOMAIN <<>> = {} /\ <<>> \in Seq(Pos) /\ <<>> \in Seq(Seq(Pos))
    OBVIOUS
<1>4. \A f \in Batched : BatchesOf(f)
    BY <1>1, <1>2, <1>3 DEF BatchesOf
<1>. QED  BY <1>4 DEF BatchInv, Init, At, Down

\* Only an append and a flush touch the entries; nothing comes between the append
\* that fills a batch and its flush but an error or a crash.
LEMMA BatchNext == Inv /\ BatchInv /\ [Next]_vars => BatchInv'
<1> SUFFICES ASSUME Inv, BatchInv, [Next]_vars PROVE BatchInv'
    OBVIOUS
<1>0. runner = [pc |-> runner.pc, e |-> runner.e, todo |-> runner.todo, r |-> runner.r,
                orphans |-> runner.orphans]
    BY DEF Inv, Shape, RunnerOK
<1>1. CASE AppendEntry
  <2>1. /\ Fn \in Batched /\ runner.e \in Pos
        /\ entries' = [entries EXCEPT ![Fn] = Append(@, runner.e)]
        /\ appended' = [appended EXCEPT ![Fn] = Append(@, runner.e)] /\ batches' = batches
      BY <1>1 DEF AppendEntry, Inv, Shape, RunnerOK, At
  <2>2. PICK f \in Batched : f = Fn
      BY <2>1
  <2>3. BatchesOf(f)
      BY DEF BatchInv
  <2>4. /\ DOMAIN entries' = Batched /\ DOMAIN appended' = Batched
        /\ entries'[f] = Append(entries[f], runner.e) /\ appended'[f] = Append(appended[f], runner.e)
        /\ \A g \in Batched \ {f} : entries'[g] = entries[g] /\ appended'[g] = appended[g]
      BY <2>1, <2>2 DEF BatchInv
  <2>5. BatchesOf(f)'
    <3> DEFINE flat == FlattenSeq(batches[f])
    <3>1. flat \in Seq(Pos) /\ entries[f] \in Seq(Pos) /\ flat \o entries[f] = appended[f]
        BY <2>3 DEF BatchesOf
    <3> HIDE DEF flat
    <3>2. flat \o Append(entries[f], runner.e) = Append(flat \o entries[f], runner.e)
      <4>1. \A a, b \in Seq(Pos), x \in Pos : a \o Append(b, x) = Append(a \o b, x)
          BY Appended
      <4>. QED  BY <2>1, <3>1, <4>1
    <3>3. Append(entries[f], runner.e) \in Seq(Pos)
        BY <2>1, <3>1
    <3>. QED  BY <2>1, <2>3, <2>4, <3>1, <3>2, <3>3 DEF BatchesOf, flat
  <2>6. ASSUME NEW g \in Batched \ {f} PROVE BatchesOf(g)'
    <3>1. BatchesOf(g)
        BY DEF BatchInv
    <3>. QED  BY <2>1, <2>4, <2>6, <3>1 DEF BatchesOf
  <2>7. At("flush")' => Fn' = f /\ entries'[f] # <<>>
    <3>1. entries[f] \in Seq(Pos)
        BY <2>3 DEF BatchesOf
    <3>2. Append(entries[f], runner.e) # <<>>
        BY <2>1, <3>1
    <3>3. runner' = To("flush") \/ runner' = Done
        BY <1>1 DEF AppendEntry
    <3>4. CASE runner' = To("flush")
      <4>1. runner'.todo = runner.todo
          BY <1>0, <3>4 DEF To
      <4>. QED  BY <2>2, <2>4, <3>2, <4>1 DEF Fn
    <3>5. CASE runner' = Done
      <4>1. runner'.pc = "route"
          BY <1>0, <3>5 DEF Done
      <4>. QED  BY <4>1 DEF At
    <3>. QED  BY <3>3, <3>4, <3>5
  <2>. QED  BY <2>1, <2>4, <2>5, <2>6, <2>7 DEF BatchInv
<1>2. CASE FlushOnSize
  <2>1. FlushBatch(Fn) /\ UNCHANGED appended /\ Fn \in Batched /\ entries[Fn] # <<>> /\ runner' = Done
      BY <1>2 DEF FlushOnSize, BatchInv
  <2>2. PICK f \in Batched : f = Fn
      BY <2>1
  <2>3. runner'.pc = "route"
      BY <1>0, <2>1 DEF Done
  <2>4. /\ DOMAIN entries' = Batched /\ DOMAIN batches' = Batched
        /\ \A g \in Batched : BatchesOf(g)'
      BY <2>1, <2>2, FlushKeepsBatches
  <2>. QED  BY <2>1, <2>3, <2>4 DEF BatchInv, At
<1>3. CASE FlushOnTimeout
  <2>1. PICK f \in Batched : entries[f] # <<>> /\ FlushBatch(f)
      BY <1>3 DEF FlushOnTimeout
  <2>2. UNCHANGED <<appended, runner>> /\ ~ At("flush")
      BY <1>3 DEF FlushOnTimeout, intake, At
  <2>3. /\ DOMAIN entries' = Batched /\ DOMAIN batches' = Batched
        /\ \A g \in Batched : BatchesOf(g)'
      BY <2>1, <2>2, FlushKeepsBatches
  <2>. QED  BY <2>2, <2>3 DEF BatchInv, At
<1>4. CASE UNCHANGED <<entries, batches, appended>> /\ (UNCHANGED runner \/ runner'.pc # "flush")
  <2>1. \A f \in Batched : BatchesOf(f)'
      BY <1>4 DEF BatchInv, BatchesOf
  <2>2. At("flush")' => At("flush") /\ Fn' = Fn
      BY <1>4 DEF At, Fn
  <2>. QED  BY <1>4, <2>1, <2>2 DEF BatchInv
<1>5. CASE Send \/ UNCHANGED vars \/ \E r \in DOMAIN runs : Executor(r) \/ End(r)
    BY <1>4, <1>5 DEF Send, vars, intake, batching, Executor, HoldBack, Dispatch, Close, Retry,
              Return, End
<1>6. CASE Reconcile \/ Take \/ MarkRouted
  <2>1. UNCHANGED <<entries, batches, appended>>
      BY <1>6 DEF Reconcile, Take, MarkRouted, batching
  <2>2. runner'.pc # "flush"
      BY <1>0, <1>6 DEF Reconcile, Take, MarkRouted, To, Route
  <2>. QED  BY <1>4, <2>1, <2>2
<1>7. CASE Lookup \/ Snapshot \/ Push \/ Enqueue \/ OpenWindow
  <2>1. UNCHANGED <<entries, batches, appended>>
      BY <1>7 DEF Lookup, Snapshot, Push, Enqueue, OpenWindow, batching
  <2>2. runner'.pc # "flush"
      BY <1>0, <1>7 DEF Lookup, Snapshot, Push, Enqueue, OpenWindow, To, Done
  <2>. QED  BY <1>4, <2>1, <2>2
<1>8. CASE RouteFails \/ Crash \/ Restart
  <2>1. UNCHANGED <<entries, batches, appended>>
      BY <1>8 DEF RouteFails, Crash, Restart, batching
  <2>2. runner'.pc # "flush"
    <3>1. CASE RouteFails
      <4>1. runner' = [pc |-> "loop", e |-> 0, todo |-> <<>>, r |-> 0, orphans |-> runner.orphans]
          BY <3>1 DEF RouteFails, Down
      <4>. QED  BY <4>1
    <3>2. CASE Crash \/ Restart
        BY <1>0, <3>2 DEF Crash, Restart, Down, To
    <3>. QED  BY <1>8, <3>1, <3>2
  <2>. QED  BY <1>4, <2>1, <2>2
<1>. QED  BY <1>1, <1>2, <1>3, <1>5, <1>6, <1>7, <1>8 DEF Next, Runner

\* The batches of a function, and what is collected for the next one, are the
\* events in the order in which they were appended, each once; no batch is larger
\* than MaxSize: over errors and crashes (runner.go:199-246).
THEOREM BatchesInOrderAlways == Spec => []BatchesInOrder
<1>1. Init => Inv /\ BatchInv
    BY InitInv, BatchInit
<1>2. Inv /\ BatchInv /\ [Next]_vars => (Inv /\ BatchInv)'
    BY InvPreserved, BatchNext
<1>3. BatchInv => BatchesInOrder
    BY DEF BatchInv, BatchesOf, BatchesInOrder, Range
<1>. QED  BY <1>1, <1>2, <1>3, PTL DEF Spec
=============================================================================
