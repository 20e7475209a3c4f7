# TriggerLink: a TLA+ model of the platform, its SDK and its pages

TriggerLink is a durable workflow engine in one Go process on SQLite or
Postgres. Applications register *functions*; an *event* starts a *run* of every
function that subscribes to it; a run is executed by calling the application
back over HTTP, once per *hop*. On every hop the function is entered from the
top: steps that are done return the result the platform stored (their *memo*),
and the first one that is not interrupts the function with an *opcode*, which
tells the platform what to store and how to go on.

This directory models the engine and what is around it: the routing of events
into runs (debounce, batch), the registration of applications, the TypeScript
SDK with its agent loop, and the pages that watch and steer runs. The models are
TLA+; TLC checks them on small instances, TLAPS proves all of their safety
properties for all instances.

    tlc -workers 2 -config EngineSafety.cfg MCEngine.tla        the engine
    tlc -workers 2 -config AgentRun.cfg     MCAgent.tla         an agent's run
    tlc -workers 2 -config Registration.cfg MCRegistration.tla  registration
    tlc -workers 2 -config Flow.cfg         MCFlow.tla          debounce, batch
    tlc -workers 2 -config Pages.cfg        MCPages.tla         the pages
    tlapm EngineProofs.tla      (CarrierProofs, ProgressProofs, AgentProofs,
                                 RegistrationProofs, FlowProofs, PagesProofs,
                                 NatSets)

There are five models. They do not share variables; each takes from the others
only what the code at that border guarantees, and says so. Where one model
treats another's subject as a free choice (which event arrives, when a run is
called back), the choice allows more than the other would do.

Contents: 1 inventory, 2 the modules and how they correspond to the code,
3 what the runs check, 4 fairness, 5 what is proved, 6 where the code and its
documents disagree, 7 what the models leave out, 8 plan.


## 1. Inventory

### Components, their state and their operations

| component | source | state | operations |
|---|---|---|---|
| Store | `internal/store` | the tables `events`, `runs`, `step_runs`, `waits`, `queue_items`, `functions`, `paused_functions`, `webhooks`, `debounce_pending`, `batch_windows`, `batch_entries`, `throttle_state` | one transaction per method |
| Executor | `internal/executor` | goroutine of the loop; one goroutine per leased queue item; `inFlight` per function | reconcile leases, poll, admit or reject, `dispatch`, scan run timeouts |
| Runner | `internal/runner` | one goroutine; the stream it consumes | reconcile unrouted events, `route` (trigger, batch, debounce, resume waits, cancelOn), scan wait timeouts and batch windows |
| Event intake | `internal/eventapi`, `internal/webhook` | the stream (1024 events) | insert an event, push it |
| Flow control | `internal/registry/flowcontrol.go`, runner, executor, store | windows in the store | debounce and batch when routing, throttle and concurrency when dispatching |
| Scheduler | `internal/scheduler` | `last`, `fired`, parsed schedules, all in memory | fire the cron functions that are due |
| Registry, app API | `internal/registry`, `internal/appapi`, `cmd/triggerlink` | functions by id and by event, in memory; table `functions` | register, sync, fetch a manifest, restore at startup, ask the apps of `-app` |
| Dashboard API | `internal/dashapi` | none of its own | cancel, replay, pause, resume, webhooks, queries |
| Janitor | `internal/janitor` | none of its own | delete runs, waits, events and throttle rows past retention |
| SDK, Go | `sdk` | memos and hash counters of one callback | `step.run`, `sleep`, `sendEvent`, `waitForEvent`; serve |
| SDK, TypeScript: steps, callbacks | `sdk-ts/src/step.ts`, `execx.ts`, `serve.ts` POST | the same | the same |
| SDK, TypeScript: agent | `sdk-ts/src/agent.ts` | history, iteration, tool records, usage: locals of one callback | ask the model, execute the tools it calls, the hook, limits |
| SDK, TypeScript: client, functions, manifest | `client.ts`, `function.ts`, `serve.ts` GET | the register loop: attempts, timer | createFunction, serve (with the implicit `onFailure` functions), register, send |
| Run page | `web/src/pages/RunDetailPage.jsx`, `usePolling.js`, `api.js` | `data`, `terminal`, `stopping`, `replaying`; requests on their way | poll, stop, replay, go to another run |
| List pages | `web/src/pages` | filter, older runs, one button | poll, load more, pause |
| Example app | `examples/nextjs/app` | the task table (in memory of the app); phase of the panel | build-report, start, poll, follow up |
| Signing, ids, auth, metrics | `internal/sign` ... | none that decides anything | |

### How they interact

Everything durable goes through the store. The executor and the runner never
call each other: the runner hands runs to the executor by inserting queue
items, the executor hands waits to the runner by inserting rows of `waits`, and
fan-out events by inserting rows of `events` and pushing them on the stream.
The dashboard changes the status of runs under both. A store method is one
transaction; a *handler* is a sequence of them without any lock around it.

A run is carried on by exactly one thing at a time:

* a queue item, pending or leased, with or without a worker;
* a wait, while the run is parked on an event;
* the runner, between resolving the wait and inserting the queue item;
* a worker, between deleting its queue item and inserting the next one.

If it is carried by nothing, it is stuck for ever; if by two things, steps are
executed twice at the same time and overwrite each other's memos.

The platform and an application know each other by two requests: the platform
asks for the manifest (GET) and calls functions back (POST). The application
registers itself by a third, which makes the platform ask for the manifest.
A browser knows the platform and the application by requests it repeats, and
which overtake each other.

### What is hard about it

* The handlers interleave: the runner resumes a run whose worker has not yet
  finished parking it; the timeout scan and the dashboard end runs in the
  middle of a hop; a callback lasts up to five minutes, and what was read
  before it is used after it.
* The process can end between any two transactions, and is restarted on the
  same store. A lease says that a queue item was being worked on; there is
  nothing that says how far.
* Any store call may return an error. Some callers retry, some give up, some
  ignore it.
* Sleeps, backoffs, wait timeouts and run timeouts are compared with a clock
  that the handlers do not share.
* A debounce window is read by the runner, closed by the executor and forgotten
  by a cancellation; a batch entry is appended again whenever its event is.
* An answer of the application that the platform does not get is asked for
  again, while the first step of it goes on in the application and acts.
* A memo is found by the name of its step and a count: an agent that takes
  another turn on re-entry would be given the outputs of other steps.
* Two registrations write the table and the registry one after the other
  without a lock; a crash forgets one of the two.
* A page polls with a timer that does not wait for the answer before; the
  answers that come late describe another moment, or another run.

`PROJECT.json` lists every such hazard at its line, with the properties that
cover it, or the reason why none does.

### What makes each component correct

* *Executor and runner together*: no run is lost, none is carried twice; steps
  finish in order, once, and their results last; a run ends once and stays
  ended; failures are announced; sleeps last until their time; events are
  stored before the step that sends them is done; every run ends.
* *Event intake and routing*: every stored event is routed at least once, and
  starts at most one run per function.
* *Debounce, batch, throttle*: no event is dropped and none is counted twice;
  windows are closed; a window never admits more than its limit.
* *Scheduler*: at most one run per tick; no tick is skipped while up.
* *Registry and registration*: memory and table agree; an event is routed once
  to each function; an application that was told it is registered is routed to;
  its register loop comes to an end.
* *Janitor*: nothing that an active run needs is deleted.
* *SDKs*: the n-th use of a step id gets the same hash on every re-entry.
* *Agent*: the model is asked the same question when a call is repeated; tools
  act only on decisions that are recorded, and get their own outputs; the result
  is that of the recorded steps.
* *Pages*: what a page shows when it has stopped asking is how the run ended;
  the panel follows up once, on a result there is.


## 2. The modules

| module | models | state |
|---|---|---|
| `Workflow` | an SDK function during a callback | none: `Program`, `Answers(seen)` |
| `Store` | the transactions of `store.go` | `status`, `attempt`, `memo`, `waits`, `queue`, `asleep`, `sent`, `announced`, `faults` |
| `Executor` | `executor.go` | `loop`, `pc`, `work` |
| `Runner` | the part of `runner.go` that starts, resumes and cancels runs | `rn` |
| `Engine` | the process: both of them, the dashboard's cancel, crash and restart; the properties | `crashes` |
| `DurableRun` | what a run is promised (abstract specification) | `phase`, `done` |
| `AgentLoop` | `agent.run` between two steps, as functions of where the loop stands | none |
| `AgentRun` | a run that consists of an agent: callbacks, `step.run`, memos, lost answers | `run`, `steps`, `cb`, `strays`, `execs`, `lost`; auxiliary `asked`, `acted`, `trail` |
| `Registration` | `client.ts` register, `serve.ts` GET, `appapi`, `registry.go`, startup in `main.go` | `ver`, `serving`, `loop`, `req`, `plat`, `byID`, `byEvent`, `table`, `faults`; auxiliary `apart` |
| `Flow` | `routeDebounced`, `routeBatched`, the runner's loop and reconciliation, the dispatch of the merged runs | `events`, `stream`, `runner`, `executor`, `runs`, `window`, `entries`, `batches`, `faults`; auxiliary `appended`, `cut`, `dropped`, `raced` |
| `ReportApp` | the example app's `build-report` and its task table | `runs`, `table`, `strays`, `faults` |
| `Polling` | `usePolling.js` and the timer of `ReportPanel.tsx` | `polls`; auxiliary `stale` |
| `RunPage` | `RunDetailPage.jsx` | `page` |
| `ReportPanel` | `ReportPanel.tsx` and `api/report` | `panel`, `starts`; auxiliary `followups` |
| `Pages` | both pages over the app, in one browser tab; the properties | `tab` |
| `MCEngine`, `MCAgent`, `MCRegistration`, `MCFlow`, `MCPages` | the instances TLC checks | |
| `EngineProofs`, `CarrierProofs`, `ProgressProofs` | proofs about `Engine`: shape, types, ends and events; one carrier; progress, refinement, sleeps, wake-ups, attempts | |
| `AgentProofs`, `RegistrationProofs`, `FlowProofs`, `PagesProofs` | proofs about `AgentRun`, `Registration`, `Flow`, `Pages` | |
| `NatSets` | what these proofs know of sets of naturals: induction, the last place in a list | |

### The engine

**Store.** `status` is `runs.status`, `memo` is `step_runs.status` by run and
step, `waits` is `waits.status` by the table's unique key, `queue` holds the
rows of `queue_items` with their status, their run and, as `wake`, the sleep
whose `until` is their `at`. Each operator is one method and keeps its name.
Three things are derived: `asleep` is the set of sleeps whose `until` lies in
the future (the action `Wake` lets time reach it), `sent` and `announced` are
the sets of derived event ids (`evt_<hash>`, `runfailed_<run>`) that are in
`events`. Every call has two outcomes, `Succeeds` and `Errs`; the constant
`MaxFaults` bounds how many err.

**Executor.** `loop` is the goroutine of `Run`: `Reconcile` is
`RequeueExpiredLeases` at startup (an error there ends the goroutine), `Lease`
is `LeaseBatch`, `Admit` and `Reject` go through the batch, `TimeoutRun` and
`AnnounceTimeout` are `scanRunTimeouts`. Every item has a worker; `pc[i]` names
the next store call of its `dispatch`, `work[i]` holds its locals. One action is
one store call or one callback, in the order of the code:

    Start -> Claim -> Mark -> WakeSleeping -> Load -> Answer -> Recheck -> ...
      StepComplete      Save -> Finish -> EnqueueNext
      Sleep             Save -> Finish -> EnqueueNext (at = until)
      SendEvent         SendEvents -> Save -> Finish -> EnqueueNext
      WaitForEvent      Save -> Park -> Finish
      StepError         Save -> Release, or Fail -> Announce -> Finish
      RunError          Release, or Fail -> Announce -> Finish
      RunComplete       Complete -> Finish

An error branch goes where the code goes: `retryOrFail` is the operator
`RetryOrFail`, an ignored error simply continues.

**Runner.** It is one goroutine, so `rn` is one program counter with its
locals. `Trigger` and `RunnerEnqueue` are `route`; `TakeWait`,
`CompleteWaitStep`, `Resolve`, `RunnerEnqueue` are `resumeWaits` and
`scanWaitTimeouts`, which differ in the status they give the wait; `CancelOn`
and `SweepWaits` are `applyCancelOn`. Which event arrives and what it matches
is left open: any run that does not exist may be triggered, any waiting wait
may be hit, any active run may be cancelled.

**Engine.** `Crash` clears everything a goroutine holds and nothing else. A
graceful shutdown is not different: it cancels the context, so that the calls
that were to come fail, and the process ends.

**Workflow.** The user's function is the sequence of the kinds of step it calls,
the determinism the SDK demands. `Answers(seen)` is what a callback that
carries the memos `seen` may answer: the opcode of the first step without a
memo, `RunComplete` when there is none, or an error at any point.

### An agent

**AgentLoop.** Between two steps `agent.run` is synchronous, so its position is
a record: iteration, history, the reply it works on and the tool call of it,
records, usage, and the counters of `execx.ts`, which outlive one `run`. `After`
takes the output of a step to the next position: `LoopHead` is the limit, the
`prepareMessages` hook (a constant) and `assertPreparedMessagesShape`
(`WellPaired`); `NextCall` the next tool call; `thrown` and `done` the two ends.
A function runs its agent `Rounds` times, so that step ids repeat.

**AgentRun.** `Callback` is `dispatch` and the entry of POST; `Replay` and
`Execute` are the two branches of `step.run`; `Interrupt` the `StepInterrupt` it
throws; `Return` the end of the handler; `Record`, `Complete`, `Fail` what the
platform does with the answer. `Lose` is an answer that does not arrive: the
platform goes on as after an error or as after a crash, and the step that was
under way becomes a *stray*. `asked` and `acted` remember what the model was
asked and which tools acted; `trail` the position of the loop at each recorded
step.

### Registration

`ver`, `serving` and `loop` are an app: the version that runs, whether it accepts
requests, and its register loop (`client.ts`). `req` holds the requests the
platform handles, each at one of `posted -> fetched -> persisted`: `Fetch`,
`Persist`, `SyncAndReply` are the three calls of `handleRegister`, and `Fails`
its error returns. `byEvent` is the bag of the subscriptions in the registry's
lists, so that a function subscribed twice is seen. `Served` is what `serve`
makes of an app's functions, with the implicit `<id>/on-failure`; `Decoded` and
`Throws` what becomes of a malformed duration. `Restore`, `Introspect`, `Up` are
the startup of `main.go`. `Deploy` replaces an app by its next version, `HangUp`
loses an answer, `Operator` is a registration or a sync from the dashboard.

### Debounce and batch

`runner` is one program counter with the event, the subscribers still to be
served and the run it works on; one action is one store call:

    Take -> Lookup -> Snapshot -> Push          a window is open
                   -> Enqueue -> OpenWindow     there is none
         -> AppendEntry -> FlushOnSize
         -> MarkRouted

`RouteFails` is an error of any of them: `route` returns, and the event is routed
again after the next start (`Reconcile`). `window` holds the run of the open window
of a function (one key); `snap` is the event a run would be called back with,
`merged` all that were merged into it, `sent` the one it was called back with.

A run has one queue item at most, and so one goroutine; `pc` is where it is:

    Dispatch -> Close -> Return            it completes, or fails for good
                      -> Retry             its item is put back

`HoldBack` is the concurrency limit and the throttle; `End` is `CancelRun`, or
`TimeoutRun` of the scan. What a dispatch does to the run and its item at its end is
one action with the error that brought it there: `Leave` counts the errors and has the
item deleted or put back, or left leased if that call fails too, which is also what a
crash before it leaves behind. `EndRun` is `CompleteRun` or `FailRun`, whose error the
code logs before it deletes the item all the same (`dropped`). So is a run that
`GetRun` cannot read. `Restart` takes back any subset of the leases, those that have
run out by then, and only then; if that read or the runner's first one fails, the
goroutine is `exited` till the next start.

### The pages

`polls` holds the requests on their way: `asked` what the requests not yet served
ask for, `got` the answers not yet shown, in the order in which they were given.
`page` is the state of `RunDetailPage`, with `stop` and `replay` as buttons that
wait for an answer; `panel` is the phase of `ReportPanel`. `runs`, `table`,
`strays` are the example app and its runs: a callback begins a step or completes
the run, a lost answer leaves a stray that still writes the table. In `Pages` a
tab shows one page; loading another drops the state of the one before.


## 3. What the runs check

Deadlock is not checked in any run: each system stops legitimately when all runs
have ended and nobody does anything (sends, deploys, clicks).

### `engine_safety` (EngineSafety.cfg; 1409922 states)

One run of `Sleep; SendEvent; WaitForEvent; Run`, three queue item ids, five
attempts, timeouts, throttle, a function that may be unregistered, two failing
store calls and two crashes, at any point.

* `TypeOK`: types.
* `SingleCarrier`: never two carriers (undisturbed, or with crashes where no
  step waits for an event: see `WaitFree`).
* `NoRunLost`: without faults and crashes an active run always has a carrier.
* `StepsInOrder`: steps finish in order; a completed run finished them all.
* `SleepsInFull`: no sleep is over before its time.
* `SentBeforeDone`: events are stored before their step is done, under every
  fault and crash.
* `AttemptsBounded`: at most `MaxAttempts + Len(Program)` dispatches.
* `ExecutedOnce`, `ResultsLast`: a step whose result is stored is not executed
  again, and its result is not replaced.
* `EndIsFinal`: the status of an ended run never changes, under every fault and
  crash.

One run is enough for these: runs share only the queue and the concurrency
limit, which the next run looks at. Three ids are enough for a run that may
have two items and a worker that still remembers a third. Four steps are
one of each kind; since hops and retries share one counter, five attempts are
what it takes for the last of them to fail and be retried.

### `engine_crash` (EngineCrash.cfg; 1223309 states)

Two runs of `Sleep; SendEvent` that compete for one concurrency slot (so
`Reject` happens), one crash anywhere. `SingleCarrier` across crashes, and
`ImplementsDurableRun`: what the runs do is a behaviour of `DurableRun`, that
is, steps finish one by one, in order, once; a run completes only when all of
them have; it ends once. The refinement maps `phase` to `status` and `done` to
the completed memos.

### `engine_live` (EngineLive.cfg; 15013 states)

The function of `engine_safety`, without faults and crashes, under `FairSpec`.
`EveryRunEnds`: a triggered run ends. `FailureAnnounced`: a failed run's
`triggerlink/run.failed` is stored. `EndedRunSwept`: an ended run leaves
neither a queue item nor an open wait behind. `ImplementsDurableRun` for
programs that wait.

### `agent_run` (AgentRun.cfg; 725063 states)

Two tools, a model that answers with no calls, two of one tool, two of both or an
unknown tool,
two iterations, two rounds, a hook that compacts the history after a large reply,
three attempts, two lost answers.

* `SameQuestion`: an llm step that is executed again is asked with the same
  history.
* `OwnOutput`: a tool call is answered by the output of its own execution, in the
  history and in the records.
* `DecisionDurable`: a tool acts, as a stray too, only on a recorded reply.
* `ResultOfMemos`: the result is that of the recorded steps: records, usage, text.
* `RecordedStays`: what is recorded is neither changed nor reordered.
* `Ends`: the run ends.

Two rounds of two iterations use a step id up to four times and a tool in two
replies, which is when keys could be confused; a second lost answer can hit the
execution that repeats the first. Two calls in one reply are what it takes for a
call to lie between its reply and its output, and two of one tool for the
outputs of one reply to be confused.

### `registration` (Registration.cfg; 318198 states)

Two apps of two versions each: the second of `a` takes a function of `b` over and
drops one of its own, the second of `b` has a timeout its SDK throws on. Two
requests at a time, one `-app` URL, two attempts, two faults (crash, broken
connection, store error, a request of an operator).

* `RoutedOnce`: the subscriptions are those of the functions in the registry.
* `RegistryIsTable`: registry and table agree.
* `AckedIsRouted`: an app that was told so is routed to as its version says.
* `FailureIsHandled`: the failure of a function reaches its `onFailure` and no
  other.
* `Settles`: a register loop comes to an end.

Two requests are what it takes to interleave; two apps to have a function move;
two versions to have one replaced; two faults for a lost answer before a crash.
The exceptions of the properties are named in them: `apart` (two registrations
overlapped between fetch and sync, or the table could not be read or written at
startup) and `Shared` (an id that two apps claim belongs to the last). They are
needed: without them TLC finds the registry and the table apart.

### `flow` (Flow.cfg; 322141 states)

An event with a debounced subscriber and one with a batched one (batches of two), two
events of either name, two faults (an error of a store call or a crash).

* `BatchesInOrder`: the batches and what is collected are what was appended, in
  order, each once, however flushes by size and by time meet errors.
* `QueuedIsEnqueued`: a run that has not ended has a queue item, pending or leased,
  over retries, errors and crashes.
* `WindowIsLive`: an open window is that of a run that has not ended and has an item.
* `AllHandled`: every routed event comes to be executed.

Two events are what it takes to merge, to fill a batch, and to have one routed
again behind the other; a third adds no interleaving at a window, which knows only
its run and the last event. Two faults are an error beside another one, or beside a
crash. With both functions behind one event the instance is too large for two faults:
an error between its two subscribers repeats the first one, as an error of
`MarkEventRouted` does here; the proofs are for any subscribers. The exceptions are
the cases in which the code does lose an event (section 6):

* `cut`: the routing of the run stopped between `CreateRun` and `Enqueue`;
* `dropped`: an error of `GetRun`, `CompleteRun` or `FailRun` took the item of a run
  that had not ended;
* `raced`: an event or a window came to the run beside or after its dispatch, or its
  window could not be closed;
* a run that was cancelled, timed out, failed or is not registered any more, whose
  window nobody closes;
* `AwaitsStart` (of `AllHandled` only): the run's item is leased by nobody who lives,
  or the runner or the executor has exited, and the process goes on.

What is appended twice because it was routed twice is in `appended` twice: the code
accepts that.

### `pages` (Pages.cfg; 687572 states)

Two runs (or a run and its replay), one step each, one fault, two requests of a
page on their way.

* `FrozenIsFinal`: a run page that has stopped polling shows its run as it ended.
* `Converges`: a page that stays on an ended run comes to show that.
* `DoneIsCompleted`: the task of a completed run is completed, whatever strays do.
* `FollowedUpOnce`: the follow-up of a task is sent once, for a result there is.
* `PanelCompletes`: the panel comes to show a completed task.

Two requests overtake each other; two runs are what it takes to change the
address, or to start a second report while the first is polled. The exception
`stale` says that an answer was shown that had been overtaken or was asked for
something else; without it `FrozenIsFinal` and `FollowedUpOnce` fail.

### Violations

Five runs check one statement each that the documents make and the code does
not keep; see section 6.

### Bounds

`MaxFaults` and `MaxCrashes` bound the failures of a behaviour, `Items` the
queue item ids in use at a time (an id is free again when its row and its
worker are gone; the code's ids are random and never reused), `Program` the
steps. Nothing else is bounded: attempts bound themselves. In the other models
`MaxLost`, `MaxFaults` bound failures, `MaxEvents`, `MaxRuns` what comes from
outside, `MaxPolls` the requests of a page on their way, `Slots` the requests the
platform handles at once; `MaxAttempts`, `MaxIterations`, `MaxSize` and
`Rounds` are parameters of the code or the function, not bounds.

Each property has a mutant, a plausible bug in one mapped definition (a dropped
status condition, a carrier released twice, a call left out), under which its
run fails. The mutants are the operators marked so in the modules.


## 4. Fairness

`Fairness` in `Engine` asks of the platform what its scheduling gives:

* weak fairness of the loop and of each worker: goroutines that can run do, and
  a callback returns, because the HTTP client gives up after five minutes
  (`executor.go:112`);
* weak fairness of the runner's handlers once they are under way, and of its
  insert;
* if waits have a timeout, strong fairness of taking each of them up: the
  runner's `select` comes back to the tick of the timeout scan again and again,
  but in between it may be busy;
* weak fairness of time.

Nothing is asked of anyone outside: events, cancellations and run timeouts may
never come. So `EveryRunEnds` holds only if waits expire (`WaitExpires`); a
run that waits for an event that never comes waits for ever, as documented.

The other models ask as little:

* `AgentRun`: weak fairness of callback, step and record together: the platform
  calls an active run back (that is `Engine`'s subject) and steps come to an end.
  Nothing forces an answer to be lost or a stray to end.
* `Registration`: weak fairness of each app (it comes to serve, its timer fires),
  of each request, and of the platform's start. Nothing makes an app be deployed.
* `Flow`: weak fairness of the runner, of the executor's goroutines together and of
  the restart; strong fairness of the timeout scan of batches, whose ticker fires
  every second (`runner.go:50`) in a `select` that is busy in between, and of
  `Return`: the attempts of a run are limited (`executor.go:478`, `AttemptsBounded`),
  so that callbacks are not retried for ever. Nothing makes a lease run out.
* `Pages`: weak fairness of the timers of the open page, of the server's answers
  and of showing them. Neither the app nor the user has to do anything.


## 5. What is proved

Theorems hold for every value of the constants: every set of runs and items,
every program, every bound on faults and crashes; every set of tools and replies,
every hook, number of rounds and attempts; every set of apps, versions, keys and
slots; every set of functions, size of a batch and number of events; every number
of steps of a report, of its runs and of requests on their way. They rest on the named assumptions of the modules only (`StoreAssumption`:
`NoRun` is no run; types of the other constants).

* `EngineProofs!ShapeHolds`, `TypeCorrect`. Types alone are not inductive: that
  `Save` writes a memo of a step of the program needs that a worker about to
  save holds an answer that names one. `Shape` says what each program counter
  implies for the worker's locals and for its row of the queue (`WorkerOK`),
  and the same of the runner and of the loop. One lemma per action.
* `CarrierProofs!OneCarrier` proves `SingleCarrier`. The invariant `CarrierInv`
  splits "at most one carrier" into one conjunct per pair of kinds of carrier:
  `ItemsOfOneRun`, `WaitsOfOneRun`, `RunnerOrItem`, `RunnerOrWait`,
  `ItemOrWait`, and `Unborn` (a run that does not exist has no carrier, which
  is why `Trigger` may give it one). A carrier is only ever replaced: the
  proof shows for each action that the new carrier appears in the step in which
  the old one goes, or that the run had none. The window of
  `handleWaitForEvent` is excluded by a worker being `Parked`; after a crash it
  is not, hence `Undisturbed`.
* `EngineProofs!EndsAreFinal` proves `EndIsFinal`: each action that writes
  `status` does so only to a run that has not ended, though several of them
  decided on an older read; it is the condition in the UPDATE statements of
  `MarkRunRunning`, `CompleteRun`, `FailRun`, `CancelRun` and `TimeoutRun` that
  makes it true.
* `EngineProofs!EventsBeforeMemo` proves `SentBeforeDone`. Inductive with
  three more facts: only sleep steps have a sleeping memo (or `WakeSleeping`
  could complete a fan-out), only waiting steps have a wait (or the runner
  could), and a worker about to save the memo of a fan-out has stored its
  events.
* `ProgressProofs!StepsFollowProgram`, `ResultsStay`, `NeverExecutedAgain`: three
  properties, one invariant, `ProgressInv`. That the steps finish in order says
  nothing of a worker that answers for a run which has moved on since. So the
  invariant says what each goroutine knows: what a worker put in its callback is
  what is stored until it has stored the answer, so the step of the answer is the
  next one of the run (`WorkerProgress`); a wait is open as long as its memo is,
  or the runner is about to close it (`WaitProgress`, `RunnerProgress`); and a
  run that waits is carried by nothing else (`WaitersParked`). `SingleCarrier` is what
  makes it inductive: a memo is written by the run's only carrier.
* `ProgressProofs!EngineIsDurable`: `Engine` implements `DurableRun`. Each action
  is classified by what it does to statuses and memos (`Creates`, `Begins`,
  `Records`, `Completes`, `GivesUp`, or nothing), and `StepsAreDurable` maps each
  class to an action of `DurableRun` or a stutter. The theorem assumes what
  `Undisturbed` says of states, as a condition on the constants: `MaxFaults = 0`, and
  `MaxCrashes = 0` or `WaitFree`. `engine_crash` and `engine_live` are instances
  of both cases. It is needed: `hop_violation` and `wait_violation` are what happens
  without.
* `ProgressProofs!SleepsLast`. `SleepInv`: a sleeping run is carried by its own worker
  or by the item that holds its `until`, which `Lease` does not take before.
* `ProgressProofs!NoWakeUpLost` proves `NoRunLost`, the converse of `OneCarrier`. A
  worker that drops its item for good has seen the run end, or parked it
  (`EndsWell`); a closed wait is not waited for again, since its memo is done or the
  run has ended (`WaitsTold`). Together they say that a carrier is only
  ever given up for another one or at the end (`CarriedInv`).
* `ProgressProofs!DispatchesAreBounded`. A count of dispatches is bounded only if
  each is paid for: `AttemptsInv` says that the attempts of a run are within
  `MaxAttempts` and the number of its first steps that are done or open, and that
  whatever will have it dispatched again (an item, the runner, a wait) leaves one to
  spare. The limit itself is compared with the attempt a worker read, hence `Counted`.
  These three hold without faults and crashes (`Calm`): `sleep_violation`,
  `hop_violation`, `wait_violation` show how a crash breaks the first two, and a crash
  repeats a dispatch.

* `AgentProofs!AgentInvariant`. Why do memos fit a function that starts anew each
  time? Because the loop is a function of the outputs it was given. `trail` makes
  that a state: `TrailOK` says that it begins with `Fresh`, that the step recorded
  at place `i` has the key the loop asked for at position `trail[i]`, and that
  `trail[i+1]` is `After` that position with the recorded output. `CallbackOK`
  says that a callback that has gone through `hits` memos stands at
  `trail[hits + 1]`; a memo is then found exactly at the next place, since no key
  occurs twice (`CountedBefore`: a position has counted every step before it). `StraysOK`
  says that a stray stands at a position of the trail too, `AskedOK` that every
  question is that of such a position.
  * `SameQuestionAlways`: two questions with one key are of one position.
  * `DecisionDurableAlways`: a position that has come to a tool call has gone
    through the record of the reply that asked for it.
  * `RecordedStaysAlways`: `SaveStepResult` could overwrite; the answer of a
    callback is for the key after the last, so it appends.
  * `OwnOutputAlways`: `OwnInv` says that at every position of the trail an output is
    under its own call, in the history and in the records; each step adds one pair,
    made by `ToolMsg`. Between two steps the hook may rewrite the history as it likes,
    so the theorem assumes that it puts no output under another call (`HonestHook`).
    A hook that drops, reorders or shortens messages is one, the `Compacts` of
    `MCAgent` among them.
  * `AgentTypesHold`: the bound on the attempts is the same argument as the engine's,
    with lost answers to pay for too (`AttemptsOK`).
  * `ResultOfMemosAlways`: the property compares the result with recursive sums over
    the recorded steps; `OutsAppend`, `UsedAppend`, `CallsAppend` and `LastOfAppend` say
    what one step more adds to each of them. `Tallied` then says of every position of
    the loop that it has used and recorded what the replies of its round come to, but
    for the calls that are still due: a round is the last `it` replies. The theorem
    assumes that the hook returns a list if it is given one (`ListHook`), which is its
    type.
* `RegistrationProofs!RegistrationInvariant`. Types are needed first: that `req`
  and `loop` agree on who waits, and that what is in the table is of the shape of
  a manifest.
  * `RegistryIsTableAlways` (`Ahead`): while nothing is `apart`, at most one request
    is between its two writes; the table is the registry with its functions put
    in, and is the registry if there is none.
  * `AckedIsRoutedAlways` (`Told`): an app's loop is done only when the manifest of
    its version was written to both, and no request that holds an older one is
    left by then (`NoneOlder`): one that held a manifest when the other wrote
    would have set `apart`.
  * `RoutedOnceAlways` (`SubsInv`): the bag of subscriptions is one of each function of
    the registry, and everything that could still be synced (a request's functions,
    the table) names its functions by their ids. The second part is what lets
    `sync` find, under an event and an id, the old function and only that.
  * `FailureIsHandledAlways`: what the registry and the table hold under an id was made
    by some manifest (`Made`, `Origin` in `SubsInv`), and an app that was told so has
    been started (`Awake`). Its manifest has the implicit function of each function
    that asks for one, and what else is in the registry matches another function or
    none. The theorem assumes `NamesReserved`: no id in any version of an app ends in
    `on-failure`, and none of its functions matches failures by hand. Without it the
    property is false: `serve` lets a function of the app take the place of the one it
    makes, as the last of an id is served. The apps of the run keep to it.
  * `RegistrationTypesHold` (`LoopInv`): a loop that waits has a request that will
    answer it, and its timer runs below the limit only.
* `FlowProofs!FlowInvariant`. Besides the types (a goroutine works on a leased item
  and only while the executor is up): a run that is being called back has no window
  any more, or is one of the exceptions (`Shut`), so that its end leaves none behind;
  and one that the runner is about to enqueue has no item yet (`New`), so that no
  executor works on it meanwhile.
  * `TypesHold`: with it that no run completes without having been given an event.
  * `QueuedIsEnqueuedAlways`, `WindowIsLiveAlways` are parts of the invariant. What
    the executor does to a run is of one form (`RunMoves`): the item stays, or the run
    ends, or it is `dropped`; its windows are closed or stay. `LeaveInv` and
    `EndRunInv` bring the ends of a dispatch to it, with whatever errors; `AllIdle`
    does the same for a crash and a start.
  * `BatchesInOrderAlways` (`BatchInv`): batches and window, one after the other, are
    what was appended. A flush by size must find something to flush: the runner gets
    there only with an entry in the window, and the timeout's flush is the same
    goroutine.
* `PagesProofs!PagesInvariant`. What is on its way to a page has to be right before
  the page can be: an answer that a run has ended is true of it (`Past`), two answers
  about one run are in the order in which the server gave them (`Order`), and every
  answer that a page which no longer polls may still get, and that was not
  overtaken, says that the run has ended (`Frozen`). On the app's side, a run that
  went through its steps and is the only one of its task has told the table
  (`Through`), and a new task gets an id no run has (`KnownOK`).
  * `FrozenIsFinalAlways` is `Frozen` without the answers.
  * `DoneIsCompletedAlways`: a completed run has gone through its steps.
  * `PanelInvariant`, `FollowedUpOnceAlways`: as long as nothing is `stale`, the task
    the panel shows is the one its polls ask for. Then the ids its clicks were answered
    with are new, different ones that have not been followed up (`Clicked`), a poll that
    says completed is of a task that has a result (`Results`), and a task followed up
    is one the panel remembers or has left for good (`Followed`), since a click
    always gets another id.
  * `PagesTypesHold`: with it that no page has more requests on their way than it may.

Induction over data has to be stated without a schema: an induction theorem
that takes a predicate cannot be instantiated by the provers installed. `NatSets`
proves `SetInduction` instead, whose parameter is a set of naturals, from the theorem
that there is no infinite descending chain of finite sets; with it that `FlattenSeq`, a
fold over a sequence of batches, and `OutsOf` and `Total`, recursive functions over the
recorded steps, grow by what is appended (`FlattenAppend`, `OutsAppend`, `TotalLonger`).
In the same way `LastPlace` gives the function that is served of several with one id.

Model-checked only are the liveness properties `EveryRunEnds`, `FailureAnnounced`,
`EndedRunSwept`, `Ends`, `Settles`, `AllHandled`, `Converges`, `PanelCompletes`: the
prover does not treat fairness and ENABLED.


## 6. Where the code and its documents disagree

Each has a run that ends in a counterexample.

1. **A run that was cancelled is announced as failed** (`announce_violation`).
   `failRun` announces whenever `FailRun` returns no error; `FailRun` returns
   none when the run was cancelled during the callback.
2. **A crash cuts a sleep short** (`sleep_violation`). The item of the hop that
   went to sleep survives the crash as a lease, is requeued and dispatched, and
   `CompleteSleepingSteps` completes the memo whatever the time.
3. **A crash between two hops loses the run** (`hop_violation`).
   `CompleteQueueItem` and `enqueueNext` are separate transactions; nothing at
   startup looks for running runs without a queue item.
4. **A crash while parking loses the wake-up** (`wait_violation`). The replayed
   opcode sets the memo of a wait that has been resolved back to waiting, and
   `CreateWait` leaves the resolved wait as it is.
5. **A quick restart never takes its leases back** (`lease_violation`). Leases
   are requeued once, at startup, if they have run out by then.

Met while modelling, without a run of their own; the properties name them as
their exceptions:

6. **A debounce window outlives its run.** The user guide (`user-guide.md:442`)
   and the comment at `runner.go:263` say that an event that meets the dispatch
   lands in the snapshot and may start a second run. In `Flow` it may also be
   merged into a run whose snapshot has been read, and the runner's upsert puts the
   closed window back: it stays, no run follows, and every later event of the key
   is merged into a run that has ended. A run that is cancelled leaves its window
   behind in the same way, and so does an error of `DeleteDebouncePendingByRun`,
   which is only logged, and a function that is not registered any more
   (`executor.go:182-187`). (`WindowIsLive`, `AllHandled`: `raced`, stopped.)
7. **A run whose routing is cut is never enqueued.** `route` is repeated after an
   error or a crash, but `CreateRun` then finds the run and the function is
   skipped. (`QueuedIsEnqueued`, `AllHandled`: `cut`.)
8. **An error takes a run out of the queue.** `dispatch` deletes the item of a run that
   it cannot read (`executor.go:172-177`), and of one whose `CompleteRun` or `FailRun`
   failed; the run never ends, and if its window is open it absorbs every later event
   of its key. (`QueuedIsEnqueued`, `WindowIsLive`, `AllHandled`: `dropped`.)
9. **A goroutine that exits at startup is not started again.** If `UnroutedEvents`
   (`runner.go:33-36`) or `RequeueExpiredLeases` (`executor.go:46`) fails, `main` logs it
   and goes on: nothing is routed, or executed, until somebody restarts the process.
   (`AllHandled`: `AwaitsStart`.)
10. **One bad number unregisters an app.** A malformed config is to count as unset
    for its function (`protocol.md:76`, `registry.go:48`). The TypeScript SDK throws
    on a negative or infinite number (`serve.ts:77`; it leaves out 0 and NaN), so that
    GET fails and no function of the app is registered. (`AckedIsRouted`: such an app
    is not told that it is.)
11. **The hook of the manual breaks pairs.** `sdk-ts/README.md:190` proposes
    `messages.slice(-8)` next to the demand that calls and results stay paired; the
    slice may begin with a tool's result, which `assertPreparedMessagesShape`
    refuses.
12. **`onResponse` runs more than once.** `agent.ts:328` says once; it is called
    before the step's output is recorded, so an answer that is lost or a hook that
    throws repeats it with the model call.
13. **A late answer stays.** An answer shown after a later one, or asked for before
    the address or the phase changed, is taken for the present
    (`RunDetailPage.jsx:138`, `ReportPanel.tsx:26`): the run page can stop polling
    on another run's end, the panel can follow up on the task before. After a
    replay that succeeded the button goes on saying so, since `replaying` is not
    reset (`RunDetailPage.jsx:168`). (`FrozenIsFinal`, `FollowedUpOnce`: `stale`.)

Read off code that section 8 plans to model:

14. **Throttle.** On Postgres `ReserveThrottleSlot` (`store.go:863`) reads the row
    and writes it back at the default isolation, without a lock, so that two
    reservations may take the last slot, against `protocol.md:73`. The janitor
    deletes the row after 24 hours (`janitor.go:25`); `store.go:908` says that its
    window is over by then, but a period has no upper bound.
15. **Cron.** Of several ticks in the window of a late check only the first is
    fired (`scheduler.go:99`), against `protocol.md:85`. An expression that parses
    and is never due has the zero time as its next one, which is not after now: it
    is fired once after each start, against the comment at `scheduler.go:32`.
16. **Retention.** `DeleteEventsBefore` (`store.go:957`) does not look at whether
    the event was routed: one whose routing failed is deleted if the process stays
    up for the retention period, against `user-guide.md:49`.


## 7. What the models leave out

* The values of times: backoffs, delayed events and run timeouts may be due at
  any time; only the `until` of a sleep is kept track of. The throttle's window
  is a choice to refuse.
* Payloads, outputs and error messages. An answer the executor does not store
  anything for (a handler error, a malformed or unknown opcode) is `RunError`.
* Code around the steps: a function is a sequence of steps; it does not branch
  on their results and does not return early.
* One function is registered; runs differ only in their names.
* The runner's startup: it routes the events that were stored and not routed,
  and exits if it cannot read them. (An executor whose reconciliation fails
  exits too, and is modelled: `loop.pc = "exited"`.)
* Errors of `TimeoutRun`, of `CancelRun` and of the reads of the scans: the
  code logs them and the state is unchanged, as if the scan had not come.
* The push of a stored event on the stream: a worker or the loop may block on it
  while the runner is busy; since it takes nothing the runner needs, it is a
  delay.
* Agent: the registry of claimed names, `redact`, the lifecycle hook (it may throw,
  which is `StepError`). A lost answer is modelled once the step has begun or the
  callback is under way. The other steps of the SDK are in `Workflow`.
* Registration: the options that are passed on as they are, the GET of the list,
  the verification of callbacks (the same function as that of GET).
* Flow: the key of a window (each key is a window like this one), the values of
  periods and timeouts (a run is dispatched, a batch flushed, at any time), match and
  pause, plain functions and waits (`Runner`), steps and hops, `run.failed`
  (`Executor`), the number of attempts (whether one is left is a choice), the
  throttle's window and the count in flight (`HoldBack` is a choice), the bound of the
  stream, a batch window whose function lost its configuration. The runs of batches
  are ended where they are made.
* Pages: a restart of the app, which forgets its table; `process-doc`; a poll that
  fails (it shows a banner); the time line, which is computed from what is shown;
  the list pages, whose state is a filter and rows that were loaded; more than one
  tab. A replay's two store calls are one step.
* Everything that section 8 plans.


## 8. Plan

Done:

1. **Core** (`Workflow`, `Store`, `Executor`, `Runner`, `Engine`,
   `DurableRun`): the life of runs.
2. **Proofs of the core**: types, `SingleCarrier`, `EndIsFinal`, `SentBeforeDone`;
   then order, durability and the refinement, sleeps, wake-ups, attempts.
3. **Agent** (`AgentLoop`, `AgentRun`) with step memos under repeated ids and
   re-entry; `AgentProofs`.
4. **Registration** with concurrent requests, restart and restore;
   `RegistrationProofs`.
5. **Flow**: debounce and batch beside the executor; `FlowProofs`.
6. **Pages**: the run page, the panel and the example app; `PagesProofs`.

To come, in this order:

7. **EventRouting**: the event API, webhooks, the bounded stream, plain functions
   and waits beside each other, the runner's pause, replay. Every accepted event
   reaches every subscriber at least once and starts at most one run per function.
8. **Throttle**: the row of one key as the age of its window and a count; a
   reservation is one step (SQLite has one connection) or a read and a write
   (Postgres). At most `limit` runs start within a period, each pays once, all start.
9. **Scheduler**: the ticker with the one tick its channel holds, the window
   `(last, now]`, what was fired, registrations that change an expression, a clock
   that is set back. One run per tick; no tick dropped but those of 15 in section 6.
10. **Janitor** beside reconciliation and a producer that sends again, with ages in
    days. No event is deleted that an active run or the routing needs.
11. **Lists**: the run list, whose older pages are loaded beside the polling.
