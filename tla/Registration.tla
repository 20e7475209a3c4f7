---------------------------- MODULE Registration ----------------------------
(***************************************************************************)
(* How the functions of the apps come to the platform.  An app registers   *)
(* itself when it starts and tries again until it is answered (client.ts); *)
(* the platform asks it for its manifest (serve.ts GET, registry.go Fetch),*)
(* writes the functions to the table and then to the registry that events  *)
(* and callbacks are routed by (appapi/handler.go).  Requests are handled  *)
(* concurrently and without a lock.  The registry is lost in a crash; the  *)
(* platform restores it from the table and asks the apps of its -app flags *)
(* again (main.go).                                                        *)
(***************************************************************************)
EXTENDS Integers, Sequences, FiniteSets, Bags

CONSTANTS
  Apps,                 \* serve URLs
  Code,                 \* Code[u][v]: the functions in version v of the app at u
  Static,               \* the URLs of the platform's -app flags, in order
  Key, Skew,            \* the signing key of an app, and its clock against the platform's
  PlatformKey, Tolerance,
  MaxAttempts,          \* RegisterOptions.attempts
  Slots,                \* bound on the requests handled at once
  MaxFaults             \* bound on crashes, broken connections, store errors and
                        \* on the requests of operators

VARIABLES
  ver,                  \* the version of the app that runs; 0: none was started
  serving,              \* the apps that accept requests
  loop,                 \* the register loop of each app
  req,                  \* the requests the platform handles
  plat,                 \* the state of the platform, and the -app URLs left to ask
  byID, byEvent,        \* the registry; byEvent is the bag of all subscriptions
  table,                \* the functions table
  faults,
  apart                 \* auxiliary: something let the registry and the table part

vars == <<ver, serving, loop, req, plat, byID, byEvent, table, faults, apart>>

-----------------------------------------------------------------------------
(* The SDK: what an app tells of its functions. *)

FailedEvent == "triggerlink/run.failed"
Unset       == [as |-> "none", valid |-> TRUE]

\* onFailure becomes a function <id>/on-failure of its own; of is the function
\* its match asks for.
ImplicitID(f) == Append(f.id, "on-failure")
Implicit(f)   == [id |-> ImplicitID(f), event |-> FailedEvent, cron |-> FALSE, of |-> f.id,
                  onFailure |-> FALSE, timeout |-> Unset]

\* createFunction accepts f; an app with another function does not start.
Created(f) == f.id # <<>> /\ (f.event # "" \/ f.cron)
ASSUME CodeAssumption ==
  \A u \in Apps :
    /\ Len(Code[u]) \in Nat /\ DOMAIN Code[u] = 1 .. Len(Code[u])
    /\ \A v \in DOMAIN Code[u] :
         /\ Len(Code[u][v]) \in Nat /\ DOMAIN Code[u][v] = 1 .. Len(Code[u][v])
         /\ \A k \in DOMAIN Code[u][v] : Created(Code[u][v][k])
ASSUME BoundsAssumption ==
  /\ {MaxAttempts, MaxFaults} \subseteq Nat
  /\ Static \in Seq(Apps)

\* The ids f is served under.
OwnOnly(f) == {f.id}                 \* mutant: no function for failures
Names(f)   == {f.id} \cup IF f.onFailure THEN {ImplicitID(f)} ELSE {}

\* serve: the functions and the implicit ones by id; the last of an id stands.
Served(fns) ==
  LET of(id) == {k \in DOMAIN fns : id \in Names(fns[k])}
      f(id)  == fns[CHOOSE k \in of(id) : \A j \in of(id) : j <= k]
  IN [id \in UNION {Names(fns[k]) : k \in DOMAIN fns} |-> IF id = f(id).id THEN f(id) ELSE Implicit(f(id))]

\* verifySignature: the keys agree and so, more or less, do the clocks.
Verified(u) == Key[u] = PlatformKey /\ Skew[u] \in -Tolerance .. Tolerance

\* msToGoDuration throws on a negative or infinite number (0 and NaN are left out, as
\* if not set); a string goes to the platform as it is, which takes what is
\* no duration for unset.
Throws(d)  == d.as = "number" /\ ~ d.valid
Decoded(d) == IF d.valid THEN d ELSE Unset

\* What GET makes of functions served at u, and as what the platform decodes it.
Readable(fns)      == \A id \in DOMAIN fns : ~ Throws(fns[id].timeout)
ManifestOf(u, fns) == [id \in DOMAIN fns |-> [id |-> id, url |-> u, event |-> fns[id].event,
                                              of |-> fns[id].of, timeout |-> Decoded(fns[id].timeout)]]
Functions == [u \in Apps |-> [v \in DOMAIN Code[u] |-> Served(Code[u][v])]]
Manifests == [u \in Apps |-> [v \in DOMAIN Code[u] |-> ManifestOf(u, Functions[u][v])]]
Manifest(u) == Manifests[u][ver[u]]
GetOK(u)    == u \in serving /\ Verified(u) /\ Readable(Functions[u][ver[u]])

-----------------------------------------------------------------------------
(* The table and the registry of the platform. *)

Known(m, u) == {id \in DOMAIN m : m[id].url = u}

KeepsOld(m, u, fns) ==               \* mutant: what u no longer has stays
  [id \in DOMAIN m \cup DOMAIN fns |-> IF id \in DOMAIN fns THEN fns[id] ELSE m[id]]
\* What is known of u is replaced by fns; an id known of another URL moves to u.
Replaced(m, u, fns) ==
  [id \in (DOMAIN m \ Known(m, u)) \cup DOMAIN fns |-> IF id \in DOMAIN fns THEN fns[id] ELSE m[id]]

\* One subscription of each of the functions old to its event goes.
Unsubscribed(subs, old) ==
  LET of(f) == {x \in BagToSet(subs) : x.event = f.event /\ x.id = f.id}
  IN subs (-) SetToBag({CHOOSE x \in of(f) : TRUE : f \in {f \in old : of(f) # {}}})
Subscribe(subs, fns) == subs (+) SetToBag({fns[id] : id \in DOMAIN fns})

\* Sync: the old functions of u go, and those fns takes over from another URL.
KeepsMoved(m, subs, u, fns) ==       \* mutant: what moves is not unsubscribed
  Subscribe(Unsubscribed(subs, {m[id] : id \in Known(m, u)}), fns)
Resubscribed(m, subs, u, fns) ==
  LET old == Known(m, u) \cup (DOMAIN fns \cap DOMAIN m)
  IN Subscribe(Unsubscribed(subs, {m[id] : id \in old}), fns)

Sync(u, fns) ==
  /\ byID' = Replaced(byID, u, fns)
  /\ byEvent' = Resubscribed(byID, byEvent, u, fns)

Match(event)   == {x \in BagToSet(byEvent) : x.event = event}
Empty          == [id \in {} |-> {}]
Fault          == faults < MaxFaults /\ faults' = faults + 1

-----------------------------------------------------------------------------
(* The apps and their register loops (client.ts). *)

NoLoop  == [pc |-> "off", attempts |-> 0]
Started == [pc |-> "timer", attempts |-> 0]
FreeReq == [pc |-> "free", url |-> "", fns |-> Empty, client |-> FALSE]
Posted(u, client) == [pc |-> "posted", url |-> u, fns |-> Empty, client |-> client]
With(r, fns)      == [pc |-> "fetched", url |-> r.url, fns |-> fns, client |-> r.client]
Persisted(r)      == [pc |-> "persisted", url |-> r.url, fns |-> r.fns, client |-> r.client]
Unheard(r)        == [pc |-> r.pc, url |-> r.url, fns |-> r.fns, client |-> FALSE]

\* tryRegister has its answer, or none: it ends, waits for its timer or gives up.
Forever(l, ok)    == [l EXCEPT !.pc = IF ok THEN "done" ELSE "timer"]     \* mutants: no limit,
NeverAgain(l, ok) == [l EXCEPT !.pc = IF ok THEN "done" ELSE "asking"]    \* no timer
Answered(l, ok) ==
  [l EXCEPT !.pc = IF ok THEN "done" ELSE IF l.attempts < MaxAttempts THEN "timer" ELSE "gaveup"]

\* A version is started in the place of the one before.  The instrumentation
\* hook registers it, which may be before it serves.  A request the old process
\* sent is handled on, until the platform notices.
Deploy(u) ==
  /\ ver[u] < Len(Code[u])
  /\ ver' = [ver EXCEPT ![u] = @ + 1]
  /\ serving' = serving \ {u}
  /\ loop' = [loop EXCEPT ![u] = Started]
  /\ req' = [s \in Slots |-> IF req[s].url = u THEN Unheard(req[s]) ELSE req[s]]
  /\ UNCHANGED <<plat, byID, byEvent, table, faults, apart>>

Listen(u) ==
  /\ ver[u] > 0 /\ u \notin serving
  /\ serving' = serving \cup {u}
  /\ UNCHANGED <<ver, loop, req, plat, byID, byEvent, table, faults, apart>>

\* A request to register u reaches the platform in slot s.
Arrives(s, u, client) ==
  /\ plat.pc = "up" /\ req[s].pc = "free"
  /\ req' = [req EXCEPT ![s] = Posted(u, client)]

\* tryRegister: the platform takes the request, or cannot be reached.
TryRegister(u) ==
  LET now == [pc |-> "asking", attempts |-> loop[u].attempts + 1] IN
  /\ loop[u].pc = "timer"
  /\ \/ /\ \E s \in Slots : Arrives(s, u, TRUE)
        /\ loop' = [loop EXCEPT ![u] = now]
     \/ /\ plat.pc # "up"
        /\ loop' = [loop EXCEPT ![u] = Answered(now, FALSE)]
        /\ UNCHANGED req
  /\ UNCHANGED <<ver, serving, plat, byID, byEvent, table, faults, apart>>

\* The connection breaks; the request is handled on.
HangUp(s) ==
  /\ Fault /\ req[s].client
  /\ loop' = [loop EXCEPT ![req[s].url] = Answered(@, FALSE)]
  /\ req' = [req EXCEPT ![s] = Unheard(@)]
  /\ UNCHANGED <<ver, serving, plat, byID, byEvent, table, apart>>

-----------------------------------------------------------------------------
(* The platform handles the requests (appapi/handler.go). *)

\* An operator registers an app, or syncs one that is registered.
Operator(s, u, isSync) ==
  /\ Fault
  /\ isSync => Known(byID, u) # {}
  /\ Arrives(s, u, FALSE)
  /\ UNCHANGED <<ver, serving, loop, plat, byID, byEvent, table, apart>>

Reply(s, ok) ==
  /\ req' = [req EXCEPT ![s] = FreeReq]
  /\ loop' = IF req[s].client THEN [loop EXCEPT ![req[s].url] = Answered(@, ok)] ELSE loop

\* Fetch asks the app for its manifest; 502 if it has none to give.
Fetch(s) ==
  /\ req[s].pc = "posted"
  /\ IF GetOK(req[s].url)
     THEN /\ req' = [req EXCEPT ![s] = With(@, Manifest(req[s].url))]
          /\ UNCHANGED loop
     ELSE Reply(s, FALSE)
  /\ UNCHANGED <<ver, serving, plat, byID, byEvent, table, faults, apart>>

\* Another request holds a manifest and has not finished.
Overlaps(s) == \E t \in Slots \ {s} : req[t].pc \in {"fetched", "persisted"}

Persist(s) ==
  /\ req[s].pc = "fetched"
  /\ table' = Replaced(table, req[s].url, req[s].fns)
  /\ req' = [req EXCEPT ![s] = Persisted(@)]
  /\ apart' = (apart \/ Overlaps(s))
  /\ UNCHANGED <<ver, serving, loop, plat, byID, byEvent, faults>>

SyncAnyway(s) ==                     \* mutant of Fails: the registry is updated
  /\ Fault /\ req[s].pc = "fetched"
  /\ Sync(req[s].url, req[s].fns)
  /\ Reply(s, FALSE)
  /\ UNCHANGED <<ver, serving, plat, table, apart>>
\* The fetch runs into its limit or the table is not written: 502 or 500.
Fails(s) ==
  /\ Fault /\ req[s].pc \in {"posted", "fetched"}
  /\ Reply(s, FALSE)
  /\ UNCHANGED <<ver, serving, plat, byID, byEvent, table, apart>>

SyncAndReply(s) ==
  /\ req[s].pc = "persisted"
  /\ Sync(req[s].url, req[s].fns)
  /\ Reply(s, TRUE)
  /\ UNCHANGED <<ver, serving, plat, table, faults, apart>>

-----------------------------------------------------------------------------
(* Start, crash and restart of the platform (main.go). *)

Crash ==
  /\ Fault /\ plat.pc # "down"
  /\ plat' = [pc |-> "down", todo |-> <<>>]
  /\ byID' = Empty /\ byEvent' = EmptyBag
  /\ req' = [s \in Slots |-> FreeReq]
  /\ loop' = [u \in Apps |-> IF loop[u].pc = "asking" THEN Answered(loop[u], FALSE) ELSE loop[u]]
  /\ UNCHANGED <<ver, serving, table, apart>>

\* The registry is restored app by app; an error leaves it empty.
Restore ==
  /\ plat.pc = "down"
  /\ plat' = [pc |-> "asking", todo |-> Static]
  /\ \/ /\ byID' = table
        /\ byEvent' = Subscribe(EmptyBag, table)
        /\ UNCHANGED <<faults, apart>>
     \/ /\ Fault /\ apart' = TRUE
        /\ UNCHANGED <<byID, byEvent>>
  /\ UNCHANGED <<ver, serving, loop, req, table>>

\* An app of the -app flags is asked, its functions go to the registry and then
\* to the table; what fails is skipped.
Introspect ==
  /\ plat.pc = "asking" /\ plat.todo # <<>>
  /\ plat' = [pc |-> "asking", todo |-> Tail(plat.todo)]
  /\ LET u == Head(plat.todo) IN
     IF GetOK(u)
     THEN /\ Sync(u, Manifest(u))
          /\ \/ table' = Replaced(table, u, Manifest(u)) /\ UNCHANGED <<faults, apart>>
             \/ Fault /\ apart' = TRUE /\ UNCHANGED table
     ELSE UNCHANGED <<byID, byEvent, table, faults, apart>>
  /\ UNCHANGED <<ver, serving, loop, req>>

Up ==
  /\ plat.pc = "asking" /\ plat.todo = <<>>
  /\ plat' = [pc |-> "up", todo |-> <<>>]
  /\ UNCHANGED <<ver, serving, loop, req, byID, byEvent, table, faults, apart>>

-----------------------------------------------------------------------------
Init ==
  /\ ver = [u \in Apps |-> 0] /\ serving = {}
  /\ loop = [u \in Apps |-> NoLoop]
  /\ req = [s \in Slots |-> FreeReq]
  /\ plat = [pc |-> "down", todo |-> <<>>]
  /\ byID = Empty /\ byEvent = EmptyBag /\ table = Empty
  /\ faults = 0 /\ apart = FALSE

App(u)      == Listen(u) \/ TryRegister(u)
Handle(s)   == Fetch(s) \/ Persist(s) \/ SyncAndReply(s)
Start       == Restore \/ Introspect \/ Up

Next ==
  \/ \E u \in Apps : Deploy(u) \/ Listen(u) \/ TryRegister(u)
  \/ \E s \in Slots : HangUp(s) \/ Fetch(s) \/ Persist(s) \/ Fails(s) \/ SyncAndReply(s)
  \/ \E s \in Slots, u \in Apps, isSync \in BOOLEAN : Operator(s, u, isSync)
  \/ Crash \/ Restore \/ Introspect \/ Up

\* Timers fire, handlers run on, the platform is started again.  Nothing makes
\* an app be deployed, an operator act or anything fail.
Fairness ==
  /\ \A u \in Apps : WF_vars(App(u))
  /\ \A s \in Slots : WF_vars(Handle(s))
  /\ WF_vars(Start)
Spec == Init /\ [][Next]_vars /\ Fairness

-----------------------------------------------------------------------------
(* Properties. *)

TypeOK ==
  /\ \A u \in Apps : ver[u] \in 0 .. Len(Code[u]) /\ loop[u].attempts \in (0 .. MaxAttempts) \cup {1}
  /\ serving \subseteq {u \in Apps : ver[u] > 0}
  /\ \A u \in Apps : loop[u].pc \in {"off", "timer", "asking", "done", "gaveup"}
  /\ \A s \in Slots : req[s].pc \in {"free", "posted", "fetched", "persisted"}
  /\ \A u \in Apps : loop[u].pc = "asking" <=> \E s \in Slots : req[s].client /\ req[s].url = u
  /\ plat.pc \in {"down", "asking", "up"} /\ faults \in 0 .. MaxFaults /\ apart \in BOOLEAN
  /\ plat.pc # "up" => \A s \in Slots : req[s] = FreeReq

\* An event is routed to a function once, and to the function callbacks are made
\* to: the subscriptions are the functions of the registry, however often apps
\* were registered anew and functions moved from URL to URL (registry.go:181-215).
RoutedOnce == byEvent = SetToBag({byID[id] : id \in DOMAIN byID})

\* The registry and the table tell the same, so that a restart changes nothing:
\* unless a request is between its two writes, two overlapped, the table could
\* not be read at the start, or not be written after a static introspection
\* (handler.go:101-107, main.go:146-184).
RegistryIsTable ==
  ~ apart /\ plat.pc # "down" /\ (\A s \in Slots : req[s].pc # "persisted") => byID = table

\* An app that was told it is registered is routed to as its present version
\* says, after restarts too; only ids another app claims may be there instead
\* (client.ts:90-93, main.go:125).
Claims == [u \in Apps |-> UNION {DOMAIN Functions[u][v] : v \in DOMAIN Code[u]}]
Shared(u, id) == \E w \in Apps \ {u} : id \in Claims[w]
AsTold(m, u) ==
  /\ \A id \in Known(m, u) : id \in DOMAIN Manifest(u) /\ m[id] = Manifest(u)[id]
  /\ \A id \in DOMAIN Manifest(u) : Shared(u, id) \/ id \in Known(m, u)
AckedIsRouted ==
  ~ apart /\ plat.pc = "up" => \A u \in Apps : loop[u].pc = "done" => AsTold(byID, u)

\* When a function of such an app fails for good, the event is routed to its
\* onFailure handler and to no other (serve.ts:35-51).
FailureIsHandled ==
  ~ apart /\ plat.pc = "up" => \A u \in Apps : loop[u].pc = "done" =>
    \A k \in DOMAIN Code[u][ver[u]] :
      LET f   == Code[u][ver[u]][k]
          hit == {x \in Match(FailedEvent) : x.of = f.id}
      IN f.onFailure /\ ~ Shared(u, f.id) =>
           \E x \in hit : hit = {x} /\ x.url = u /\ x.id = ImplicitID(f)

\* The loop of an app comes to its end: it is answered, or gives up after its
\* attempts, though answers are lost and the platform goes down (client.ts:79-102).
Settles == \A u \in Apps : <>[](loop[u].pc \in {"off", "done", "gaveup"})
=============================================================================
