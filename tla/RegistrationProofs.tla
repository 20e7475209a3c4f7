-------------------------- MODULE RegistrationProofs -------------------------
(***************************************************************************)
(* Theorems about Registration for any apps, code, keys and bounds.  Inv   *)
(* follows a manifest from the fetch to the registry: as long as the two   *)
(* have not parted, the table is the registry, or is ahead of it by the    *)
(* one request between its two writes, and no request that could still     *)
(* write holds an older manifest than the one the app was told of.         *)
(* LoopInv and SubsInv, which it supports, keep the register loops within  *)
(* their attempts, and the subscriptions the functions of the registry,    *)
(* which are all from manifests: so a failure is handled by the function   *)
(* made for it.                                                            *)
(***************************************************************************)
EXTENDS Registration, NatSets, TLAPS

Holds(r)       == r.pc \in {"fetched", "persisted"}
OfApp(u, fns)  == \A id \in DOMAIN fns : id \in Claims[u] /\ fns[id].url = u
Done(u)        == loop[u].pc = "done"

\* What the variables look like.
Request(r) ==
  /\ r = [pc |-> r.pc, url |-> r.url, fns |-> r.fns, client |-> r.client]
  /\ r.pc \in {"free", "posted", "fetched", "persisted"} /\ r.client \in BOOLEAN
  /\ r.pc = "free" => ~ r.client
  /\ r.pc # "free" => r.url \in Apps
Shape ==
  /\ DOMAIN ver = Apps /\ serving \subseteq Apps
  /\ \A u \in Apps : ver[u] \in 0 .. Len(Code[u]) /\ (u \in serving => ver[u] > 0)
  /\ DOMAIN loop = Apps
  /\ \A u \in Apps : loop[u] = [pc |-> loop[u].pc, attempts |-> loop[u].attempts]
  /\ DOMAIN req = Slots /\ \A s \in Slots : Request(req[s])
  /\ plat = [pc |-> plat.pc, todo |-> plat.todo]
  /\ plat.pc # "up" => \A s \in Slots : req[s].pc = "free"
  /\ plat.todo \in Seq(Apps)

\* What a request holds is a manifest of its app, and the present one when the
\* register loop of the process that runs waits for it.
Fetched ==
  \A s \in Slots :
    /\ Holds(req[s]) => OfApp(req[s].url, req[s].fns)
    /\ req[s].client => /\ loop[req[s].url].pc = "asking"
                        /\ \A t \in Slots : req[t].client /\ req[t].url = req[s].url => s = t
    /\ req[s].client /\ Holds(req[s]) => req[s].fns = Manifest(req[s].url)

\* The table is the registry, or ahead of it by one request.
Ahead ==
  /\ \A s, t \in Slots : req[s].pc = "persisted" /\ req[t].pc = "persisted" => s = t
  /\ plat.pc # "down" =>
       /\ (\A s \in Slots : req[s].pc # "persisted") => byID = table
       /\ \A s \in Slots : req[s].pc = "persisted" => table = Replaced(byID, req[s].url, req[s].fns)

\* Nothing older is under way than what an app was told of, or is about to be.
NoneOlder ==
  \A t \in Slots : Holds(req[t]) =>
    /\ Done(req[t].url) => req[t].fns = Manifest(req[t].url)
    /\ \A s \in Slots : req[s].pc = "persisted" /\ req[s].client /\ req[s].url = req[t].url =>
         req[t].fns = Manifest(req[t].url)

Told ==
  \A u \in Apps : Done(u) => AsTold(table, u) /\ (plat.pc # "down" => AsTold(byID, u))

Inv == Shape /\ Fetched /\ (apart \/ (Ahead /\ NoneOlder /\ Told))

-----------------------------------------------------------------------------
(* Replacing what is known of an app. *)

LEMMA ManifestIsOfApp ==
  ASSUME NEW u \in Apps, ver[u] \in 1 .. Len(Code[u])
  PROVE  OfApp(u, Manifest(u))
<1>1. ver[u] \in DOMAIN Code[u]
  BY CodeAssumption
<1>2. Manifest(u) = ManifestOf(u, Functions[u][ver[u]])
  BY <1>1 DEF Manifest, Manifests
<1>3. DOMAIN Functions[u][ver[u]] \subseteq Claims[u]
  BY <1>1 DEF Claims
<1> QED BY <1>2, <1>3 DEF OfApp, ManifestOf

\* The app whose functions were replaced is known by them ...
LEMMA ReplacedIsTold ==
  ASSUME NEW m, NEW u, OfApp(u, Manifest(u))
  PROVE  AsTold(Replaced(m, u, Manifest(u)), u)
<1> DEFINE new == Replaced(m, u, Manifest(u))
<1>1. \A id \in DOMAIN Manifest(u) : id \in DOMAIN new /\ new[id] = Manifest(u)[id]
  BY DEF Replaced
<1>2. \A id \in Known(new, u) : id \in DOMAIN Manifest(u)
  BY DEF Known, Replaced
<1> HIDE DEF new
<1>3. \A id \in DOMAIN Manifest(u) : id \in Known(new, u)
  BY <1>1 DEF Known, OfApp
<1> QED BY <1>1, <1>2, <1>3 DEF AsTold, new

\* ... and another app loses no more than the ids that are claimed twice.
LEMMA ReplacedKeepsTold ==
  ASSUME NEW m, NEW u \in Apps, NEW w \in Apps, NEW fns, OfApp(u, fns),
         AsTold(m, w), w = u => fns = Manifest(u)
  PROVE  AsTold(Replaced(m, u, fns), w)
<1> DEFINE new == Replaced(m, u, fns)
<1>1. CASE w = u
  BY <1>1, ReplacedIsTold
<1>2. CASE w # u
  <2>1. \A id \in Known(new, w) : id \in Known(m, w) /\ new[id] = m[id]
    BY <1>2 DEF Known, Replaced, OfApp
  <2>2. \A id \in Known(m, w) : id \in Known(new, w) \/ id \in DOMAIN fns
    BY <1>2 DEF Known, Replaced
  <2>3. \A id \in DOMAIN fns : Shared(w, id)
    BY <1>2 DEF Shared, OfApp
  <2> HIDE DEF new
  <2> QED BY <2>1, <2>2, <2>3 DEF AsTold, new
<1> QED BY <1>1, <1>2

-----------------------------------------------------------------------------
(* Every step keeps the invariant. *)

LEMMA InitInv == Init => Inv
<1> SUFFICES ASSUME Init PROVE Inv
  OBVIOUS
<1> USE DEF Init
<1>1. Shape
  <2>1. \A u \in Apps : 0 \in 0 .. Len(Code[u])
    BY CodeAssumption
  <2>2. plat = [pc |-> plat.pc, todo |-> plat.todo] /\ plat.todo \in Seq(Apps)
    OBVIOUS
  <2>3. \A s \in Slots : Request(req[s]) /\ req[s].pc = "free"
    BY DEF Request, FreeReq
  <2> QED BY <2>1, <2>2, <2>3 DEF Shape, NoLoop
<1>2. Fetched
  BY DEF Fetched, Holds, FreeReq
<1>3. Ahead /\ NoneOlder
  BY DEF Ahead, NoneOlder, Holds, FreeReq
<1>4. Told
  BY DEF Told, Done, NoLoop
<1> QED BY <1>1, <1>2, <1>3, <1>4 DEF Inv

\* The answer to a register loop changes only where the loop stands.
LEMMA AnsweredIs ==
  ASSUME NEW l, l = [pc |-> l.pc, attempts |-> l.attempts], NEW ok \in BOOLEAN
  PROVE  /\ Answered(l, ok) = [pc |-> Answered(l, ok).pc, attempts |-> l.attempts]
         /\ Answered(l, ok).pc \in {"done", "timer", "gaveup"}
         /\ Answered(l, ok).pc = "done" <=> ok
BY DEF Answered

\* What becomes of a request.
LEMMA RequestBecomes ==
  ASSUME NEW r, Request(r)
  PROVE  /\ Unheard(r) = [pc |-> r.pc, url |-> r.url, fns |-> r.fns, client |-> FALSE]
         /\ Persisted(r) = [pc |-> "persisted", url |-> r.url, fns |-> r.fns, client |-> r.client]
         /\ Request(Unheard(r))
         /\ r.pc # "free" => Request(Persisted(r)) /\ \A fns : Request(With(r, fns))
BY DEF Request, Unheard, Persisted, With

LEMMA DeployInv ==
  ASSUME Inv, NEW u \in Apps, Deploy(u)
  PROVE  Inv'
<1> USE DEF Deploy
<1>1. /\ \A s \in Slots : /\ req'[s].pc = req[s].pc /\ req'[s].url = req[s].url
                          /\ req'[s].fns = req[s].fns
                          /\ req'[s].client => req[s].client /\ req[s].url # u
      /\ loop'[u].pc = "timer" /\ \A w \in Apps \ {u} : loop'[w] = loop[w] /\ ver'[w] = ver[w]
  <2>1. \A s \in Slots : /\ Unheard(req[s]).pc = req[s].pc /\ Unheard(req[s]).url = req[s].url
                         /\ Unheard(req[s]).fns = req[s].fns /\ ~ Unheard(req[s]).client
    BY RequestBecomes DEF Inv, Shape
  <2> QED BY <2>1 DEF Inv, Shape, Started
<1>2. Shape'
  <2>1. \A s \in Slots : Request(req'[s])
    <3> SUFFICES ASSUME NEW s \in Slots PROVE Request(req'[s])
      OBVIOUS
    <3>1. Request(req[s])
      BY DEF Inv, Shape
    <3> QED BY <3>1, RequestBecomes DEF Inv, Shape
  <2>2. ver'[u] \in 0 .. Len(Code[u]) /\ \A w \in Apps \ {u} : ver'[w] = ver[w]
    BY CodeAssumption DEF Inv, Shape
  <2>3. loop'[u] = [pc |-> loop'[u].pc, attempts |-> loop'[u].attempts]
    BY DEF Inv, Shape, Started
  <2> QED BY <2>1, <2>2, <2>3, <1>1 DEF Inv, Shape
<1>3. \A w \in Apps \ {u} : Manifest(w)' = Manifest(w) /\ (Done(w)' <=> Done(w))
  BY <1>1 DEF Manifest, Done
<1>4. ~ Done(u)'
  BY <1>1 DEF Done
<1>5. Fetched'
  BY <1>1, <1>3 DEF Inv, Shape, Request, Fetched, Holds
<1>6. Ahead => Ahead'
  BY <1>1 DEF Ahead
<1>7. NoneOlder => NoneOlder'
  <2>1. \A t \in Slots : Holds(req'[t]) => Holds(req[t]) /\ req[t].url \in Apps
    BY <1>1 DEF Inv, Shape, Request, Holds
  <2>2. \A w \in Apps : Done(w)' => Done(w) /\ w # u
    BY <1>3, <1>4
  <2> QED BY <2>1, <2>2, <1>1, <1>3 DEF NoneOlder
<1>8. Told => Told'
  BY <1>3, <1>4 DEF Told, AsTold, Known
<1> QED BY <1>2, <1>5, <1>6, <1>7, <1>8 DEF Inv

\* Steps that leave the versions, the registry and the table alone.
LEMMA SameCode ==
  ASSUME UNCHANGED <<ver, byID, table>>
  PROVE  /\ \A u : Manifest(u)' = Manifest(u)
         /\ \A u : AsTold(table, u)' = AsTold(table, u) /\ AsTold(byID, u)' = AsTold(byID, u)
BY DEF Manifest, AsTold, Known

LEMMA ListenInv ==
  ASSUME Inv, NEW u \in Apps, Listen(u)
  PROVE  Inv'
<1> USE DEF Listen
<1>1. Shape'
  BY DEF Inv, Shape, Request
<1>2. Fetched'
  BY SameCode DEF Inv, Fetched, Holds
<1>3. /\ Ahead => Ahead'
      /\ NoneOlder => NoneOlder'
      /\ Told => Told'
  BY SameCode DEF Ahead, NoneOlder, Told, Done, Holds
<1> QED BY <1>1, <1>2, <1>3 DEF Inv

\* A request that arrives holds nothing yet.
LEMMA ArrivesIs ==
  ASSUME Shape, NEW s \in Slots, NEW u \in Apps, NEW client \in BOOLEAN, Arrives(s, u, client)
  PROVE  /\ \A t \in Slots \ {s} : req'[t] = req[t]
         /\ req'[s].pc = "posted" /\ req'[s].url = u /\ req'[s].client = client
         /\ DOMAIN req' = Slots /\ Request(req'[s]) /\ plat.pc = "up" /\ req[s].pc = "free"
BY DEF Arrives, Posted, Shape, Request

LEMMA TryRegisterInv ==
  ASSUME Inv, NEW u \in Apps, TryRegister(u)
  PROVE  Inv'
<1> DEFINE now == [pc |-> "asking", attempts |-> loop[u].attempts + 1]
<1> USE DEF TryRegister
<1>1. now = [pc |-> "asking", attempts |-> now.attempts]
  BY DEF Inv, Shape
<1>2. /\ loop'[u] = [pc |-> loop'[u].pc, attempts |-> loop'[u].attempts]
      /\ loop'[u].pc \in {"asking", "timer", "gaveup"}
      /\ DOMAIN loop' = Apps /\ \A w \in Apps \ {u} : loop'[w] = loop[w]
  <2>1. CASE loop' = [loop EXCEPT ![u] = now]
    BY <2>1, <1>1 DEF Inv, Shape
  <2>2. CASE loop' = [loop EXCEPT ![u] = Answered(now, FALSE)]
    <3> HIDE DEF now
    <3>1. /\ Answered(now, FALSE) = [pc |-> Answered(now, FALSE).pc, attempts |-> now.attempts]
          /\ Answered(now, FALSE).pc \in {"timer", "gaveup"}
      BY <1>1, AnsweredIs
    <3> QED BY <2>2, <3>1 DEF Inv, Shape
  <2> QED BY <2>1, <2>2
<1>3. \A w \in Apps : Done(w)' <=> Done(w)
  BY <1>2 DEF Done
<1>4. \A s \in Slots : req[s].client => req[s].url # u
  BY DEF Inv, Fetched
<1>5. CASE req' = req
  <2>1. Shape'
    BY <1>2, <1>5 DEF Inv, Shape
  <2>2. Fetched'
    BY <1>2, <1>4, <1>5, SameCode DEF Inv, Shape, Request, Fetched, Holds
  <2>3. /\ Ahead => Ahead'
        /\ NoneOlder => NoneOlder'
        /\ Told => Told'
    BY <1>3, <1>5, SameCode DEF Inv, Shape, Request, Ahead, NoneOlder, Told, Holds
  <2> QED BY <2>1, <2>2, <2>3 DEF Inv
<1>6. CASE \E s \in Slots : Arrives(s, u, TRUE) /\ loop' = [loop EXCEPT ![u] = now]
  <2>1. PICK s \in Slots : Arrives(s, u, TRUE) /\ loop' = [loop EXCEPT ![u] = now]
    BY <1>6
  <2>2. /\ \A t \in Slots \ {s} : req'[t] = req[t]
        /\ req'[s].pc = "posted" /\ req'[s].url = u /\ req'[s].client
        /\ DOMAIN req' = Slots /\ Request(req'[s]) /\ plat.pc = "up" /\ req[s].pc = "free"
    BY <2>1, ArrivesIs DEF Inv
  <2>3. loop'[u].pc = "asking"
    BY <2>1, <1>1 DEF Inv, Shape
  <2>4. Shape'
    BY <1>2, <2>2 DEF Inv, Shape
  <2>5. Fetched'
    BY <1>2, <1>4, <2>2, <2>3, SameCode DEF Inv, Shape, Request, Fetched, Holds
  <2>6. /\ Ahead => Ahead'
        /\ NoneOlder => NoneOlder'
        /\ Told => Told'
    <3>1. \A t \in Slots : Holds(req'[t]) => t # s /\ Holds(req[t]) /\ req'[t] = req[t] /\ req[t].url \in Apps
      BY <2>2 DEF Inv, Shape, Request, Holds
    <3>2. \A t \in Slots : req'[t].pc = "persisted" <=> req[t].pc = "persisted"
      BY <2>2
    <3>3. Ahead => Ahead'
      BY <2>2, <3>2 DEF Ahead
    <3>4. NoneOlder => NoneOlder'
      BY <1>3, <2>2, <3>1, <3>2, SameCode DEF NoneOlder
    <3> QED BY <1>3, <3>3, <3>4, SameCode DEF Told
  <2> QED BY <2>4, <2>5, <2>6 DEF Inv
<1> QED BY <1>5, <1>6

\* The register loop of one app has its answer; no loop is told more by it.
LEMMA LoopAnswered ==
  ASSUME Shape, NEW u \in Apps, NEW ok \in BOOLEAN, loop[u].pc = "asking",
         loop' = [loop EXCEPT ![u] = Answered(@, ok)]
  PROVE  /\ DOMAIN loop' = Apps
         /\ \A w \in Apps : loop'[w] = [pc |-> loop'[w].pc, attempts |-> loop'[w].attempts]
         /\ \A w \in Apps \ {u} : loop'[w] = loop[w]
         /\ Done(u)' <=> ok
<1>1. /\ Answered(loop[u], ok) = [pc |-> Answered(loop[u], ok).pc, attempts |-> loop[u].attempts]
      /\ Answered(loop[u], ok).pc = "done" <=> ok
  BY AnsweredIs DEF Shape
<1> QED BY <1>1 DEF Shape, Done

LEMMA HangUpInv ==
  ASSUME Inv, NEW s \in Slots, HangUp(s)
  PROVE  Inv'
<1> USE DEF HangUp
<1>0. PICK u \in Apps : u = req[s].url
  BY DEF Inv, Shape, Request
<1>1. loop[u].pc = "asking" /\ req[s].pc # "free"
  BY <1>0 DEF Inv, Shape, Request, Fetched
<1>2. /\ DOMAIN loop' = Apps
      /\ \A w \in Apps : loop'[w] = [pc |-> loop'[w].pc, attempts |-> loop'[w].attempts]
      /\ \A w \in Apps \ {u} : loop'[w] = loop[w]
      /\ ~ Done(u)'
  BY <1>0, <1>1, LoopAnswered DEF Inv, Done
<1>3. \A w \in Apps : Done(w)' <=> Done(w)
  BY <1>1, <1>2 DEF Done
<1>4. /\ \A t \in Slots \ {s} : req'[t] = req[t]
      /\ req'[s] = [pc |-> req[s].pc, url |-> u, fns |-> req[s].fns, client |-> FALSE]
      /\ DOMAIN req' = Slots
  BY <1>0, RequestBecomes DEF Inv, Shape, Unheard
<1>5. Shape'
  <2>1. \A t \in Slots : Request(req'[t])
    <3>1. Request(req'[s])
      BY RequestBecomes DEF Inv, Shape
    <3> QED BY <3>1, <1>4 DEF Inv, Shape
  <2> QED BY <1>1, <1>2, <1>4, <2>1 DEF Inv, Shape
<1>6. \A t \in Slots : /\ req'[t].pc = req[t].pc /\ req'[t].url = req[t].url /\ req'[t].fns = req[t].fns
                       /\ req'[t].client => t # s /\ req[t].client
  BY <1>0, <1>4
<1>7. ~ apart => \A t \in Slots : Holds(req'[t]) => Holds(req[t]) /\ req[t].url \in Apps
  BY <1>6 DEF Inv, Shape, Request, Holds
<1>8. Ahead => Ahead'
  BY <1>6 DEF Ahead
<1>11. Fetched'
  <2>1. \A t \in Slots : req[t].client /\ req[t].url = u => t = s
    BY <1>0 DEF HangUp, Inv, Fetched
  <2>2. \A t \in Slots : req[t].client => req[t].url \in Apps
    BY DEF Inv, Shape, Request
  <2>3. \A t \in Slots : req'[t].client => /\ req[t].client /\ loop'[req'[t].url].pc = "asking"
    <3> SUFFICES ASSUME NEW t \in Slots, req'[t].client
                 PROVE  req[t].client /\ loop'[req'[t].url].pc = "asking"
      OBVIOUS
    <3>1. req[t].client /\ req'[t].url = req[t].url /\ req[t].url \in Apps \ {u}
      BY <1>6, <2>1, <2>2
    <3>2. loop[req[t].url].pc = "asking"
      BY <3>1 DEF Inv, Fetched
    <3> QED BY <3>1, <3>2, <1>2
  <2>4. \A t \in Slots : Holds(req'[t]) <=> Holds(req[t])
    BY <1>6 DEF Holds
  <2>5. \A w : Manifest(w)' = Manifest(w)
    BY SameCode
  <2> HIDE DEF HangUp
  <2> QED BY <1>6, <2>3, <2>4, <2>5 DEF Inv, Fetched, OfApp
<1>9. NoneOlder /\ ~ apart => NoneOlder'
  BY <1>3, <1>6, <1>7, SameCode DEF NoneOlder
<1>10. Told => Told'
  BY <1>3, SameCode DEF Told
<1> QED BY <1>5, <1>8, <1>9, <1>10, <1>11 DEF Inv

LEMMA OperatorInv ==
  ASSUME Inv, NEW s \in Slots, NEW u \in Apps, NEW isSync \in BOOLEAN, Operator(s, u, isSync)
  PROVE  Inv'
<1> USE DEF Operator
<1>1. /\ \A t \in Slots \ {s} : req'[t] = req[t]
      /\ req'[s].pc = "posted" /\ req'[s].url = u /\ ~ req'[s].client
      /\ DOMAIN req' = Slots /\ Request(req'[s]) /\ plat.pc = "up" /\ req[s].pc = "free"
  BY ArrivesIs DEF Inv
<1>2. Shape'
  BY <1>1 DEF Inv, Shape
<1>3. Fetched'
  BY <1>1, SameCode DEF Inv, Fetched, Holds
<1>4. \A t \in Slots : Holds(req'[t]) => t # s /\ Holds(req[t]) /\ req'[t] = req[t]
  BY <1>1 DEF Holds
<1>5. \A t \in Slots : req'[t].pc = "persisted" => t # s
  BY <1>1
<1>6. Ahead => Ahead'
  BY <1>1, <1>5 DEF Ahead
<1>7. NoneOlder => NoneOlder'
  BY <1>1, <1>4, <1>5, SameCode DEF NoneOlder, Done
<1>8. Told => Told'
  BY SameCode DEF Told, Done
<1> QED BY <1>2, <1>3, <1>6, <1>7, <1>8 DEF Inv

LEMMA FreeIs == FreeReq.pc = "free" /\ FreeReq.client = FALSE
BY DEF FreeReq

\* A request is answered and its slot free; only the loop that waits hears of it.
LEMMA ReplyIs ==
  ASSUME Shape, Fetched, NEW s \in Slots, req[s].pc # "free", NEW ok \in BOOLEAN, Reply(s, ok)
  PROVE  /\ \A t \in Slots \ {s} : req'[t] = req[t]
         /\ req'[s] = FreeReq /\ DOMAIN req' = Slots /\ \A t \in Slots : Request(req'[t])
         /\ DOMAIN loop' = Apps
         /\ \A w \in Apps : loop'[w] = [pc |-> loop'[w].pc, attempts |-> loop'[w].attempts]
         /\ \A w \in Apps : Done(w)' => Done(w) \/ (ok /\ req[s].client /\ w = req[s].url)
         /\ \A t \in Slots : req'[t].client => /\ req[t].client /\ t # s
                                               /\ loop'[req'[t].url].pc = "asking"
<1>0. PICK u \in Apps : u = req[s].url
  BY DEF Shape, Request
<1>1. /\ \A t \in Slots \ {s} : req'[t] = req[t]
      /\ req'[s] = FreeReq /\ DOMAIN req' = Slots
  BY DEF Reply, Shape
<1>2. Request(FreeReq)
  BY DEF Request, FreeReq
<1>3. \A t \in Slots : req'[t].client => req[t].client /\ t # s
  BY <1>1, FreeIs
<1>4. CASE req[s].client
  <2>1. loop[u].pc = "asking" /\ \A t \in Slots \ {s} : req[t].client => req[t].url # u
    BY <1>0, <1>4 DEF Fetched
  <2>2. /\ DOMAIN loop' = Apps
        /\ \A w \in Apps : loop'[w] = [pc |-> loop'[w].pc, attempts |-> loop'[w].attempts]
        /\ \A w \in Apps \ {u} : loop'[w] = loop[w]
        /\ loop'[u].pc = "done" <=> ok
    BY <1>0, <1>4, <2>1, LoopAnswered DEF Reply, Done
  <2>3. \A t \in Slots : req'[t].client => loop'[req'[t].url].pc = "asking"
    <3> SUFFICES ASSUME NEW t \in Slots, req'[t].client PROVE loop'[req'[t].url].pc = "asking"
      OBVIOUS
    <3>1. req[t].client /\ t # s /\ req'[t] = req[t]
      BY <1>1, <1>3
    <3>2. req[t].url \in Apps \ {u}
      BY <3>1, <2>1 DEF Shape, Request
    <3> QED BY <3>1, <3>2, <2>2 DEF Fetched
  <2> QED BY <1>0, <1>1, <1>2, <1>3, <1>4, <2>2, <2>3 DEF Shape, Done
<1>5. CASE ~ req[s].client
  <2>1. loop' = loop
    BY <1>5 DEF Reply
  <2>2. \A t \in Slots : req'[t].client => loop'[req'[t].url].pc = "asking"
    BY <2>1, <1>1, <1>3 DEF Fetched
  <2> QED BY <1>1, <1>2, <1>3, <2>1, <2>2 DEF Shape, Done
<1> QED BY <1>4, <1>5

\* A request that comes to nothing.
LEMMA NothingCame ==
  ASSUME Inv, NEW s \in Slots, req[s].pc # "free", Reply(s, FALSE),
         UNCHANGED <<ver, serving, plat, byID, table, apart>>, req[s].pc # "persisted"
  PROVE  Inv'
<1>1. /\ \A t \in Slots \ {s} : req'[t] = req[t]
      /\ req'[s] = FreeReq /\ DOMAIN req' = Slots /\ \A t \in Slots : Request(req'[t])
      /\ DOMAIN loop' = Apps
      /\ \A w \in Apps : loop'[w] = [pc |-> loop'[w].pc, attempts |-> loop'[w].attempts]
      /\ \A w \in Apps : Done(w)' => Done(w)
      /\ \A t \in Slots : req'[t].client => /\ req[t].client /\ t # s
                                            /\ loop'[req'[t].url].pc = "asking"
  BY ReplyIs DEF Inv
<1>2. Shape'
  BY <1>1 DEF Inv, Shape
<1>3. \A t \in Slots : Holds(req'[t]) => /\ t # s /\ Holds(req[t]) /\ req'[t] = req[t]
                                         /\ req[t].url \in Apps
  BY <1>1, FreeIs DEF Holds, Inv, Shape, Request
<1>4. Fetched'
  BY <1>1, <1>3, SameCode DEF Inv, Fetched
<1>5. \A t \in Slots : req'[t].pc = "persisted" <=> req[t].pc = "persisted"
  BY <1>1, FreeIs
<1>6. Ahead => Ahead'
  BY <1>1, <1>5 DEF Ahead
<1>7. NoneOlder => NoneOlder'
  BY <1>1, <1>3, <1>5, SameCode DEF NoneOlder
<1>8. Told => Told'
  BY <1>1, SameCode DEF Told
<1> QED BY <1>2, <1>4, <1>6, <1>7, <1>8 DEF Inv

LEMMA FailsInv ==
  ASSUME Inv, NEW s \in Slots, Fails(s)
  PROVE  Inv'
BY NothingCame DEF Fails

LEMMA FetchInv ==
  ASSUME Inv, NEW s \in Slots, Fetch(s)
  PROVE  Inv'
<1> USE DEF Fetch
<1>1. CASE ~ GetOK(req[s].url)
  BY <1>1, NothingCame
<1>2. CASE GetOK(req[s].url)
  <2>0. PICK u \in Apps : u = req[s].url
    BY DEF Inv, Shape, Request
  <2>1. /\ \A t \in Slots \ {s} : req'[t] = req[t]
        /\ req'[s] = [pc |-> "fetched", url |-> u, fns |-> Manifest(u), client |-> req[s].client]
        /\ DOMAIN req' = Slots /\ loop' = loop
    BY <2>0, <1>2 DEF Inv, Shape, With
  <2>2. OfApp(u, Manifest(u))
    <3>1. ver[u] \in 1 .. Len(Code[u])
      BY <2>0, <1>2, CodeAssumption DEF GetOK, Inv, Shape
    <3> QED BY <3>1, ManifestIsOfApp
  <2>3. Shape'
    <3>1. Request(req'[s])
      BY <2>0, <2>1 DEF Inv, Shape, Request
    <3>2. plat.pc = "up"
      BY DEF Inv, Shape
    <3> QED BY <2>1, <3>1, <3>2 DEF Inv, Shape
  <2>4. \A t \in Slots : req'[t].client = req[t].client /\ req'[t].url = req[t].url
    BY <2>0, <2>1
  <2>5. Fetched'
    <3>1. \A w : Manifest(w)' = Manifest(w)
      BY SameCode
    <3>2. \A t \in Slots : Holds(req'[t]) => OfApp(req'[t].url, req'[t].fns)
      BY <2>1, <2>2 DEF Inv, Fetched
    <3>3. \A t \in Slots : req'[t].client /\ Holds(req'[t]) => req'[t].fns = Manifest(req'[t].url)
      BY <2>1 DEF Inv, Fetched
    <3>4. \A t \in Slots : req'[t].client =>
            /\ loop'[req'[t].url].pc = "asking"
            /\ \A r \in Slots : req'[r].client /\ req'[r].url = req'[t].url => t = r
      BY <2>1, <2>4 DEF Inv, Fetched
    <3> QED BY <3>1, <3>2, <3>3, <3>4 DEF Fetched, OfApp
  <2>6. \A t \in Slots : req'[t].pc = "persisted" <=> req[t].pc = "persisted" /\ t # s
    BY <2>1
  <2>7. Ahead => Ahead'
    BY <2>1, <2>6 DEF Ahead
  <2>8. NoneOlder => NoneOlder'
    <3> SUFFICES ASSUME NoneOlder, NEW t \in Slots, Holds(req'[t])
                 PROVE  /\ Done(req'[t].url) => req'[t].fns = Manifest(req'[t].url)
                        /\ \A r \in Slots : req'[r].pc = "persisted" /\ req'[r].client
                                            /\ req'[r].url = req'[t].url =>
                                            req'[t].fns = Manifest(req'[t].url)
      BY <2>1, SameCode DEF NoneOlder, Done
    <3>1. CASE t = s
      BY <3>1, <2>1
    <3>2. CASE t # s
      <4>1. Holds(req[t]) /\ req'[t] = req[t]
        BY <3>2, <2>1
      <4> QED BY <4>1, <2>4, <2>6 DEF NoneOlder
    <3> QED BY <3>1, <3>2
  <2>9. Told => Told'
    BY <2>1, SameCode DEF Told, Done
  <2> QED BY <2>3, <2>5, <2>7, <2>8, <2>9 DEF Inv
<1> QED BY <1>1, <1>2

LEMMA PersistInv ==
  ASSUME Inv, NEW s \in Slots, Persist(s)
  PROVE  Inv'
<1> USE DEF Persist
<1>0. PICK u \in Apps : u = req[s].url
  BY DEF Inv, Shape, Request
<1> DEFINE fns == req[s].fns
<1>1. /\ \A t \in Slots \ {s} : req'[t] = req[t]
      /\ req'[s] = [pc |-> "persisted", url |-> u, fns |-> req[s].fns, client |-> req[s].client]
      /\ DOMAIN req' = Slots
  BY <1>0 DEF Inv, Shape, Persisted
<1>2. Holds(req[s]) /\ OfApp(u, req[s].fns)
  BY <1>0 DEF Inv, Fetched, Holds
<1>3. \A w : Manifest(w)' = Manifest(w) /\ (Done(w)' <=> Done(w))
  BY DEF Manifest, Done
<1>4. plat.pc = "up"
  BY DEF Inv, Shape
<1>5. Shape'
  <2>1. Request(req'[s])
    BY RequestBecomes DEF Inv, Shape
  <2> QED BY <1>1, <1>4, <2>1 DEF Inv, Shape
<1>6. \A t \in Slots : /\ req'[t].client = req[t].client /\ req'[t].url = req[t].url
                       /\ req'[t].fns = req[t].fns /\ (Holds(req'[t]) <=> Holds(req[t]))
  BY <1>0, <1>1, <1>2 DEF Holds
<1>7. Fetched'
  BY <1>3, <1>6 DEF Inv, Fetched, OfApp
<1>8. SUFFICES ASSUME ~ apart' PROVE Ahead' /\ NoneOlder' /\ Told'
  BY <1>5, <1>7 DEF Inv
<1>9. \A t \in Slots \ {s} : ~ Holds(req[t])
  BY <1>8 DEF Overlaps, Holds
<1>10. Ahead /\ NoneOlder /\ Told
  BY <1>8 DEF Inv
<1>11. byID = table
  BY <1>4, <1>9, <1>10 DEF Ahead, Holds
<1>12. Ahead'
  <2>1. \A t \in Slots : req'[t].pc = "persisted" => t = s
    BY <1>1, <1>9 DEF Holds
  <2>2. req'[s].pc = "persisted" /\ table' = Replaced(byID, req'[s].url, req'[s].fns)
    BY <1>0, <1>1, <1>11
  <2> QED BY <2>1, <2>2 DEF Ahead
<1>13. NoneOlder'
  <2>1. \A t \in Slots : Holds(req'[t]) => t = s
    BY <1>6, <1>9
  <2>2. Done(u) => req'[s].fns = Manifest(u)
    BY <1>0, <1>1, <1>2, <1>10 DEF NoneOlder
  <2>3. req'[s].client => req'[s].fns = Manifest(u)
    BY <1>0, <1>1, <1>2 DEF Inv, Fetched
  <2> SUFFICES ASSUME NEW t \in Slots, Holds(req'[t])
               PROVE  /\ Done(req'[t].url) => req'[t].fns = Manifest(req'[t].url)
                      /\ \A r \in Slots : req'[r].pc = "persisted" /\ req'[r].client
                                          /\ req'[r].url = req'[t].url =>
                                          req'[t].fns = Manifest(req'[t].url)
    BY DEF NoneOlder, Done, Manifest
  <2>4. t = s /\ req'[t].url = u
    BY <1>1, <2>1
  <2>5. \A r \in Slots : req'[r].pc = "persisted" => r = s
    BY <2>1 DEF Holds
  <2> QED BY <2>2, <2>3, <2>4, <2>5
<1>14. Told'
  <2> SUFFICES ASSUME NEW w \in Apps, Done(w)
               PROVE  AsTold(table, w)' /\ AsTold(byID, w)'
    BY <1>3 DEF Told
  <2>1. AsTold(table, w) /\ AsTold(byID, w)
    BY <1>4, <1>10 DEF Told
  <2>2. w = u => req[s].fns = Manifest(u)
    BY <1>0, <1>2, <1>10 DEF NoneOlder
  <2>3. AsTold(Replaced(table, u, req[s].fns), w)
    BY <1>2, <2>1, <2>2, ReplacedKeepsTold
  <2>4. AsTold(table', w)
    BY <1>0, <2>3
  <2> QED BY <1>3, <2>1, <2>4 DEF AsTold, Known
<1> QED BY <1>12, <1>13, <1>14

LEMMA SyncAndReplyInv ==
  ASSUME Inv, NEW s \in Slots, SyncAndReply(s)
  PROVE  Inv'
<1> USE DEF SyncAndReply, Sync
<1>0. PICK u \in Apps : u = req[s].url
  BY DEF Inv, Shape, Request
<1>1. /\ \A t \in Slots \ {s} : req'[t] = req[t]
      /\ req'[s] = FreeReq /\ DOMAIN req' = Slots /\ \A t \in Slots : Request(req'[t])
      /\ DOMAIN loop' = Apps
      /\ \A w \in Apps : loop'[w] = [pc |-> loop'[w].pc, attempts |-> loop'[w].attempts]
      /\ \A w \in Apps : Done(w)' => Done(w) \/ (req[s].client /\ w = u)
      /\ \A t \in Slots : req'[t].client => /\ req[t].client /\ t # s
                                            /\ loop'[req'[t].url].pc = "asking"
  BY <1>0, ReplyIs DEF Inv
<1>2. Holds(req[s]) /\ OfApp(u, req[s].fns) /\ plat.pc = "up"
  BY <1>0 DEF Inv, Shape, Fetched, Holds
<1>3. \A w : Manifest(w)' = Manifest(w)
  BY DEF Manifest
<1>4. Shape'
  BY <1>1, <1>2 DEF Inv, Shape
<1>5. \A t \in Slots : Holds(req'[t]) => /\ t # s /\ Holds(req[t]) /\ req'[t] = req[t]
                                         /\ req[t].url \in Apps
  BY <1>1, FreeIs DEF Holds, Inv, Shape, Request
<1>6. Fetched'
  <2> HIDE DEF SyncAndReply
  <2> QED BY <1>1, <1>3, <1>5 DEF Inv, Fetched, OfApp
<1>7. SUFFICES ASSUME ~ apart PROVE Ahead' /\ NoneOlder' /\ Told'
  BY <1>4, <1>6 DEF Inv
<1>8. Ahead /\ NoneOlder /\ Told
  BY <1>7 DEF Inv
<1>9. byID' = table /\ table' = table
  BY <1>2, <1>8 DEF Ahead
<1>10. \A t \in Slots : req'[t].pc # "persisted"
  BY <1>1, <1>8, FreeIs DEF Ahead
<1>11. Ahead'
  BY <1>9, <1>10 DEF Ahead
<1>12. NoneOlder'
  <2> SUFFICES ASSUME NEW t \in Slots, Holds(req'[t]), loop'[req'[t].url].pc = "done"
               PROVE  req'[t].fns = Manifest(req'[t].url)
    BY <1>10 DEF NoneOlder, Done, Manifest
  <2>1. t # s /\ Holds(req[t]) /\ req'[t] = req[t] /\ req[t].url \in Apps
    BY <1>5
  <2>2. Done(req[t].url) \/ (req[s].client /\ req[t].url = u)
    BY <2>1, <1>1 DEF Done
  <2> QED BY <2>1, <2>2, <1>0, <1>8 DEF NoneOlder
<1>13. Told'
  <2> SUFFICES ASSUME NEW w \in Apps, Done(w)'
               PROVE  AsTold(table, w)' /\ AsTold(byID, w)'
    BY DEF Told
  <2>1. AsTold(table, w)
    <3>1. CASE Done(w)
      BY <3>1, <1>8 DEF Told
    <3>2. CASE ~ Done(w)
      <4>1. req[s].client /\ w = u
        BY <3>2, <1>1
      <4>2. req[s].fns = Manifest(u)
        BY <4>1, <1>0, <1>2 DEF Inv, Fetched
      <4>3. AsTold(Replaced(byID, u, Manifest(u)), u)
        BY <1>2, <4>2, ReplacedIsTold
      <4> QED BY <4>1, <4>2, <4>3, <1>0, <1>9
    <3> QED BY <3>1, <3>2
  <2> HIDE DEF SyncAndReply, Sync
  <2> QED BY <2>1, <1>3, <1>9 DEF AsTold, Known
<1> QED BY <1>11, <1>12, <1>13

LEMMA CrashInv ==
  ASSUME Inv, Crash
  PROVE  Inv'
<1> USE DEF Crash
<1>1. /\ DOMAIN req' = Slots /\ \A s \in Slots : req'[s] = FreeReq /\ Request(req'[s])
      /\ plat'.pc = "down" /\ plat' = [pc |-> plat'.pc, todo |-> plat'.todo]
      /\ plat'.todo \in Seq(Apps)
  <2>1. Request(FreeReq)
    BY DEF Request, FreeReq
  <2>2. plat' = [pc |-> "down", todo |-> <<>>] /\ <<>> \in Seq(Apps)
    OBVIOUS
  <2> HIDE DEF Crash
  <2>3. req' = [s \in Slots |-> FreeReq]
    BY DEF Crash
  <2> QED BY <2>1, <2>2, <2>3
<1>2. DOMAIN loop' = Apps /\ \A w \in Apps :
        /\ loop'[w] = [pc |-> loop'[w].pc, attempts |-> loop'[w].attempts]
        /\ Done(w)' => Done(w)
  <2> SUFFICES ASSUME NEW w \in Apps
               PROVE  /\ loop'[w] = [pc |-> loop'[w].pc, attempts |-> loop'[w].attempts]
                      /\ Done(w)' => Done(w)
    OBVIOUS
  <2>1. loop'[w] = IF loop[w].pc = "asking" THEN Answered(loop[w], FALSE) ELSE loop[w]
    OBVIOUS
  <2>2. loop[w] = [pc |-> loop[w].pc, attempts |-> loop[w].attempts]
    BY DEF Inv, Shape
  <2>3. /\ Answered(loop[w], FALSE) = [pc |-> Answered(loop[w], FALSE).pc, attempts |-> loop[w].attempts]
        /\ Answered(loop[w], FALSE).pc # "done"
    BY <2>2, AnsweredIs
  <2> HIDE DEF Crash
  <2> QED BY <2>1, <2>2, <2>3 DEF Done
<1>3. Shape'
  BY <1>1, <1>2, FreeIs DEF Inv, Shape
<1>4. \A s \in Slots : ~ Holds(req'[s]) /\ ~ req'[s].client /\ req'[s].pc # "persisted"
  BY <1>1, FreeIs DEF Holds
<1>5. Fetched' /\ Ahead' /\ NoneOlder'
  BY <1>1, <1>4 DEF Fetched, Ahead, NoneOlder
<1>6. Told => Told'
  <2>1. \A w : AsTold(table, w)' = AsTold(table, w)
    BY DEF AsTold, Known, Manifest
  <2> QED BY <1>1, <1>2, <2>1 DEF Told
<1> QED BY <1>3, <1>5, <1>6 DEF Inv

\* While the platform starts it handles no request.
LEMMA StartInv ==
  ASSUME Inv, Start
  PROVE  Inv'
<1> USE DEF Start, Restore, Introspect, Up
<1>1. /\ plat.pc # "up" /\ \A s \in Slots : req[s].pc = "free"
      /\ UNCHANGED <<ver, serving, loop, req>>
  BY DEF Inv, Shape
<1>2. /\ plat' = [pc |-> plat'.pc, todo |-> plat'.todo] /\ plat'.pc # "down"
      /\ plat'.todo \in Seq(Apps)
  <2>1. plat.todo \in Seq(Apps) /\ Static \in Seq(Apps) /\ <<>> \in Seq(Apps)
    BY BoundsAssumption DEF Inv, Shape
  <2>2. PICK pc \in {"asking", "up"}, todo \in {Static, Tail(plat.todo), <<>>} :
          plat' = [pc |-> pc, todo |-> todo] /\ (todo = Tail(plat.todo) => plat.todo # <<>> \/ todo = <<>>)
    OBVIOUS
  <2>3. todo \in Seq(Apps)
    <3>1. plat.todo # <<>> => Tail(plat.todo) \in Seq(Apps)
      BY <2>1
    <3> HIDE DEF Start, Restore, Introspect, Up
    <3> QED BY <2>1, <2>2, <3>1
  <2> HIDE DEF Start
  <2> QED BY <2>2, <2>3
<1>3. \A w : Manifest(w)' = Manifest(w) /\ (Done(w)' <=> Done(w))
  BY <1>1 DEF Manifest, Done
<1> DEFINE None == \A s \in Slots : ~ Holds(req'[s]) /\ ~ req'[s].client /\ req'[s].pc # "persisted"
<1>4. None
  BY <1>1 DEF Holds, Inv, Shape, Request
<1>5. Shape'
  BY <1>1, <1>2 DEF Inv, Shape
<1>6. Fetched' /\ NoneOlder'
  BY <1>4 DEF Fetched, NoneOlder
<1>7. SUFFICES ASSUME ~ apart' PROVE Ahead' /\ Told'
  BY <1>5, <1>6 DEF Inv
<1>8. Ahead /\ Told
  BY <1>7 DEF Inv
<1>9. byID' = table' /\ \A w \in Apps : Done(w) => AsTold(table', w)
  <2>1. CASE Restore
    BY <1>7, <1>8, <2>1 DEF Told
  <2>2. CASE Up
    BY <1>1, <1>8, <2>2 DEF Told, Ahead
  <2>3. CASE Introspect
    <3>1. byID = table
      BY <1>1, <1>8, <2>3 DEF Ahead
    <3>2. CASE GetOK(Head(plat.todo))
      <4>1. PICK u \in Apps : u = Head(plat.todo)
        BY <2>3 DEF Inv, Shape
      <4>2. byID' = Replaced(byID, u, Manifest(u)) /\ table' = Replaced(table, u, Manifest(u))
        BY <2>3, <3>2, <4>1, <1>7 DEF Sync
      <4>3. ver[u] \in 1 .. Len(Code[u])
        BY <3>2, <4>1, CodeAssumption DEF GetOK, Inv, Shape
      <4>4. \A w \in Apps : Done(w) => AsTold(Replaced(table, u, Manifest(u)), w)
        BY <4>3, ManifestIsOfApp, ReplacedKeepsTold, <1>8 DEF Told
      <4> QED BY <3>1, <4>2, <4>4
    <3>3. CASE ~ GetOK(Head(plat.todo))
      BY <2>3, <3>1, <3>3, <1>8 DEF Told
    <3> QED BY <3>2, <3>3
  <2> QED BY <2>1, <2>2, <2>3
<1>10. Ahead'
  <2> HIDE DEF Start
  <2> QED BY <1>4, <1>9 DEF Ahead
<1>11. Told'
  BY <1>3, <1>9 DEF Told, AsTold, Known
<1> QED BY <1>10, <1>11

LEMMA InvPreserved == Inv /\ [Next]_vars => Inv'
<1> SUFFICES ASSUME Inv, [Next]_vars PROVE Inv'
  OBVIOUS
<1>1. CASE \E u \in Apps : Deploy(u) \/ Listen(u) \/ TryRegister(u)
  BY <1>1, DeployInv, ListenInv, TryRegisterInv
<1>2. CASE \E s \in Slots : HangUp(s) \/ Fetch(s) \/ Persist(s) \/ Fails(s) \/ SyncAndReply(s)
  BY <1>2, HangUpInv, FetchInv, PersistInv, FailsInv, SyncAndReplyInv
<1>3. CASE \E s \in Slots, u \in Apps, isSync \in BOOLEAN : Operator(s, u, isSync)
  BY <1>3, OperatorInv
<1>4. CASE Crash
  BY <1>4, CrashInv
<1>5. CASE Restore \/ Introspect \/ Up
  BY <1>5, StartInv DEF Start
<1>6. CASE UNCHANGED vars
  <2>1. \A w : Manifest(w)' = Manifest(w) /\ (Done(w)' <=> Done(w))
    BY <1>6 DEF vars, Manifest, Done
  <2> QED BY <1>6, <2>1 DEF vars, Inv, Shape, Request, Fetched, Ahead, NoneOlder, Told, Holds, OfApp, AsTold, Known
<1> QED BY <1>1, <1>2, <1>3, <1>4, <1>5, <1>6 DEF Next

\* The loops of the apps and the requests of the platform are paired, and what each
\* request holds fits the table and the registry (client.ts, appapi/handler.go).
THEOREM RegistrationInvariant == Spec => []Inv
<1> QED BY InitInv, InvPreserved, PTL DEF Spec

\* Whatever apps there are and however they register, crash and are deployed
\* anew: the registry and the table tell the same unless requests overlapped or
\* one of them could not be read or written at the start (handler.go:101-107).
THEOREM RegistryIsTableAlways == Spec => []RegistryIsTable
<1>1. Inv => RegistryIsTable
  BY DEF Inv, Ahead, RegistryIsTable
<1> QED BY <1>1, RegistrationInvariant, PTL

\* An app that was told it is registered is routed to by the manifest of the
\* version that runs, but for ids claimed by another app (client.ts:90-93).
THEOREM AckedIsRoutedAlways == Spec => []AckedIsRouted
<1>1. Inv => AckedIsRouted
  BY DEF Inv, Told, AckedIsRouted, Done
<1> QED BY <1>1, RegistrationInvariant, PTL
-----------------------------------------------------------------------------
(* The register loops: every request that is waited for is in a slot, and   *)
(* no loop asks more often than it may.                                     *)

\* One attempt is made whatever the limit; the timer runs below it only.
Within(l) ==
  /\ l.pc \in {"off", "timer", "asking", "done", "gaveup"}
  /\ l.attempts \in (0 .. MaxAttempts) \cup {1}
  /\ l.pc = "timer" => l.attempts = 0 \/ l.attempts < MaxAttempts

LoopInv ==
  /\ \A u \in Apps : Within(loop[u])
  /\ \A u \in Apps : loop[u].pc = "asking" => \E s \in Slots : req[s].client /\ req[s].url = u
  /\ \A s \in Slots : req[s].pc = "free" => req[s] = FreeReq
  /\ plat.pc \in {"down", "asking", "up"} /\ faults \in 0 .. MaxFaults /\ apart \in BOOLEAN

\* An answered loop does not wait, and asks again only if it may.
LEMMA AnsweredWithin ==
  ASSUME NEW l, l = [pc |-> l.pc, attempts |-> l.attempts], Within(l), NEW ok \in BOOLEAN
  PROVE  Within(Answered(l, ok)) /\ Answered(l, ok).pc # "asking"
<1>1. /\ Answered(l, ok).pc = IF ok THEN "done" ELSE IF l.attempts < MaxAttempts THEN "timer" ELSE "gaveup"
      /\ Answered(l, ok).attempts = l.attempts
  BY DEF Answered
<1> QED BY <1>1 DEF Within

\* The other loops and slots stay: what waited before waits in its slot.
LEMMA LoopsMove ==
  ASSUME Inv, LoopInv, NEW u \in Apps, DOMAIN req' = Slots,
         \A w \in Apps \ {u} : loop'[w] = loop[w],
         Within(loop'[u]),
         loop'[u].pc = "asking" => \E s \in Slots : req'[s].client /\ req'[s].url = u,
         \A s \in Slots : req[s].client /\ req[s].url # u => req'[s].client /\ req'[s].url = req[s].url,
         \A s \in Slots : req'[s].pc = "free" => req'[s] = FreeReq,
         plat'.pc \in {"down", "asking", "up"}, faults' = faults \/ Fault, apart' \in BOOLEAN
  PROVE  LoopInv'
<1>1. faults' \in 0 .. MaxFaults
  BY BoundsAssumption DEF LoopInv, Fault
<1>2. ASSUME NEW w \in Apps
      PROVE  /\ Within(loop'[w])
             /\ loop'[w].pc = "asking" => \E s \in Slots : req'[s].client /\ req'[s].url = w
  <2>1. CASE w = u
    BY <2>1
  <2>2. CASE w # u
    <3>1. loop'[w] = loop[w] /\ Within(loop[w])
      BY <2>2 DEF LoopInv
    <3>2. ASSUME loop[w].pc = "asking" PROVE \E s \in Slots : req'[s].client /\ req'[s].url = w
      <4>1. PICK s \in Slots : req[s].client /\ req[s].url = w
        BY <3>2 DEF LoopInv
      <4>2. req'[s].client /\ req'[s].url = w
        BY <2>2, <4>1
      <4> QED BY <4>2
    <3> QED BY <3>1, <3>2
  <2> QED BY <2>1, <2>2
<1> QED BY <1>1, <1>2 DEF LoopInv

\* A reply to the request in a slot.
LEMMA ReplyLoops ==
  ASSUME Inv, LoopInv, NEW s \in Slots, req[s].pc # "free", NEW ok \in BOOLEAN, Reply(s, ok),
         UNCHANGED <<plat, apart>>, faults' = faults \/ Fault
  PROVE  LoopInv'
<1>0. PICK u \in Apps : u = req[s].url
  BY DEF Inv, Shape, Request
<1>1. /\ \A t \in Slots \ {s} : req'[t] = req[t]
      /\ req'[s] = FreeReq /\ DOMAIN req' = Slots
  BY DEF Reply, Inv, Shape
<1>2. /\ \A w \in Apps \ {u} : loop'[w] = loop[w]
      /\ loop'[u] = IF req[s].client THEN Answered(loop[u], ok) ELSE loop[u]
  BY <1>0 DEF Reply, Inv, Shape
<1>3. loop[u] = [pc |-> loop[u].pc, attempts |-> loop[u].attempts] /\ Within(loop[u])
  BY DEF Inv, Shape, LoopInv
<1>4. Within(Answered(loop[u], ok)) /\ Answered(loop[u], ok).pc # "asking"
  BY <1>3, AnsweredWithin
<1>5. \A t \in Slots : req'[t].pc = "free" => req'[t] = FreeReq
  BY <1>1 DEF LoopInv
<1>6. \A t \in Slots : req[t].client /\ t # s => req'[t].client /\ req'[t].url = req[t].url
  BY <1>1
<1>7. loop'[u].pc = "asking" => \E t \in Slots : req'[t].client /\ req'[t].url = u
  <2> SUFFICES ASSUME loop'[u].pc = "asking" PROVE \E t \in Slots : req'[t].client /\ req'[t].url = u
    OBVIOUS
  <2>1. ~ req[s].client /\ loop[u].pc = "asking"
    BY <1>2, <1>4
  <2>2. PICK t \in Slots : req[t].client /\ req[t].url = u
    BY <2>1 DEF LoopInv
  <2>3. t # s
    BY <2>1, <2>2
  <2> QED BY <1>6, <2>2, <2>3
<1>8. plat'.pc \in {"down", "asking", "up"} /\ apart' \in BOOLEAN
  BY DEF LoopInv
<1>9. Within(loop'[u])
  BY <1>2, <1>3, <1>4
<1>10. \A t \in Slots : req[t].client /\ req[t].url # u => req'[t].client /\ req'[t].url = req[t].url
  BY <1>0, <1>6
<1> QED BY <1>1, <1>2, <1>5, <1>7, <1>8, <1>9, <1>10, LoopsMove

\* A step that leaves the loops alone and changes no request's address or loop.
LEMMA LoopsStay ==
  ASSUME Inv, LoopInv, UNCHANGED loop,
         \A s \in Slots : req[s].client => req'[s].client /\ req'[s].url = req[s].url,
         \A s \in Slots : req'[s].pc = "free" => req'[s] = FreeReq,
         plat'.pc \in {"down", "asking", "up"}, faults' = faults \/ Fault, apart' \in BOOLEAN
  PROVE  LoopInv'
<1>1. faults' \in 0 .. MaxFaults
  BY BoundsAssumption DEF LoopInv, Fault
<1>2. ASSUME NEW w \in Apps, loop[w].pc = "asking" PROVE \E s \in Slots : req'[s].client /\ req'[s].url = w
  <2>1. PICK s \in Slots : req[s].client /\ req[s].url = w
    BY <1>2 DEF LoopInv
  <2> QED BY <2>1
<1> QED BY <1>1, <1>2 DEF LoopInv

\* Nobody waits at the start.
LEMMA LoopInit == Init => LoopInv
<1> SUFFICES ASSUME Init PROVE LoopInv
  OBVIOUS
<1>1. \A u \in Apps : loop[u] = NoLoop
  BY DEF Init
<1>2. Within(NoLoop) /\ NoLoop.pc = "off"
  BY BoundsAssumption DEF Within, NoLoop
<1>3. \A s \in Slots : req[s] = FreeReq
  BY DEF Init
<1>4. plat.pc = "down" /\ faults = 0 /\ apart = FALSE
  BY DEF Init
<1>5. 0 \in 0 .. MaxFaults
  BY BoundsAssumption
<1>6. \A u \in Apps : Within(loop[u]) /\ loop[u].pc # "asking"
  <2>1. "off" # "asking"
    OBVIOUS
  <2> QED BY <1>1, <1>2, <2>1
<1> QED BY <1>3, <1>4, <1>5, <1>6 DEF LoopInv

\* A register loop starts, asks, and is left without an answer.
LEMMA LoopSteps ==
  ASSUME Inv, LoopInv, NEW u \in Apps, Deploy(u) \/ TryRegister(u)
  PROVE  LoopInv'
<1>0. loop[u] = [pc |-> loop[u].pc, attempts |-> loop[u].attempts] /\ Within(loop[u])
  BY DEF Inv, Shape, LoopInv
<1>1. CASE Deploy(u)
  <2>1. \A s \in Slots : /\ req[s].url # u => req'[s] = req[s]
                         /\ req[s].url = u => req'[s] = Unheard(req[s])
    BY <1>1 DEF Deploy
  <2>2. \A s \in Slots : req'[s].pc = "free" => req'[s] = FreeReq
    <3> SUFFICES ASSUME NEW s \in Slots, req'[s].pc = "free" PROVE req'[s] = FreeReq
      OBVIOUS
    <3>1. Unheard(req[s]) = [pc |-> req[s].pc, url |-> req[s].url, fns |-> req[s].fns, client |-> FALSE]
      BY DEF Unheard
    <3>2. req[s].pc = "free"
      BY <2>1, <3>1
    <3>3. req[s] = FreeReq
      BY <3>2 DEF LoopInv
    <3>4. Unheard(FreeReq) = FreeReq
      BY DEF Unheard, FreeReq
    <3> QED BY <2>1, <3>3, <3>4
  <2>3. loop'[u] = Started /\ \A w \in Apps \ {u} : loop'[w] = loop[w]
    BY <1>1 DEF Deploy, Inv, Shape
  <2>4. Within(Started) /\ Started.pc # "asking"
    BY BoundsAssumption DEF Within, Started
  <2>5. DOMAIN req' = Slots /\ UNCHANGED <<plat, faults, apart>>
    BY <1>1 DEF Deploy
  <2> QED BY <2>1, <2>2, <2>3, <2>4, <2>5, LoopsMove DEF LoopInv
<1>2. CASE TryRegister(u)
  <2> DEFINE now == [pc |-> "asking", attempts |-> loop[u].attempts + 1]
  <2>1. loop[u].pc = "timer" /\ UNCHANGED <<plat, faults, apart>>
    BY <1>2 DEF TryRegister
  <2>2. Within(now) /\ now = [pc |-> now.pc, attempts |-> now.attempts]
    BY <1>0, <2>1, BoundsAssumption DEF Within
  <2>3. Within(Answered(now, FALSE)) /\ Answered(now, FALSE).pc # "asking"
    BY <2>2, AnsweredWithin
  <2>4. \/ (\E s \in Slots : Arrives(s, u, TRUE)) /\ loop' = [loop EXCEPT ![u] = now]
        \/ loop' = [loop EXCEPT ![u] = Answered(now, FALSE)] /\ UNCHANGED req
    BY <1>2 DEF TryRegister
  <2> HIDE DEF now
  <2>5. CASE (\E s \in Slots : Arrives(s, u, TRUE)) /\ loop' = [loop EXCEPT ![u] = now]
    <3>1. PICK s \in Slots : Arrives(s, u, TRUE)
      BY <2>5
    <3>2. /\ \A t \in Slots \ {s} : req'[t] = req[t]
          /\ req'[s].pc = "posted" /\ req'[s].url = u /\ req'[s].client = TRUE
          /\ DOMAIN req' = Slots /\ req[s].pc = "free"
      BY <3>1, ArrivesIs DEF Inv
    <3>3. ~ req[s].client
      BY <3>2 DEF Inv, Shape, Request
    <3>4. loop'[u] = now /\ \A w \in Apps \ {u} : loop'[w] = loop[w]
      BY <2>5 DEF Inv, Shape
    <3>5. \A t \in Slots : req'[t].pc = "free" => req'[t] = FreeReq
      BY <3>2 DEF LoopInv
    <3>6. \A t \in Slots : req[t].client => req'[t].client /\ req'[t].url = req[t].url
      BY <3>2, <3>3
    <3> QED BY <2>1, <2>2, <3>2, <3>4, <3>5, <3>6, LoopsMove DEF LoopInv
  <2>6. CASE loop' = [loop EXCEPT ![u] = Answered(now, FALSE)] /\ UNCHANGED req
    <3>1. loop'[u] = Answered(now, FALSE) /\ \A w \in Apps \ {u} : loop'[w] = loop[w]
      BY <2>6 DEF Inv, Shape
    <3>2. DOMAIN req' = Slots
      BY <2>6 DEF Inv, Shape
    <3>3. \A t \in Slots : /\ req[t].client => req'[t].client /\ req'[t].url = req[t].url
                           /\ req'[t].pc = "free" => req'[t] = FreeReq
      BY <2>6 DEF LoopInv
    <3>4. Within(loop'[u]) /\ loop'[u].pc # "asking"
      BY <2>3, <3>1
    <3>5. plat'.pc \in {"down", "asking", "up"} /\ faults' = faults /\ apart' \in BOOLEAN
      BY <2>1 DEF LoopInv
    <3> QED BY <3>1, <3>2, <3>3, <3>4, <3>5, LoopsMove
  <2> QED BY <2>4, <2>5, <2>6
<1> QED BY <1>1, <1>2

\* The connection breaks.
LEMMA HangUpLoops ==
  ASSUME Inv, LoopInv, NEW s \in Slots, HangUp(s)
  PROVE  LoopInv'
<1>0. PICK u \in Apps : u = req[s].url
  BY DEF HangUp, Inv, Shape, Request
<1>1. loop[u] = [pc |-> loop[u].pc, attempts |-> loop[u].attempts] /\ Within(loop[u])
  BY DEF Inv, Shape, LoopInv
<1>2. Within(Answered(loop[u], FALSE)) /\ Answered(loop[u], FALSE).pc # "asking"
  BY <1>1, AnsweredWithin
<1>3. loop'[u] = Answered(loop[u], FALSE) /\ \A w \in Apps \ {u} : loop'[w] = loop[w]
  BY <1>0 DEF HangUp, Inv, Shape
<1>4. DOMAIN req' = Slots /\ req'[s].pc = req[s].pc /\ \A t \in Slots \ {s} : req'[t] = req[t]
  BY DEF HangUp, Inv, Shape, Unheard
<1>5. req[s].pc # "free"
  BY DEF HangUp, Inv, Shape, Request
<1>6. \A t \in Slots : req'[t].pc = "free" => req'[t] = FreeReq
  BY <1>4, <1>5 DEF LoopInv
<1>7. faults' = faults \/ Fault
  BY DEF HangUp
<1>8. UNCHANGED <<plat, apart>>
  BY DEF HangUp
<1>9. Within(loop'[u]) /\ loop'[u].pc # "asking"
  BY <1>2, <1>3
<1>10. \A t \in Slots : req[t].client /\ req[t].url # u => req'[t].client /\ req'[t].url = req[t].url
  <2> TAKE t \in Slots
  <2>1. CASE t = s
    BY <1>0, <2>1
  <2>2. CASE t # s
    BY <1>4, <2>2
  <2> QED BY <2>1, <2>2
<1>11. plat'.pc \in {"down", "asking", "up"} /\ apart' \in BOOLEAN
  BY <1>8 DEF LoopInv
<1> QED BY <1>3, <1>4, <1>6, <1>7, <1>9, <1>10, <1>11, LoopsMove

\* The platform crashes: nobody waits any more.
LEMMA CrashLoops ==
  ASSUME Inv, LoopInv, Crash
  PROVE  LoopInv'
<1>1. ASSUME NEW u \in Apps PROVE Within(loop'[u]) /\ loop'[u].pc # "asking"
  <2>1. loop[u] = [pc |-> loop[u].pc, attempts |-> loop[u].attempts] /\ Within(loop[u])
    BY DEF Inv, Shape, LoopInv
  <2>2. Within(Answered(loop[u], FALSE)) /\ Answered(loop[u], FALSE).pc # "asking"
    BY <2>1, AnsweredWithin
  <2>3. loop'[u] = IF loop[u].pc = "asking" THEN Answered(loop[u], FALSE) ELSE loop[u]
    BY DEF Crash
  <2> QED BY <2>1, <2>2, <2>3
<1>2. \A s \in Slots : req'[s] = FreeReq
  BY DEF Crash
<1>3. faults' \in 0 .. MaxFaults
  BY BoundsAssumption DEF Crash, Fault, LoopInv
<1>4. plat'.pc = "down" /\ apart' \in BOOLEAN
  BY DEF Crash, LoopInv
<1> QED BY <1>1, <1>2, <1>3, <1>4 DEF LoopInv

\* Every step keeps the loops within what they may.
LEMMA LoopNext == Inv /\ LoopInv /\ [Next]_vars => LoopInv'
<1> SUFFICES ASSUME Inv, LoopInv, [Next]_vars PROVE LoopInv'
  OBVIOUS
<1>1. ASSUME NEW u \in Apps, Deploy(u) \/ Listen(u) \/ TryRegister(u) PROVE LoopInv'
  <2>1. CASE Listen(u)
    BY <2>1 DEF Listen, LoopInv
  <2> QED BY <1>1, <2>1, LoopSteps
<1>2. ASSUME NEW s \in Slots, HangUp(s) PROVE LoopInv'
  BY <1>2, HangUpLoops
<1>3. ASSUME NEW s \in Slots, Fetch(s) PROVE LoopInv'
  <2>1. CASE GetOK(req[s].url)
    <3>1. /\ DOMAIN req' = Slots /\ \A t \in Slots \ {s} : req'[t] = req[t]
          /\ req'[s].pc = "fetched" /\ req'[s].url = req[s].url /\ req'[s].client = req[s].client
      BY <1>3, <2>1 DEF Fetch, With, Inv, Shape
    <3>2. UNCHANGED <<loop, plat, faults, apart>>
      BY <1>3, <2>1 DEF Fetch
    <3>3. \A t \in Slots : req'[t].pc = "free" => req'[t] = FreeReq
      BY <3>1 DEF LoopInv
    <3>4. \A t \in Slots : req[t].client => req'[t].client /\ req'[t].url = req[t].url
      BY <3>1
    <3> QED BY <3>2, <3>3, <3>4, LoopsStay DEF LoopInv
  <2>2. CASE ~ GetOK(req[s].url)
    BY <1>3, <2>2, ReplyLoops DEF Fetch
  <2> QED BY <2>1, <2>2
<1>4. ASSUME NEW s \in Slots, Persist(s) PROVE LoopInv'
  <2>1. /\ DOMAIN req' = Slots /\ \A t \in Slots \ {s} : req'[t] = req[t]
        /\ req'[s].pc = "persisted" /\ req'[s].url = req[s].url /\ req'[s].client = req[s].client
    BY <1>4 DEF Persist, Persisted, Inv, Shape
  <2>2. UNCHANGED <<loop, plat, faults>> /\ apart' \in BOOLEAN
    BY <1>4 DEF Persist, LoopInv
  <2>3. \A t \in Slots : req'[t].pc = "free" => req'[t] = FreeReq
    BY <2>1 DEF LoopInv
  <2>4. \A t \in Slots : req[t].client => req'[t].client /\ req'[t].url = req[t].url
    BY <2>1
  <2> QED BY <2>2, <2>3, <2>4, LoopsStay DEF LoopInv
<1>5. ASSUME NEW s \in Slots, Fails(s) \/ SyncAndReply(s) PROVE LoopInv'
  BY <1>5, ReplyLoops DEF Fails, SyncAndReply
<1>6. ASSUME NEW s \in Slots, NEW u \in Apps, NEW isSync \in BOOLEAN, Operator(s, u, isSync) PROVE LoopInv'
  <2>1. /\ \A t \in Slots \ {s} : req'[t] = req[t]
        /\ req'[s].pc = "posted" /\ req[s].pc = "free"
    BY <1>6, ArrivesIs DEF Operator, Inv
  <2>2. ~ req[s].client
    BY <2>1 DEF Inv, Shape, Request
  <2>3. UNCHANGED <<loop, plat, apart>> /\ (faults' = faults \/ Fault)
    BY <1>6 DEF Operator
  <2>4. \A t \in Slots : req'[t].pc = "free" => req'[t] = FreeReq
    BY <2>1 DEF LoopInv
  <2>5. \A t \in Slots : req[t].client => req'[t].client /\ req'[t].url = req[t].url
    BY <2>1, <2>2
  <2> QED BY <2>3, <2>4, <2>5, LoopsStay DEF LoopInv
<1>7. CASE Crash
  BY <1>7, CrashLoops
<1>8. CASE Restore \/ Introspect \/ Up
  <2>1. UNCHANGED <<loop, req>> /\ (faults' = faults \/ Fault) /\ (apart' = apart \/ apart' = TRUE)
    BY <1>8 DEF Restore, Introspect, Up
  <2>2. plat'.pc \in {"asking", "up"}
    BY <1>8 DEF Restore, Introspect, Up
  <2> QED BY <2>1, <2>2, LoopsStay DEF LoopInv
<1>9. CASE UNCHANGED vars
  BY <1>9 DEF vars, LoopInv
<1> QED BY <1>1, <1>2, <1>3, <1>4, <1>5, <1>6, <1>7, <1>8, <1>9 DEF Next

\* The variables keep their types: among them that a register loop is answered
\* or there is a request that will answer it, that it asks no more often than it
\* may, and that a platform that starts handles no request (client.ts:79-102).
THEOREM RegistrationTypesHold == Spec => []TypeOK
<1>1. Init => Inv /\ LoopInv
  BY InitInv, LoopInit
<1>2. Inv /\ LoopInv /\ [Next]_vars => (Inv /\ LoopInv)'
  BY InvPreserved, LoopNext
<1>3. Inv /\ LoopInv => TypeOK
  <2> SUFFICES ASSUME Inv, LoopInv PROVE TypeOK
    OBVIOUS
  <2>1. \A u \in Apps : loop[u].pc = "asking" <=> \E s \in Slots : req[s].client /\ req[s].url = u
    BY DEF Inv, Fetched, LoopInv
  <2>2. \A s \in Slots : req[s].pc \in {"free", "posted", "fetched", "persisted"}
    BY DEF Inv, Shape, Request
  <2>3. plat.pc # "up" => \A s \in Slots : req[s] = FreeReq
    BY DEF Inv, Shape, LoopInv
  <2>4. serving \subseteq {u \in Apps : ver[u] > 0}
    BY DEF Inv, Shape
  <2>5. \A u \in Apps : ver[u] \in 0 .. Len(Code[u])
    BY DEF Inv, Shape
  <2> QED BY <2>1, <2>2, <2>3, <2>4, <2>5 DEF LoopInv, Within, TypeOK
<1> QED BY <1>1, <1>2, <1>3, PTL DEF Spec

-----------------------------------------------------------------------------
(* The subscriptions are the functions of the registry.  Whatever is synced *)
(* names its functions by their ids: so what is found under an id and an    *)
(* event in the bag is the function of the registry itself.                 *)

Ids(m)   == \A id \in DOMAIN m : m[id].id = id
Image(m) == {m[id] : id \in DOMAIN m}

\* What is known under id is from a manifest of some version of some app.
Origin(u, v, id, x) == id \in DOMAIN Functions[u][v] /\ x = Manifests[u][v][id]
Made(m) == \A id \in DOMAIN m : \E u \in Apps : \E v \in DOMAIN Code[u] : Origin(u, v, id, m[id])

SubsInv ==
  /\ Made(byID) /\ Made(table) /\ \A s \in Slots : Made(req[s].fns)
  /\ byEvent = SetToBag(Image(byID))

\* To unsubscribe some functions of a registry leaves the others.
LEMMA UnsubscribedIs ==
  ASSUME NEW m, Ids(m), NEW old \in SUBSET DOMAIN m
  PROVE  Unsubscribed(SetToBag(Image(m)), {m[id] : id \in old}) = SetToBag({m[id] : id \in DOMAIN m \ old})
<1> DEFINE subs  == SetToBag(Image(m))
           gone  == {m[id] : id \in old}
           of(f) == {x \in BagToSet(subs) : x.event = f.event /\ x.id = f.id}
           left  == {m[id] : id \in DOMAIN m \ old}
<1>1. DOMAIN subs = Image(m) /\ \A x \in Image(m) : subs[x] = 1
  BY DEF SetToBag
<1>2. ASSUME NEW f \in gone PROVE of(f) = {f}
  <2>1. PICK id \in old : f = m[id]
    OBVIOUS
  <2>2. f \in Image(m) /\ f.id = id
    BY <2>1 DEF Image, Ids
  <2>3. ASSUME NEW x \in Image(m), x.id = f.id PROVE x = f
    <3>1. PICK k \in DOMAIN m : x = m[k]
      BY DEF Image
    <3>2. k = id
      BY <3>1, <2>2, <2>3 DEF Ids
    <3> QED BY <2>1, <3>1, <3>2
  <2>4. BagToSet(subs) = Image(m)
    BY <1>1 DEF BagToSet
  <2> HIDE DEF subs
  <2> QED BY <2>2, <2>3, <2>4
<1> HIDE DEF of
<1>3. {CHOOSE x \in of(f) : TRUE : f \in {f \in gone : of(f) # {}}} = gone
  <2>1. \A f \in gone : of(f) # {} /\ (CHOOSE x \in of(f) : TRUE) = f
    BY <1>2
  <2> HIDE DEF gone
  <2> QED BY <2>1
<1>4. Unsubscribed(subs, gone) = subs (-) SetToBag(gone)
  BY <1>3 DEF Unsubscribed, of
<1>5. DOMAIN SetToBag(gone) = gone /\ \A x \in gone : SetToBag(gone)[x] = 1
  BY DEF SetToBag
<1>6. Image(m) \ gone = left
  <2>1. ASSUME NEW k \in DOMAIN m, NEW id \in DOMAIN m, m[k] = m[id] PROVE k = id
    BY <2>1 DEF Ids
  <2> QED BY <2>1 DEF Image
<1>7. subs (-) SetToBag(gone) = [x \in Image(m) \ gone |-> 1]
  <2> DEFINE B == [x \in DOMAIN subs |-> IF x \in DOMAIN SetToBag(gone) THEN subs[x] - SetToBag(gone)[x] ELSE subs[x]]
  <2>1. DOMAIN B = Image(m) /\ \A x \in Image(m) : B[x] = IF x \in gone THEN 0 ELSE 1
    <3> HIDE DEF subs, gone
    <3> QED BY <1>1, <1>5
  <2>2. subs (-) SetToBag(gone) = [x \in {d \in DOMAIN B : B[d] > 0} |-> B[x]]
    BY DEF (-)
  <2> HIDE DEF B, subs, gone
  <2>3. {d \in DOMAIN B : B[d] > 0} = Image(m) \ gone
    BY <2>1
  <2> QED BY <2>1, <2>2, <2>3
<1>8. subs (-) SetToBag(gone) = SetToBag(left)
  BY <1>6, <1>7 DEF SetToBag
<1> QED BY <1>4, <1>8

\* To subscribe others adds them.
LEMMA SubscribeIs ==
  ASSUME NEW S, NEW fns, S \cap Image(fns) = {}
  PROVE  Subscribe(SetToBag(S), fns) = SetToBag(S \cup Image(fns))
<1>1. DOMAIN SetToBag(S) = S /\ \A x \in S : SetToBag(S)[x] = 1
  BY DEF SetToBag
<1>2. DOMAIN SetToBag(Image(fns)) = Image(fns) /\ \A x \in Image(fns) : SetToBag(Image(fns))[x] = 1
  BY DEF SetToBag
<1>3. Subscribe(SetToBag(S), fns) = SetToBag(S) (+) SetToBag(Image(fns))
  BY DEF Subscribe, Image
<1>4. SetToBag(S) (+) SetToBag(Image(fns))
      = [x \in S \cup Image(fns) |-> (IF x \in S THEN SetToBag(S)[x] ELSE 0)
                                     + (IF x \in Image(fns) THEN SetToBag(Image(fns))[x] ELSE 0)]
  BY <1>1, <1>2 DEF (+)
<1>5. \A x \in S \cup Image(fns) : (IF x \in S THEN SetToBag(S)[x] ELSE 0)
                                   + (IF x \in Image(fns) THEN SetToBag(Image(fns))[x] ELSE 0) = 1
  BY <1>1, <1>2
<1>6. SetToBag(S) (+) SetToBag(Image(fns)) = [x \in S \cup Image(fns) |-> 1]
  BY <1>4, <1>5
<1> QED BY <1>3, <1>6 DEF SetToBag

\* A sync of a manifest keeps the subscriptions the functions of the registry,
\* those that are moved among them.
LEMMA ResubscribedIs ==
  ASSUME NEW m, NEW u, NEW fns, Ids(m), Ids(fns)
  PROVE  /\ Resubscribed(m, SetToBag(Image(m)), u, fns) = SetToBag(Image(Replaced(m, u, fns)))
         /\ Ids(Replaced(m, u, fns))
<1> DEFINE old  == Known(m, u) \cup (DOMAIN fns \cap DOMAIN m)
           left == {m[id] : id \in DOMAIN m \ old}
           new  == Replaced(m, u, fns)
<1>1. old \in SUBSET DOMAIN m
  BY DEF Known
<1>2. Unsubscribed(SetToBag(Image(m)), {m[id] : id \in old}) = SetToBag(left)
  BY <1>1, UnsubscribedIs
<1>3. left \cap Image(fns) = {}
  <2> SUFFICES ASSUME NEW x \in left, x \in Image(fns) PROVE FALSE
    OBVIOUS
  <2>1. PICK k \in DOMAIN m \ old : x = m[k]
    OBVIOUS
  <2>2. PICK id \in DOMAIN fns : x = fns[id]
    BY DEF Image
  <2>3. k = id
    BY <2>1, <2>2 DEF Ids
  <2> QED BY <2>1, <2>2, <2>3
<1>4. Resubscribed(m, SetToBag(Image(m)), u, fns) = SetToBag(left \cup Image(fns))
  BY <1>2, <1>3, SubscribeIs DEF Resubscribed
<1>5. /\ DOMAIN new = (DOMAIN m \ Known(m, u)) \cup DOMAIN fns
      /\ \A id \in DOMAIN fns : new[id] = fns[id]
      /\ \A id \in DOMAIN m \ old : new[id] = m[id]
  BY DEF Replaced
<1>6. DOMAIN new = (DOMAIN m \ old) \cup DOMAIN fns
  BY <1>5
<1>7. Ids(new)
  <2> HIDE DEF new, old
  <2> QED BY <1>5, <1>6 DEF Ids
<1>8. Image(new) = left \cup Image(fns)
  <2> HIDE DEF new, old
  <2> QED BY <1>5, <1>6 DEF Image
<1> QED BY <1>4, <1>7, <1>8

\* What a manifest holds is of its app and names its functions by their ids.
LEMMA OriginIs ==
  ASSUME NEW u \in Apps, NEW v \in DOMAIN Code[u], NEW id, NEW x, Origin(u, v, id, x)
  PROVE  LET f == Functions[u][v][id]
         IN x = [id |-> id, url |-> u, event |-> f.event, of |-> f.of, timeout |-> Decoded(f.timeout)]
<1>1. Manifests[u][v] = ManifestOf(u, Functions[u][v])
  BY DEF Manifests
<1> QED BY <1>1 DEF Origin, ManifestOf

LEMMA MadeIds ==
  ASSUME NEW m, Made(m)
  PROVE  Ids(m)
<1> SUFFICES ASSUME NEW id \in DOMAIN m PROVE m[id].id = id
  BY DEF Ids
<1>1. PICK u \in Apps : \E v \in DOMAIN Code[u] : Origin(u, v, id, m[id])
  BY DEF Made
<1>2. m[id].id = id
  BY <1>1, OriginIs
<1> QED BY <1>2

\* A manifest is made of the present version of its app.
LEMMA ManifestMade ==
  ASSUME NEW u \in Apps, ver[u] \in 1 .. Len(Code[u])
  PROVE  Made(Manifest(u))
<1>1. ver[u] \in DOMAIN Code[u]
  BY CodeAssumption
<1>2. Manifest(u) = ManifestOf(u, Functions[u][ver[u]]) /\ Manifest(u) = Manifests[u][ver[u]]
  BY <1>1 DEF Manifest, Manifests
<1>3. DOMAIN Manifest(u) = DOMAIN Functions[u][ver[u]]
  BY <1>2 DEF ManifestOf
<1>4. \A id \in DOMAIN Manifest(u) : Origin(u, ver[u], id, Manifest(u)[id])
  BY <1>2, <1>3 DEF Origin
<1> QED BY <1>1, <1>4 DEF Made

\* Replacing what is known of an app makes up nothing.
LEMMA ReplacedMade ==
  ASSUME NEW m, NEW u, NEW fns, Made(m), Made(fns)
  PROVE  Made(Replaced(m, u, fns))
<1> DEFINE new == Replaced(m, u, fns)
<1>1. /\ DOMAIN new = (DOMAIN m \ Known(m, u)) \cup DOMAIN fns
      /\ \A id \in DOMAIN fns : new[id] = fns[id]
      /\ \A id \in DOMAIN new \ DOMAIN fns : id \in DOMAIN m /\ new[id] = m[id]
  BY DEF Replaced
<1> HIDE DEF new
<1>2. \A id \in DOMAIN fns : \E w \in Apps : \E v \in DOMAIN Code[w] : Origin(w, v, id, fns[id])
  BY DEF Made
<1>3. \A id \in DOMAIN m : \E w \in Apps : \E v \in DOMAIN Code[w] : Origin(w, v, id, m[id])
  BY DEF Made
<1>4. ASSUME NEW id \in DOMAIN new
      PROVE  \E w \in Apps : \E v \in DOMAIN Code[w] : Origin(w, v, id, new[id])
  <2>1. CASE id \in DOMAIN fns
    <3>1. new[id] = fns[id]
      BY <1>1, <2>1
    <3> QED BY <1>2, <2>1, <3>1
  <2>2. CASE id \notin DOMAIN fns
    <3>1. new[id] = m[id] /\ id \in DOMAIN m
      BY <1>1, <2>2
    <3> QED BY <1>3, <3>1
  <2> QED BY <2>1, <2>2
<1> QED BY <1>4 DEF Made, new

\* A sync, whoever asks for it.
LEMMA SyncSubs ==
  ASSUME SubsInv, NEW u, NEW fns, Made(fns), Sync(u, fns)
  PROVE  Made(byID') /\ byEvent' = SetToBag(Image(byID'))
<1>1. byID' = Replaced(byID, u, fns) /\ byEvent' = Resubscribed(byID, SetToBag(Image(byID)), u, fns)
  BY DEF Sync, SubsInv
<1>2. Made(byID) /\ Ids(byID) /\ Ids(fns)
  BY MadeIds DEF SubsInv
<1>3. Resubscribed(byID, SetToBag(Image(byID)), u, fns) = SetToBag(Image(Replaced(byID, u, fns)))
  BY <1>2, ResubscribedIs
<1>4. Made(Replaced(byID, u, fns))
  BY <1>2, ReplacedMade
<1> QED BY <1>1, <1>3, <1>4

\* Steps that leave the registry alone.
LEMMA SubsStay ==
  ASSUME SubsInv, UNCHANGED <<byID, byEvent>>, Made(table'), \A s \in Slots : Made(req'[s].fns)
  PROVE  SubsInv'
BY DEF SubsInv, Made, Image

\* Every step keeps the subscriptions.
LEMMA SubsNext == Inv /\ SubsInv /\ [Next]_vars => SubsInv'
<1> SUFFICES ASSUME Inv, SubsInv, [Next]_vars PROVE SubsInv'
  OBVIOUS
<1>0. Made(table) /\ \A s \in Slots : Made(req[s].fns)
  BY DEF SubsInv
<1>1. Made(Empty) /\ Image(Empty) = {} /\ EmptyBag = SetToBag({})
  BY DEF Made, Image, Empty, EmptyBag
<1>2. FreeReq.fns = Empty
  BY DEF FreeReq
<1>3. \A t \in Slots : Unheard(req[t]).fns = req[t].fns /\ Persisted(req[t]).fns = req[t].fns
  BY DEF Unheard, Persisted
<1>4. ASSUME NEW u \in Apps, Deploy(u) \/ Listen(u) \/ TryRegister(u) PROVE SubsInv'
  <2>1. UNCHANGED <<byID, byEvent, table>>
    BY <1>4 DEF Deploy, Listen, TryRegister
  <2>2. CASE Deploy(u)
    <3>1. \A t \in Slots : req'[t] = req[t] \/ req'[t] = Unheard(req[t])
      BY <2>2 DEF Deploy
    <3>2. \A t \in Slots : Made(req'[t].fns)
      BY <1>0, <1>3, <3>1
    <3> QED BY <1>0, <2>1, <3>2, SubsStay
  <2>3. CASE \E s \in Slots : Arrives(s, u, TRUE)
    <3>1. PICK s \in Slots : Arrives(s, u, TRUE)
      BY <2>3
    <3>2. \A t \in Slots : req'[t] = req[t] \/ req'[t] = Posted(u, TRUE)
      BY <3>1 DEF Arrives, Inv, Shape
    <3>3. Posted(u, TRUE).fns = Empty
      BY DEF Posted
    <3>4. \A t \in Slots : Made(req'[t].fns)
      BY <1>0, <1>1, <3>2, <3>3
    <3> QED BY <1>0, <2>1, <3>4, SubsStay
  <2>4. CASE UNCHANGED req
    BY <1>0, <2>1, <2>4, SubsStay
  <2> QED BY <1>4, <2>2, <2>3, <2>4 DEF Listen, TryRegister
<1>5. ASSUME NEW s \in Slots, HangUp(s) \/ Fails(s) PROVE SubsInv'
  <2>1. UNCHANGED <<byID, byEvent, table>>
    BY <1>5 DEF HangUp, Fails
  <2>2. \A t \in Slots : req'[t] = req[t] \/ req'[t] = Unheard(req[t]) \/ req'[t] = FreeReq
    BY <1>5 DEF HangUp, Fails, Reply, Inv, Shape
  <2>3. \A t \in Slots : Made(req'[t].fns)
    BY <1>0, <1>1, <1>2, <1>3, <2>2
  <2> QED BY <1>0, <2>1, <2>3, SubsStay
<1>6. ASSUME NEW s \in Slots, Fetch(s) PROVE SubsInv'
  <2>1. UNCHANGED <<byID, byEvent, table>>
    BY <1>6 DEF Fetch
  <2>2. CASE GetOK(req[s].url)
    <3>1. PICK u \in Apps : u = req[s].url
      BY <1>6 DEF Fetch, Inv, Shape, Request
    <3>2. Made(Manifest(u))
      <4>1. ver[u] \in 1 .. Len(Code[u])
        BY <2>2, <3>1, CodeAssumption DEF GetOK, Inv, Shape
      <4> QED BY <4>1, ManifestMade
    <3>3. \A t \in Slots : req'[t] = req[t] \/ req'[t].fns = Manifest(u)
      BY <1>6, <2>2, <3>1 DEF Fetch, With, Inv, Shape
    <3>4. \A t \in Slots : Made(req'[t].fns)
      BY <1>0, <3>2, <3>3
    <3> QED BY <1>0, <2>1, <3>4, SubsStay
  <2>3. CASE ~ GetOK(req[s].url)
    <3>1. \A t \in Slots : req'[t] = req[t] \/ req'[t] = FreeReq
      BY <1>6, <2>3 DEF Fetch, Reply, Inv, Shape
    <3>2. \A t \in Slots : Made(req'[t].fns)
      BY <1>0, <1>1, <1>2, <3>1
    <3> QED BY <1>0, <2>1, <3>2, SubsStay
  <2> QED BY <2>2, <2>3
<1>7. ASSUME NEW s \in Slots, Persist(s) PROVE SubsInv'
  <2>1. UNCHANGED <<byID, byEvent>> /\ table' = Replaced(table, req[s].url, req[s].fns)
    BY <1>7 DEF Persist
  <2>2. Made(table')
    BY <1>0, <2>1, ReplacedMade
  <2>3. \A t \in Slots : req'[t] = req[t] \/ req'[t] = Persisted(req[t])
    BY <1>7 DEF Persist, Inv, Shape
  <2>4. \A t \in Slots : Made(req'[t].fns)
    BY <1>0, <1>3, <2>3
  <2> QED BY <2>1, <2>2, <2>4, SubsStay
<1>8. ASSUME NEW s \in Slots, SyncAndReply(s) PROVE SubsInv'
  <2>1. Sync(req[s].url, req[s].fns) /\ UNCHANGED table
    BY <1>8 DEF SyncAndReply
  <2>2. Made(byID') /\ byEvent' = SetToBag(Image(byID'))
    BY <1>0, <2>1, SyncSubs
  <2>3. \A t \in Slots : req'[t] = req[t] \/ req'[t] = FreeReq
    BY <1>8 DEF SyncAndReply, Reply, Inv, Shape
  <2>4. \A t \in Slots : Made(req'[t].fns)
    BY <1>0, <1>1, <1>2, <2>3
  <2> QED BY <1>0, <2>1, <2>2, <2>4 DEF SubsInv, Made, Image
<1>9. ASSUME NEW s \in Slots, NEW u \in Apps, NEW isSync \in BOOLEAN, Operator(s, u, isSync) PROVE SubsInv'
  <2>1. UNCHANGED <<byID, byEvent, table>>
    BY <1>9 DEF Operator
  <2>2. \A t \in Slots : req'[t] = req[t] \/ req'[t] = Posted(u, FALSE)
    BY <1>9 DEF Operator, Arrives, Inv, Shape
  <2>3. Posted(u, FALSE).fns = Empty
    BY DEF Posted
  <2>4. \A t \in Slots : Made(req'[t].fns)
    BY <1>0, <1>1, <2>2, <2>3
  <2> QED BY <1>0, <2>1, <2>4, SubsStay
<1>10. CASE Crash
  <2>1. byID' = Empty /\ byEvent' = EmptyBag /\ UNCHANGED table /\ \A t \in Slots : req'[t] = FreeReq
    BY <1>10 DEF Crash
  <2> QED BY <1>0, <1>1, <1>2, <2>1 DEF SubsInv, Made, Image
<1>11. CASE Restore
  <2>1. UNCHANGED <<req, table>>
    BY <1>11 DEF Restore
  <2>2. CASE UNCHANGED <<byID, byEvent>>
    BY <1>0, <2>1, <2>2, SubsStay
  <2>3. CASE byID' = table /\ byEvent' = Subscribe(EmptyBag, table)
    <3>1. Subscribe(EmptyBag, table) = SetToBag({} \cup Image(table))
      BY <1>1, SubscribeIs
    <3>2. byEvent' = SetToBag(Image(table))
      BY <2>3, <3>1
    <3> QED BY <1>0, <2>1, <2>3, <3>2 DEF SubsInv, Made, Image
  <2> QED BY <1>11, <2>2, <2>3 DEF Restore
<1>12. CASE Introspect
  <2> DEFINE u == Head(plat.todo)
  <2>1. UNCHANGED req
    BY <1>12 DEF Introspect
  <2>2. CASE ~ GetOK(u)
    <3>1. UNCHANGED <<byID, byEvent, table>>
      BY <1>12, <2>2 DEF Introspect
    <3> QED BY <1>0, <2>1, <3>1, SubsStay
  <2>3. CASE GetOK(u)
    <3>1. u \in Apps
      BY <1>12 DEF Introspect, Inv, Shape
    <3>2. Sync(u, Manifest(u)) /\ (table' = Replaced(table, u, Manifest(u)) \/ UNCHANGED table)
      BY <1>12, <2>3 DEF Introspect
    <3> HIDE DEF u
    <3>3. ver[u] \in 1 .. Len(Code[u])
      BY <2>3, <3>1, CodeAssumption DEF GetOK, Inv, Shape
    <3>4. Made(Manifest(u))
      BY <3>1, <3>3, ManifestMade
    <3>5. Made(byID') /\ byEvent' = SetToBag(Image(byID'))
      BY <3>2, <3>4, SyncSubs
    <3>6. Made(table')
      <4>1. Made(Replaced(table, u, Manifest(u)))
        BY <1>0, <3>4, ReplacedMade
      <4> QED BY <1>0, <3>2, <4>1
    <3> QED BY <1>0, <2>1, <3>5, <3>6 DEF SubsInv, Made, Image
  <2> QED BY <2>2, <2>3
<1>13. CASE Up \/ UNCHANGED vars
  <2>1. UNCHANGED <<byID, byEvent, table, req>>
    BY <1>13 DEF Up, vars
  <2> QED BY <1>0, <2>1, SubsStay
<1> QED BY <1>4, <1>5, <1>6, <1>7, <1>8, <1>9, <1>10, <1>11, <1>12, <1>13 DEF Next

\* Nothing is registered at the start.
LEMMA SubsInit == Init => SubsInv
<1> SUFFICES ASSUME Init PROVE SubsInv
  OBVIOUS
<1>1. \A s \in Slots : req[s].fns = Empty
  BY DEF Init, FreeReq
<1>2. byID = Empty /\ byEvent = EmptyBag /\ table = Empty
  BY DEF Init
<1>3. Made(Empty) /\ Image(Empty) = {} /\ EmptyBag = SetToBag({})
  BY DEF Made, Image, Empty, EmptyBag
<1> QED BY <1>1, <1>2, <1>3 DEF SubsInv

\* For any apps, code and order of requests, crashes and restarts, an event is
\* routed to a function once and to the function callbacks are made to: a
\* function that moved to another URL leaves no subscription behind
\* (registry.go:181-215).
THEOREM RoutedOnceAlways == Spec => []RoutedOnce
<1>1. Init => Inv /\ SubsInv
  BY InitInv, SubsInit
<1>2. Inv /\ SubsInv /\ [Next]_vars => (Inv /\ SubsInv)'
  BY InvPreserved, SubsNext
<1>3. SubsInv => RoutedOnce
  BY DEF SubsInv, RoutedOnce, Image
<1> QED BY <1>1, <1>2, <1>3, PTL DEF Spec

-----------------------------------------------------------------------------
(* Failures.  An app that was told so has started; what it serves is its    *)
(* functions and those it makes for their failures; and what the registry   *)
(* holds is from a manifest, so nothing else there matches a failure.       *)

SQT == INSTANCE SequenceTheorems

\* No app names a function as serve names those for failures, or matches the
\* failures of one function by hand.
NamesReserved ==
  \A u \in Apps : \A v \in DOMAIN Code[u] : \A k \in DOMAIN Code[u][v] :
    LET f == Code[u][v][k]
    IN f.id \in Seq(STRING) /\ f.id[Len(f.id)] # "on-failure" /\ f.of = <<>>

\* Only an app that was started registers itself.
Awake == \A u \in Apps : loop[u].pc # "off" => ver[u] > 0

LEMMA AwakeStays ==
  ASSUME Awake, UNCHANGED ver, \A w \in Apps : loop'[w] = loop[w] \/ loop[w].pc # "off"
  PROVE  Awake'
BY DEF Awake

\* A reply is for a loop that asks.
LEMMA AwakeReply ==
  ASSUME Inv, Awake, UNCHANGED ver, NEW s \in Slots, NEW l,
         loop' = IF req[s].client THEN [loop EXCEPT ![req[s].url] = l] ELSE loop
  PROVE  Awake'
<1>1. req[s].client => loop[req[s].url].pc = "asking"
  BY DEF Inv, Fetched
<1>2. \A w \in Apps : loop'[w] = loop[w] \/ (req[s].client /\ w = req[s].url)
  BY DEF Inv, Shape
<1> QED BY <1>1, <1>2, AwakeStays

LEMMA AwakeNext == Inv /\ Awake /\ [Next]_vars => Awake'
<1> SUFFICES ASSUME Inv, Awake, [Next]_vars PROVE Awake'
  OBVIOUS
<1>1. ASSUME NEW u \in Apps, Deploy(u) PROVE Awake'
  <2>1. ver' = [ver EXCEPT ![u] = ver[u] + 1] /\ loop' = [loop EXCEPT ![u] = Started]
    BY <1>1 DEF Deploy
  <2>2. ver'[u] = ver[u] + 1 /\ ver[u] \in Nat
    BY <2>1, CodeAssumption DEF Inv, Shape
  <2>3. \A w \in Apps \ {u} : ver'[w] = ver[w] /\ loop'[w] = loop[w]
    BY <2>1 DEF Inv, Shape
  <2> QED BY <2>2, <2>3 DEF Awake
<1>2. ASSUME NEW u \in Apps, TryRegister(u) PROVE Awake'
  <2>1. loop[u].pc = "timer" /\ UNCHANGED ver
    BY <1>2 DEF TryRegister
  <2>2. \A w \in Apps \ {u} : loop'[w] = loop[w]
    BY <1>2 DEF TryRegister, Inv, Shape
  <2> QED BY <2>1, <2>2, AwakeStays
<1>3. ASSUME NEW s \in Slots, HangUp(s) PROVE Awake'
  <2>1. UNCHANGED ver /\ req[s].client /\ loop' = [loop EXCEPT ![req[s].url] = Answered(loop[req[s].url], FALSE)]
    BY <1>3 DEF HangUp
  <2> QED BY <2>1, AwakeReply
<1>4. ASSUME NEW s \in Slots, NEW ok, Reply(s, ok), UNCHANGED ver PROVE Awake'
  <2>1. loop' = IF req[s].client THEN [loop EXCEPT ![req[s].url] = Answered(loop[req[s].url], ok)] ELSE loop
    BY <1>4 DEF Reply
  <2> QED BY <1>4, <2>1, AwakeReply
<1>5. ASSUME NEW s \in Slots, Fetch(s) \/ Fails(s) \/ SyncAndReply(s) \/ Persist(s) PROVE Awake'
  <2>1. UNCHANGED ver
    BY <1>5 DEF Fetch, Fails, SyncAndReply, Persist
  <2>2. Reply(s, TRUE) \/ Reply(s, FALSE) \/ UNCHANGED loop
    BY <1>5 DEF Fetch, Fails, SyncAndReply, Persist
  <2>3. UNCHANGED loop => Awake'
    BY <2>1, AwakeStays
  <2> QED BY <1>4, <2>1, <2>2, <2>3
<1>6. CASE Crash
  <2>1. UNCHANGED ver /\ loop' = [w \in Apps |-> IF loop[w].pc = "asking" THEN Answered(loop[w], FALSE) ELSE loop[w]]
    BY <1>6 DEF Crash
  <2>2. \A w \in Apps : loop'[w] = loop[w] \/ loop[w].pc = "asking"
    BY <2>1
  <2> QED BY <2>1, <2>2, AwakeStays
<1>7. ASSUME NEW u \in Apps, Listen(u) PROVE Awake'
  BY <1>7 DEF Listen, Awake
<1>8. ASSUME NEW s \in Slots, NEW u \in Apps, NEW isSync \in BOOLEAN, Operator(s, u, isSync) PROVE Awake'
  BY <1>8 DEF Operator, Awake
<1>9. CASE Restore \/ Introspect \/ Up \/ UNCHANGED vars
  <2>1. UNCHANGED <<ver, loop>>
    BY <1>9 DEF Restore, Introspect, Up, vars
  <2> QED BY <2>1 DEF Awake
<1> QED BY <1>1, <1>2, <1>3, <1>5, <1>6, <1>7, <1>8, <1>9 DEF Next

-----------------------------------------------------------------------------
\* What is served under an id is a function of this id, or that for the failures
\* of one.
LEMMA ServedIs ==
  ASSUME NEW fns, Len(fns) \in Nat, DOMAIN fns = 1 .. Len(fns), NEW id \in DOMAIN Served(fns)
  PROVE  \E k \in DOMAIN fns : /\ id \in Names(fns[k])
                               /\ Served(fns)[id] = IF id = fns[k].id THEN fns[k] ELSE Implicit(fns[k])
<1> DEFINE of == {k \in DOMAIN fns : id \in Names(fns[k])}
           k  == CHOOSE k \in of : \A j \in of : j <= k
<1>1. Served(fns)[id] = IF id = fns[k].id THEN fns[k] ELSE Implicit(fns[k])
  BY DEF Served
<1>2. of # {} /\ of \in SUBSET (1 .. Len(fns))
  BY DEF Served
<1>3. \E j \in of : \A i \in of : i <= j
  <2> HIDE DEF of
  <2> QED BY <1>2, LastPlace
<1>4. k \in of
  <2> HIDE DEF of
  <2> QED BY <1>3
<1> QED BY <1>1, <1>4

LEMMA ServedNames ==
  ASSUME NEW fns
  PROVE  DOMAIN Served(fns) = UNION {Names(fns[k]) : k \in DOMAIN fns}
BY DEF Served

\* The id made for failures tells the function, and is none of an app's own.
LEMMA ImplicitIDs ==
  ASSUME NEW f, NEW g, f.id \in Seq(STRING), g.id \in Seq(STRING)
  PROVE  /\ ImplicitID(f) = ImplicitID(g) => f.id = g.id
         /\ f.id[Len(f.id)] # "on-failure" => f.id # ImplicitID(g)
<1> DEFINE S == STRING \cup {"on-failure"}
<1>1. "on-failure" \in S /\ f.id \in Seq(S) /\ g.id \in Seq(S)
  OBVIOUS
<1> HIDE DEF S
<1>2. ImplicitID(f) = ImplicitID(g) => f.id = g.id
  <2>1. ASSUME NEW a \in Seq(S), NEW b \in Seq(S), Append(a, "on-failure") = Append(b, "on-failure")
        PROVE  a = b
    BY <1>1, <2>1, SQT!AppendInjective
  <2> QED BY <1>1, <2>1 DEF ImplicitID
<1>3. ImplicitID(g)[Len(ImplicitID(g))] = "on-failure"
  <2>1. Len(ImplicitID(g)) = Len(g.id) + 1 /\ Len(g.id) \in Nat
    BY <1>1, SQT!AppendProperties DEF ImplicitID
  <2> QED BY <1>1, <2>1 DEF ImplicitID
<1> QED BY <1>2, <1>3

\* What an app serves under an id is one of its functions of that id, or what
\* serve makes for the failures of one it serves too.
LEMMA ServedBy ==
  ASSUME NamesReserved, NEW u \in Apps, NEW v \in DOMAIN Code[u], NEW id \in DOMAIN Functions[u][v]
  PROVE  \E k \in DOMAIN Code[u][v] :
           LET g == Code[u][v][k] IN
           \/ id = g.id /\ Functions[u][v][id] = g
           \/ id = ImplicitID(g) /\ Functions[u][v][id] = Implicit(g) /\ g.id \in DOMAIN Functions[u][v]
<1> DEFINE fns == Code[u][v]
<1>1. Functions[u][v] = Served(fns) /\ Len(fns) \in Nat /\ DOMAIN fns = 1 .. Len(fns)
  BY CodeAssumption DEF Functions
<1>2. PICK k \in DOMAIN fns :
        id \in Names(fns[k]) /\ Functions[u][v][id] = IF id = fns[k].id THEN fns[k] ELSE Implicit(fns[k])
  <2> HIDE DEF fns
  <2>1. id \in DOMAIN Served(fns)
    BY <1>1
  <2> QED BY <1>1, <2>1, ServedIs
<1>3. fns[k].id \in DOMAIN Functions[u][v]
  <2>1. fns[k].id \in Names(fns[k])
    BY DEF Names
  <2> HIDE DEF fns
  <2> QED BY <1>1, <2>1, ServedNames
<1>4. id = fns[k].id \/ id = ImplicitID(fns[k])
  BY <1>2 DEF Names
<1> QED BY <1>2, <1>3, <1>4

\* What serve makes for the failures of f is in the manifest, and shared with
\* another app only if f is.
LEMMA FailuresServed ==
  ASSUME NamesReserved, NEW u \in Apps, NEW v \in DOMAIN Code[u], NEW k \in DOMAIN Code[u][v],
         Code[u][v][k].onFailure
  PROVE  LET f  == Code[u][v][k]
             id == ImplicitID(f)
         IN /\ id \in DOMAIN Functions[u][v]
            /\ Functions[u][v][id].event = FailedEvent /\ Functions[u][v][id].of = f.id
            /\ Shared(u, id) => Shared(u, f.id)
<1> DEFINE f  == Code[u][v][k]
           id == ImplicitID(f)
<1>1. f.id \in Seq(STRING)
  BY DEF NamesReserved
<1>2. id \in DOMAIN Functions[u][v]
  <2>1. Functions[u][v] = Served(Code[u][v]) /\ id \in Names(f)
    BY DEF Functions, Names
  <2> QED BY <2>1, ServedNames
<1>3. ASSUME NEW w \in Apps, NEW y \in DOMAIN Code[w], id \in DOMAIN Functions[w][y]
      PROVE  \E g : g.id = f.id /\ Functions[w][y][id] = Implicit(g) /\ f.id \in DOMAIN Functions[w][y]
  <2>1. PICK j \in DOMAIN Code[w][y] :
          LET g == Code[w][y][j] IN
          \/ id = g.id /\ Functions[w][y][id] = g
          \/ id = ImplicitID(g) /\ Functions[w][y][id] = Implicit(g) /\ g.id \in DOMAIN Functions[w][y]
    BY <1>3, ServedBy
  <2>2. Code[w][y][j].id \in Seq(STRING) /\ Code[w][y][j].id[Len(Code[w][y][j].id)] # "on-failure"
    BY DEF NamesReserved
  <2>3. id # Code[w][y][j].id
    BY <1>1, <2>2, ImplicitIDs
  <2>4. id = ImplicitID(Code[w][y][j]) => Code[w][y][j].id = f.id
    BY <1>1, <2>2, ImplicitIDs
  <2> QED BY <2>1, <2>3, <2>4
<1>4. Functions[u][v][id].event = FailedEvent /\ Functions[u][v][id].of = f.id
  <2>1. PICK g : g.id = f.id /\ Functions[u][v][id] = Implicit(g)
    BY <1>2, <1>3
  <2> QED BY <2>1 DEF Implicit
<1>5. Shared(u, id) => Shared(u, f.id)
  <2> SUFFICES ASSUME NEW w \in Apps \ {u}, id \in Claims[w] PROVE f.id \in Claims[w]
    BY DEF Shared
  <2>1. PICK y \in DOMAIN Code[w] : id \in DOMAIN Functions[w][y]
    BY DEF Claims
  <2>2. f.id \in DOMAIN Functions[w][y]
    BY <1>3, <2>1
  <2> QED BY <2>1, <2>2 DEF Claims
<1> QED BY <1>2, <1>4, <1>5

\* Nothing else that may be known matches the failures of f.
LEMMA FailuresMatch ==
  ASSUME NamesReserved, NEW m, Made(m), NEW id \in DOMAIN m,
         NEW f, f.id \in Seq(STRING), f.id # <<>>, m[id].of = f.id
  PROVE  id = ImplicitID(f)
<1>1. PICK w \in Apps : \E y \in DOMAIN Code[w] : Origin(w, y, id, m[id])
  BY DEF Made
<1>2. PICK y \in DOMAIN Code[w] : Origin(w, y, id, m[id])
  BY <1>1
<1>3. m[id].of = Functions[w][y][id].of /\ id \in DOMAIN Functions[w][y]
  BY <1>2, OriginIs DEF Origin
<1>4. PICK j \in DOMAIN Code[w][y] :
        LET g == Code[w][y][j] IN
        \/ id = g.id /\ Functions[w][y][id] = g
        \/ id = ImplicitID(g) /\ Functions[w][y][id] = Implicit(g) /\ g.id \in DOMAIN Functions[w][y]
  BY <1>3, ServedBy
<1>5. Code[w][y][j].of = <<>>
  BY DEF NamesReserved
<1>6. id = ImplicitID(Code[w][y][j]) /\ m[id].of = Code[w][y][j].id
  BY <1>3, <1>4, <1>5 DEF Implicit
<1> QED BY <1>6 DEF ImplicitID

\* The failure of a function reaches its own onFailure handler and no other:
\* for any apps, versions and order of requests, crashes and restarts, as long
\* as no app takes the names serve makes for itself, and unless the id of the
\* function is another app's too (serve.ts:35-51).
THEOREM FailureIsHandledAlways == ASSUME NamesReserved PROVE Spec => []FailureIsHandled
<1>1. Init => Inv /\ SubsInv /\ Awake
  <2>1. Init => Awake
    BY DEF Init, Awake, NoLoop
  <2> QED BY <2>1, InitInv, SubsInit
<1>2. Inv /\ SubsInv /\ Awake /\ [Next]_vars => (Inv /\ SubsInv /\ Awake)'
  BY InvPreserved, SubsNext, AwakeNext
<1>3. Inv /\ SubsInv /\ Awake => FailureIsHandled
  <2> SUFFICES ASSUME Inv, SubsInv, Awake, ~ apart, plat.pc = "up",
                      NEW u \in Apps, loop[u].pc = "done", NEW k \in DOMAIN Code[u][ver[u]],
                      Code[u][ver[u]][k].onFailure, ~ Shared(u, Code[u][ver[u]][k].id)
               PROVE  LET f   == Code[u][ver[u]][k]
                          hit == {x \in Match(FailedEvent) : x.of = f.id}
                      IN \E x \in hit : hit = {x} /\ x.url = u /\ x.id = ImplicitID(f)
    BY DEF FailureIsHandled
  <2> DEFINE v   == ver[u]
             f   == Code[u][v][k]
             id  == ImplicitID(f)
             hit == {x \in Match(FailedEvent) : x.of = f.id}
             x   == byID[id]
  <2>1. v \in DOMAIN Code[u]
    BY CodeAssumption DEF Awake, Inv, Shape
  <2>2. f.id \in Seq(STRING) /\ f.id # <<>>
    BY <2>1, CodeAssumption DEF NamesReserved, Created
  <2>3. /\ id \in DOMAIN Functions[u][v]
        /\ Functions[u][v][id].event = FailedEvent /\ Functions[u][v][id].of = f.id
        /\ ~ Shared(u, id)
    BY <2>1, FailuresServed
  <2> HIDE DEF f, id
  <2>4. /\ id \in DOMAIN Manifest(u)
        /\ Manifest(u)[id] = [id |-> id, url |-> u, event |-> Functions[u][v][id].event,
                              of |-> Functions[u][v][id].of, timeout |-> Decoded(Functions[u][v][id].timeout)]
    BY <2>1, <2>3 DEF Manifest, Manifests, ManifestOf
  <2>5. AsTold(byID, u)
    BY DEF Inv, Told, Done
  <2>6. id \in DOMAIN byID /\ x = Manifest(u)[id]
    BY <2>3, <2>4, <2>5 DEF AsTold, Known
  <2>7. x.id = id /\ x.url = u /\ x.event = FailedEvent /\ x.of = f.id
    BY <2>3, <2>4, <2>6
  <2>8. BagToSet(byEvent) = {byID[j] : j \in DOMAIN byID}
    BY DEF SubsInv, BagToSet, SetToBag, Image
  <2>9. x \in hit
    BY <2>6, <2>7, <2>8 DEF Match
  <2>10. ASSUME NEW y \in hit PROVE y = x
    <3>1. PICK j \in DOMAIN byID : y = byID[j]
      BY <2>8 DEF Match
    <3>2. byID[j].of = f.id /\ Made(byID)
      BY <3>1 DEF SubsInv
    <3>3. j = id
      BY <2>2, <3>2, FailuresMatch DEF id
    <3> QED BY <3>1, <3>3
  <2> HIDE DEF x, hit
  <2>11. hit = {x}
    BY <2>9, <2>10
  <2> QED BY <2>7, <2>9, <2>11 DEF f, id, hit
<1> QED BY <1>1, <1>2, <1>3, PTL DEF Spec
=============================================================================
