---------------------------- MODULE PagesProofs -----------------------------
(***************************************************************************)
(* That a run page shows its run as it ended, that the task of a run that  *)
(* completed says so and that the panel follows a task up once, for every  *)
(* number of steps, runs, faults and requests on their way.                *)
(***************************************************************************)
EXTENDS Pages, TLAPS

Statuses == {"unknown", "running", "completed", "failed"}
RunT     == [task : Tasks, st : Active \cup Ended, done : 0 .. Steps, exec : BOOLEAN]
Task     == [status : Statuses, result : BOOLEAN]
Finish   == [status |-> "completed", result |-> TRUE]

RunsOK ==
  /\ runs \in Seq(RunT) /\ Len(runs) <= MaxRuns
  /\ \A r \in DOMAIN runs : /\ runs[r].exec => runs[r].st = "running" /\ runs[r].done < Steps
                            /\ runs[r].st = "completed" => runs[r].done = Steps
\* The tasks are numbered in the order of their first runs.
KnownOK == \E n \in 0 .. Len(runs) : Known = 1 .. n
TableOK ==
  /\ table \in [Tasks -> Task] /\ strays \subseteq [task : Tasks, at : 1 .. Steps]
  /\ \A t \in Tasks : table[t].status = "completed" => table[t].result

Sole(r)   == \A q \in DOMAIN runs : runs[q].task = runs[r].task => q = r
Through   == \A r \in DOMAIN runs : runs[r].done = Steps /\ Sole(r) =>
               table[runs[r].task].status = "completed" /\ table[runs[r].task].result
AppInv    == RunsOK /\ KnownOK /\ TableOK /\ Through

-----------------------------------------------------------------------------
(* The app. *)

LEMMA RunBecomes ==
  ASSUME NEW s \in Seq(RunT), NEW r \in DOMAIN s, NEW x \in RunT, NEW t, t = [s EXCEPT ![r] = x]
  PROVE  /\ t \in Seq(RunT) /\ Len(t) = Len(s) /\ DOMAIN t = DOMAIN s /\ t[r] = x
         /\ \A q \in DOMAIN s : q # r => t[q] = s[q]
OBVIOUS

LEMMA FieldsOfRun ==
  ASSUME NEW x \in RunT
  PROVE  /\ x = [task |-> x.task, st |-> x.st, done |-> x.done, exec |-> x.exec]
         /\ x.task \in Tasks /\ x.st \in Active \cup Ended /\ x.done \in 0 .. Steps /\ x.exec \in BOOLEAN
BY Zenon DEF RunT

\* What a step writes to the table.
LEMMA BegunIs ==
  ASSUME TableOK, NEW t \in Tasks
  PROVE  /\ Begun(t) \in [Tasks -> Task] /\ \A u \in Tasks \ {t} : Begun(t)[u] = table[u]
         /\ Begun(t)[t] = [status |-> "running", result |-> table[t].result]
<1> DEFINE entry == [k \in DOMAIN Unknown |-> IF k \in DOMAIN [status |-> "running"]
                                              THEN [status |-> "running"][k] ELSE table[t][k]]
<1>1. DOMAIN Unknown = {"status", "result"} /\ DOMAIN [status |-> "running"] = {"status"}
    BY DEF Unknown
<1>2. entry = [status |-> "running", result |-> table[t].result]
    BY <1>1
<1>3. table[t].result \in BOOLEAN
    BY DEF TableOK, Task
<1>4. Begun(t) = [table EXCEPT ![t] = entry]
    BY Zenon DEF Begun, updateTask
<1> HIDE DEF entry
<1>. QED  BY <1>2, <1>3, <1>4 DEF TableOK, Task, Statuses

LEMMA FinishedIs ==
  ASSUME TableOK, NEW t \in Tasks, NEW k \in 1 .. Steps
  PROVE  /\ Finished(t, k) \in [Tasks -> Task]
         /\ \A u \in Tasks : Finished(t, k)[u] \in {table[u], Finish}
         /\ k = Steps => Finished(t, k)[t] = Finish
<1> DEFINE entry == [i \in DOMAIN Unknown |-> IF i \in DOMAIN Finish THEN Finish[i] ELSE table[t][i]]
<1>1. DOMAIN Unknown = {"status", "result"} /\ DOMAIN Finish = {"status", "result"}
    BY DEF Unknown, Finish
<1>2. entry = Finish
    BY <1>1 DEF Finish
<1>3. k = Steps => Finished(t, k) = [table EXCEPT ![t] = entry]
    BY Zenon DEF Finished, updateTask, Finish
<1>4. k # Steps => Finished(t, k) = table
    BY DEF Finished
<1> HIDE DEF entry
<1>5. Finish \in Task /\ table \in [Tasks -> Task]
    BY DEF TableOK, Task, Statuses, Finish
<1>6. CASE k = Steps
  <2>1. Finished(t, k) = [table EXCEPT ![t] = Finish]
      BY <1>2, <1>3, <1>6
  <2>. QED  BY <1>5, <2>1
<1>7. CASE k # Steps
    BY <1>4, <1>5, <1>7
<1>. QED  BY <1>6, <1>7

\* No step loses a result.
LEMMA ResultsKept ==
  ASSUME TableOK, table' \in [Tasks -> Task], \A u \in Tasks : table'[u] \in {table[u], Finish}
  PROVE  \A u \in Tasks : /\ table[u].result => table'[u].result
                          /\ table'[u].status = "completed" => table'[u].result
<1> TAKE u \in Tasks
<1>1. CASE table'[u] = table[u]
    BY <1>1 DEF TableOK
<1>2. CASE table'[u] = Finish
    BY <1>2 DEF Finish
<1>. QED  BY <1>1, <1>2

\* What the app and an operator do to the runs: those that have ended stay so, no
\* run changes its task and no result is lost.
Grows ==
  /\ Len(runs) <= Len(runs') /\ DOMAIN runs \subseteq DOMAIN runs'
  /\ \A r \in DOMAIN runs : /\ runs[r].st \in Ended => runs'[r].st = runs[r].st
                            /\ runs'[r].task = runs[r].task
  /\ \A t \in Tasks : table[t].result => table'[t].result

\* A run goes on; its task is what it was.
LEMMA RunMoves ==
  ASSUME AppInv, NEW r \in DOMAIN runs, NEW x \in RunT,
         x.task = runs[r].task, x.exec => x.st = "running" /\ x.done < Steps,
         x.st = "completed" => x.done = Steps,
         runs[r].st \in Ended => x.st = runs[r].st,
         runs' = [runs EXCEPT ![r] = x],
         TableOK', \A u \in Tasks : table[u].result => table'[u].result,
         \A u \in Tasks : \/ table'[u] \in {table[u], Finish}
                          \/ (x.done # Steps /\ u = x.task),
         x.done = Steps => (runs[r].done = Steps \/ table'[x.task] = Finish)
  PROVE  AppInv' /\ Grows
<1> USE DEF AppInv
<1>1. /\ runs' \in Seq(RunT) /\ Len(runs') = Len(runs) /\ DOMAIN runs' = DOMAIN runs
      /\ runs'[r] = x /\ \A q \in DOMAIN runs : q # r => runs'[q] = runs[q]
    BY RunBecomes DEF RunsOK
<1>2. RunsOK' /\ Grows
    BY <1>1 DEF RunsOK, Grows
<1>3. \A q \in DOMAIN runs : runs'[q].task = runs[q].task
    BY <1>1
<1>4. KnownOK'
  <2>1. Known' = Known
      BY <1>1, <1>3 DEF Known
  <2>. QED  BY <1>1, <2>1 DEF KnownOK
<1>5. Through'
  <2>. SUFFICES ASSUME NEW q \in DOMAIN runs, runs'[q].done = Steps, Sole(q)'
                PROVE  table'[runs'[q].task].status = "completed" /\ table'[runs'[q].task].result
      BY <1>1 DEF Through
  <2>1. Sole(q)
      BY <1>1, <1>3 DEF Sole
  <2>2. runs[q].task \in Tasks
    <3>1. runs[q] \in RunT
        BY DEF RunsOK
    <3>. QED  BY <3>1 DEF RunT
  <2>3. CASE q = r
      BY <1>1, <2>1, <2>2, <2>3 DEF Through, Finish
  <2>4. CASE q # r
    <3>1. runs[q].done = Steps /\ runs[q].task # x.task
        BY <1>1, <2>1, <2>4 DEF Sole
    <3>. QED  BY <1>1, <2>1, <2>2, <2>4, <3>1 DEF Through, Finish
  <2>. QED  BY <2>3, <2>4
<1>. QED  BY <1>2, <1>4, <1>5

\* A run is created for a task that has one, or for the next one.
LEMMA RunCreated ==
  ASSUME AppInv, NEW t \in Tasks, t \in Known \/ (\A u \in Tasks \ Known : t <= u), Len(runs) < MaxRuns,
         runs' = Append(runs, NewRun(t)), UNCHANGED <<table, strays>>
  PROVE  AppInv' /\ Grows
<1> USE DEF AppInv
<1> DEFINE new == Len(runs) + 1
<1>1. NewRun(t) \in RunT /\ NewRun(t).task = t /\ NewRun(t).done # Steps
    BY ReportAssumption DEF NewRun, RunT, Active
<1>2. /\ runs' \in Seq(RunT) /\ Len(runs') = new /\ DOMAIN runs' = DOMAIN runs \cup {new}
      /\ new \notin DOMAIN runs /\ runs'[new] = NewRun(t)
      /\ \A r \in DOMAIN runs : runs'[r] = runs[r]
    BY <1>1 DEF RunsOK
<1>3. Len(runs) \in Nat /\ MaxRuns \in Nat
    BY ReportAssumption DEF RunsOK
<1>4. RunsOK'
  <2>1. Len(runs') <= MaxRuns
      BY <1>2, <1>3
  <2>2. ASSUME NEW r \in DOMAIN runs'
        PROVE  /\ runs'[r].exec => runs'[r].st = "running" /\ runs'[r].done < Steps
               /\ runs'[r].st = "completed" => runs'[r].done = Steps
    <3>1. CASE r = new
        BY <1>2, <3>1 DEF NewRun
    <3>2. CASE r # new
        BY <1>2, <3>2 DEF RunsOK
    <3>. QED  BY <3>1, <3>2
  <2>. QED  BY <1>2, <2>1, <2>2 DEF RunsOK
<1>5. Grows
    BY <1>2, <1>3 DEF Grows
<1>6. KnownOK'
  <2>1. PICK n \in 0 .. Len(runs) : Known = 1 .. n
      BY DEF KnownOK
  <2>2. n + 1 \in Tasks \ Known /\ t \in Nat \ {0}
      BY <1>3, <2>1 DEF Tasks
  <2>3. Known' = Known \cup {t}
      BY <1>1, <1>2 DEF Known
  <2>4. Known' = 1 .. n \/ Known' = 1 .. n + 1
      BY <1>3, <2>1, <2>2, <2>3
  <2>. QED  BY <1>2, <1>3, <2>4 DEF KnownOK
<1>7. TableOK'
    BY DEF TableOK
<1>8. Through'
  <2>. SUFFICES ASSUME NEW q \in DOMAIN runs', runs'[q].done = Steps, Sole(q)'
                PROVE  table[runs'[q].task].status = "completed" /\ table[runs'[q].task].result
      BY DEF Through
  <2>1. q \in DOMAIN runs /\ runs'[q] = runs[q]
      BY <1>1, <1>2
  <2>2. Sole(q)
      BY <1>2, <2>1 DEF Sole
  <2>. QED  BY <2>1, <2>2 DEF Through
<1>. QED  BY <1>4, <1>5, <1>6, <1>7, <1>8

LEMMA CallbackOK == ASSUME AppInv, NEW r \in DOMAIN runs, Callback(r) PROVE AppInv' /\ Grows
<1>1. runs[r] \in RunT /\ runs[r].st \in Active /\ TableOK
    BY DEF Callback, AppInv, RunsOK
<1>2. runs[r].st \notin Ended
    BY <1>1 DEF Active, Ended
<1>3. CASE runs[r].done < Steps
  <2> DEFINE x == [runs[r] EXCEPT !.st = "running", !.exec = TRUE]
  <2>1. /\ x \in RunT /\ x.task = runs[r].task /\ x.st = "running" /\ x.done = runs[r].done
        /\ x.task \in Tasks
      BY <1>1, Zenon DEF RunT, Active
  <2>2. runs' = [runs EXCEPT ![r] = x] /\ table' = Begun(x.task) /\ UNCHANGED strays
      BY <1>3, <2>1 DEF Callback
  <2> HIDE DEF x
  <2>3. x.done < Steps /\ x.done # Steps
      BY <1>1, <1>3, <2>1, FieldsOfRun, ReportAssumption
  <2>5. /\ table' \in [Tasks -> Task] /\ \A u \in Tasks \ {x.task} : table'[u] = table[u]
        /\ table'[x.task].status = "running" /\ table'[x.task].result = table[x.task].result
    <3> DEFINE b == Begun(x.task)
    <3>1. /\ b \in [Tasks -> Task] /\ \A u \in Tasks \ {x.task} : b[u] = table[u]
          /\ b[x.task] = [status |-> "running", result |-> table[x.task].result]
        BY <1>1, <2>1, BegunIs
    <3>2. table' = b
        BY <2>2
    <3> HIDE DEF b
    <3>. QED  BY <3>1, <3>2
  <2>4. /\ TableOK' /\ \A u \in Tasks : table'[u] = table[u] \/ u = x.task
        /\ \A u \in Tasks : table[u].result => table'[u].result
    <3>1. ASSUME NEW u \in Tasks
          PROVE  /\ table'[u] = table[u] \/ u = x.task
                 /\ table[u].result => table'[u].result
                 /\ table'[u].status = "completed" => table'[u].result
      <4>1. CASE u = x.task
          BY <2>5, <4>1
      <4>2. CASE u # x.task
          BY <1>1, <2>5, <4>2 DEF TableOK
      <4>. QED  BY <4>1, <4>2
    <3>. QED  BY <1>1, <2>2, <2>5, <3>1 DEF TableOK
  <2>. QED  BY <1>2, <2>1, <2>2, <2>3, <2>4, RunMoves
<1>4. CASE ~ (runs[r].done < Steps)
  <2> DEFINE x == [runs[r] EXCEPT !.st = "completed"]
  <2>1. runs[r].done = Steps /\ runs[r].exec = FALSE
      BY <1>1, <1>4, ReportAssumption DEF RunT, Callback
  <2>2. x \in RunT /\ x.task = runs[r].task /\ x.st = "completed" /\ x.done = Steps /\ ~ x.exec
      BY <1>1, <2>1, Zenon DEF RunT, Ended
  <2>3. runs' = [runs EXCEPT ![r] = x] /\ UNCHANGED <<table, strays>>
      BY <1>4 DEF Callback
  <2> HIDE DEF x
  <2>4. TableOK'
      BY <1>1, <2>3 DEF TableOK
  <2>. QED  BY <1>2, <2>1, <2>2, <2>3, <2>4, RunMoves
<1>. QED  BY <1>3, <1>4

LEMMA StepEndsOK == ASSUME AppInv, NEW r \in DOMAIN runs, StepEnds(r) PROVE AppInv' /\ Grows
<1> DEFINE x == [runs[r] EXCEPT !.exec = FALSE, !.done = @ + 1]
<1>1. runs[r] \in RunT /\ runs[r].st = "running" /\ runs[r].done < Steps /\ TableOK
    BY DEF StepEnds, AppInv, RunsOK
<1>0. runs[r].done + 1 \in 0 .. Steps /\ runs[r].done + 1 \in 1 .. Steps
    BY <1>1, FieldsOfRun, ReportAssumption
<1>2. /\ x \in RunT /\ x.task = runs[r].task /\ x.st = "running" /\ x.done = runs[r].done + 1
      /\ ~ x.exec /\ x.task \in Tasks /\ x.done \in 1 .. Steps
    BY <1>0, <1>1, Zenon DEF RunT, Active
<1>3. runs' = [runs EXCEPT ![r] = x] /\ table' = Finished(x.task, x.done) /\ UNCHANGED strays
    BY <1>2 DEF StepEnds
<1>4. runs[r].st \notin Ended
    BY <1>1 DEF Ended
<1> HIDE DEF x
<1>5. /\ table' \in [Tasks -> Task]
      /\ \A u \in Tasks : table'[u] \in {table[u], Finish}
      /\ x.done = Steps => table'[x.task] = Finish
    BY <1>1, <1>2, <1>3, FinishedIs
<1>6. TableOK' /\ \A u \in Tasks : table[u].result => table'[u].result
  <2>1. \A u \in Tasks : /\ table[u].result => table'[u].result
                         /\ table'[u].status = "completed" => table'[u].result
      BY <1>1, <1>5, ResultsKept
  <2>2. strays' \subseteq [task : Tasks, at : 1 .. Steps]
      BY <1>1, <1>3 DEF TableOK
  <2>3. \A u \in Tasks : table[u].result => table'[u].result
      BY <2>1
  <2>4. \A u \in Tasks : table'[u].status = "completed" => table'[u].result
      BY <2>1
  <2>5. TableOK'
      BY <1>5, <2>2, <2>4 DEF TableOK
  <2>. QED  BY <2>3, <2>5
<1>. QED  BY <1>2, <1>3, <1>4, <1>5, <1>6, RunMoves

\* A step whose answer is lost, or whose run is cancelled, becomes a stray.
LEMMA StrayOK ==
  ASSUME AppInv, NEW r \in DOMAIN runs, runs[r].exec
  PROVE  Stray(r) \subseteq [task : Tasks, at : 1 .. Steps]
<1>1. runs[r] \in RunT /\ runs[r].done < Steps /\ strays \subseteq [task : Tasks, at : 1 .. Steps]
    BY DEF AppInv, RunsOK, TableOK
<1>2. runs[r].task \in Tasks /\ runs[r].done + 1 \in 1 .. Steps
    BY <1>1, ReportAssumption DEF RunT
<1>. QED  BY <1>1, <1>2 DEF Stray

LEMMA LoseOK == ASSUME AppInv, NEW r \in DOMAIN runs, Lose(r) PROVE AppInv' /\ Grows
<1>1. runs[r] \in RunT /\ runs[r].st = "running" /\ runs[r].done < Steps /\ TableOK
    BY DEF Lose, AppInv, RunsOK
<1>2. PICK st \in {"running", "failed"} : runs' = [runs EXCEPT ![r].exec = FALSE, ![r].st = st]
    BY DEF Lose
<1> DEFINE x == [runs[r] EXCEPT !.exec = FALSE, !.st = st]
<1>0. runs[r].done # Steps
    BY <1>1, FieldsOfRun, ReportAssumption
<1>3. /\ x \in RunT /\ x.task = runs[r].task /\ x.st = st /\ x.done = runs[r].done /\ ~ x.exec
      /\ x.done # Steps
    BY <1>0, <1>1, Zenon DEF RunT, Active, Ended
<1>4. runs' = [runs EXCEPT ![r] = x] /\ UNCHANGED table /\ strays' = Stray(r)
    BY <1>2 DEF Lose
<1>5. runs[r].st \notin Ended
    BY <1>1 DEF Ended
<1> HIDE DEF x
<1>6. TableOK'
    BY <1>1, <1>4, StrayOK DEF TableOK, Lose
<1>. QED  BY <1>3, <1>4, <1>5, <1>6, RunMoves

LEMMA StrayEndsOK == AppInv /\ StrayEnds => AppInv' /\ Grows
<1> SUFFICES ASSUME AppInv, StrayEnds PROVE AppInv' /\ Grows
    OBVIOUS
<1> USE DEF AppInv
<1>1. PICK s \in strays : table' = Finished(s.task, s.at) /\ strays' = strays \ {s} /\ UNCHANGED runs
    BY DEF StrayEnds
<1>2. s.task \in Tasks /\ s.at \in 1 .. Steps
    BY DEF TableOK
<1>8. /\ table' \in [Tasks -> Task]
      /\ \A u \in Tasks : table'[u] \in {table[u], Finish}
    BY <1>1, <1>2, FinishedIs
<1>9. TableOK' /\ \A u \in Tasks : table[u].result => table'[u].result
  <2>1. \A u \in Tasks : /\ table[u].result => table'[u].result
                         /\ table'[u].status = "completed" => table'[u].result
      BY <1>8, ResultsKept
  <2>2. strays' \subseteq [task : Tasks, at : 1 .. Steps]
      BY <1>1 DEF TableOK
  <2>3. \A u \in Tasks : table[u].result => table'[u].result
      BY <2>1
  <2>4. \A u \in Tasks : table'[u].status = "completed" => table'[u].result
      BY <2>1
  <2>5. TableOK'
      BY <1>8, <2>2, <2>4 DEF TableOK
  <2>. QED  BY <2>3, <2>5
<1>3. TableOK' /\ \A u \in Tasks : table'[u] \in {table[u], Finish}
    BY <1>8, <1>9
<1>4. \A r \in DOMAIN runs : runs[r].task \in Tasks
    BY FieldsOfRun DEF RunsOK
<1>5. Through'
    BY <1>1, <1>3, <1>4 DEF Through, Sole, Finish
<1>6. Len(runs) \in Nat
    BY DEF RunsOK
<1>7. RunsOK' /\ KnownOK' /\ Grows
    BY <1>1, <1>6, <1>9 DEF RunsOK, KnownOK, Known, Grows
<1>. QED  BY <1>3, <1>5, <1>7

LEMMA CancelledOK ==
  ASSUME AppInv, NEW r \in DOMAIN runs, Cancelled(r), UNCHANGED table
  PROVE  AppInv' /\ Grows
<1>1. runs[r] \in RunT /\ TableOK
    BY DEF AppInv, RunsOK
<1>2. CASE runs[r].st \in Active
  <2> DEFINE x == [runs[r] EXCEPT !.st = "cancelled", !.exec = FALSE]
  <2>1. /\ x \in RunT /\ x.task = runs[r].task /\ x.st = "cancelled" /\ x.done = runs[r].done /\ ~ x.exec
      BY <1>1, Zenon DEF RunT, Ended
  <2>2. runs' = [runs EXCEPT ![r] = x]
      BY <1>2 DEF Cancelled
  <2>3. strays' \subseteq [task : Tasks, at : 1 .. Steps]
      BY <1>1, <1>2, StrayOK DEF Cancelled, TableOK
  <2>4. TableOK'
      BY <1>1, <2>3 DEF TableOK
  <2>5. runs[r].st \notin Ended
      BY <1>2 DEF Active, Ended
  <2> HIDE DEF x
  <2>. QED  BY <2>1, <2>2, <2>4, <2>5, RunMoves
<1>3. CASE UNCHANGED <<runs, strays>>
  <2>1. Len(runs) \in Nat
      BY DEF AppInv, RunsOK
  <2>. QED  BY <1>3, <2>1 DEF AppInv, RunsOK, KnownOK, Known, TableOK, Through, Sole, Grows
<1>. QED  BY <1>2, <1>3 DEF Cancelled

\* The id of a new task: the next one.
LEMMA FreshIs ==
  ASSUME AppInv, Len(runs) < MaxRuns
  PROVE  Fresh \in Tasks \ Known /\ \A u \in Tasks \ Known : Fresh <= u
<1>1. Len(runs) \in Nat /\ MaxRuns \in Nat
    BY ReportAssumption DEF AppInv, RunsOK
<1>2. PICK n \in 0 .. Len(runs) : Known = 1 .. n
    BY DEF AppInv, KnownOK
<1>3. n + 1 \in Tasks \ Known /\ \A u \in Tasks \ Known : n + 1 <= u
    BY <1>1, <1>2 DEF Tasks
<1>. QED  BY <1>3 DEF Fresh

LEMMA TriggeredOK ==
  ASSUME AppInv, Triggered, Len(runs) < MaxRuns, UNCHANGED <<table, strays>>
  PROVE  AppInv' /\ Grows
BY FreshIs, RunCreated DEF Triggered

-----------------------------------------------------------------------------
(* The requests of a page. *)

LOCAL INSTANCE SequencesExt

LEMMA ElementIs ==
  ASSUME NEW S, NEW s \in Seq(S), NEW k \in DOMAIN s
  PROVE  s[k] \in S
OBVIOUS

\* What is left of a sequence without its i-th element.
LEMMA RemovedIs ==
  ASSUME NEW S, NEW s \in Seq(S), NEW i \in DOMAIN s
  PROVE  /\ RemoveAt(s, i) \in Seq(S) /\ Len(RemoveAt(s, i)) = Len(s) - 1
         /\ \A k \in DOMAIN RemoveAt(s, i) :
              /\ k \in Nat /\ (IF k < i THEN k ELSE k + 1) \in DOMAIN s
              /\ RemoveAt(s, i)[k] = s[IF k < i THEN k ELSE k + 1]
<1> DEFINE a == SubSeq(s, 1, i - 1)
           b == SubSeq(s, i + 1, Len(s))
<1>1. Len(s) \in Nat /\ i \in 1 .. Len(s) /\ DOMAIN s = 1 .. Len(s)
    OBVIOUS
<1>2. a \in Seq(S) /\ Len(a) = i - 1 /\ \A k \in 1 .. i - 1 : a[k] = s[k]
    OBVIOUS
<1>3. b \in Seq(S) /\ Len(b) = Len(s) - i
    OBVIOUS
<1>4. \A k \in 1 .. Len(s) - i : b[k] = s[i + k]
    OBVIOUS
<1>5. RemoveAt(s, i) = a \o b
    BY DEF RemoveAt
<1> HIDE DEF a, b
<1>6. /\ a \o b \in Seq(S) /\ Len(a \o b) = Len(a) + Len(b)
      /\ \A k \in 1 .. Len(a) + Len(b) : (a \o b)[k] = IF k <= Len(a) THEN a[k] ELSE b[k - Len(a)]
  <2>1. \A p, q \in Seq(S) :
          /\ p \o q \in Seq(S) /\ Len(p \o q) = Len(p) + Len(q)
          /\ \A k \in 1 .. Len(p) + Len(q) : (p \o q)[k] = IF k <= Len(p) THEN p[k] ELSE q[k - Len(p)]
      OBVIOUS
  <2>. QED  BY <1>2, <1>3, <2>1
<1>7. Len(a \o b) = Len(s) - 1 /\ DOMAIN (a \o b) = 1 .. Len(s) - 1
  <2>1. Len(a \o b) = Len(s) - 1
      BY <1>1, <1>2, <1>3, <1>6
  <2>2. \A p \in Seq(S) : DOMAIN p = 1 .. Len(p)
      OBVIOUS
  <2>. QED  BY <1>6, <2>1, <2>2
<1>8. ASSUME NEW k \in 1 .. Len(s) - 1
      PROVE  /\ k \in Nat /\ (IF k < i THEN k ELSE k + 1) \in DOMAIN s
             /\ (a \o b)[k] = s[IF k < i THEN k ELSE k + 1]
  <2>1. (a \o b)[k] = IF k <= i - 1 THEN a[k] ELSE b[k - (i - 1)]
      BY <1>1, <1>2, <1>3, <1>6
  <2>2. CASE k < i
    <3>1. k \in 1 .. i - 1
        BY <1>1, <2>2
    <3>. QED  BY <1>1, <1>2, <2>1, <2>2, <3>1
  <2>3. CASE ~ (k < i)
    <3>1. k - (i - 1) \in 1 .. Len(s) - i /\ i + (k - (i - 1)) = k + 1 /\ ~ (k <= i - 1)
        BY <1>1, <2>3
    <3>. QED  BY <1>1, <1>4, <2>1, <2>3, <3>1
  <2>. QED  BY <2>2, <2>3
<1>. QED  BY <1>5, <1>6, <1>7, <1>8

\* The requests of a page about members of A, answered with members of S.
AnswerTo(A, S) == [of : A, is : S, late : BOOLEAN]
Requests(A, S) == [asked : Seq(A), got : Seq(AnswerTo(A, S))]

Numbers    == 1 .. Len(runs)
Answer(N)  == AnswerTo(N, Active \cup Ended)
PollsT(N)  == Requests(N, Active \cup Ended)

\* An answer that a run has ended is true of it.
Past(a)    == a.is \in Ended => runs[a.of].st = a.is
\* Of two answers about a run the server gave the first one first.
Order(got) == \A i, j \in DOMAIN got : i < j /\ got[i].of = got[j].of /\ got[i].is \in Ended
                => got[j].is \in Ended
AnswersOK  == /\ \A i \in DOMAIN polls.got : Past(polls.got[i])
              /\ Order(polls.got)

\* The page in numbers that are runs.
Data  == [run : 0 .. Len(runs), st : {"none"} \cup Active \cup Ended]
Button == [run : 0 .. Len(runs), st : {"idle", "asked", "served", "replayed"}]
PageT == [run : 0 .. Len(runs), data : Data, terminal : BOOLEAN, stop : Button, replay : Button]
PageOK ==
  /\ page \in PageT
  /\ page.data.st \in Active => page.data.run # 0
  /\ page.stop.st = "asked" => page.stop.run # 0
  /\ page.replay.st \in {"asked", "served"} => page.replay.run # 0

\* A page that has stopped polling shows its run as it ended, and so will every
\* answer that has not been overtaken.
Frozen ==
  page.terminal /\ ~ stale =>
    /\ page.data = [run |-> page.run, st |-> runs[page.run].st] /\ runs[page.run].st \in Ended
    /\ \A i \in DOMAIN polls.got :
         polls.got[i].of = page.run /\ ~ polls.got[i].late => polls.got[i].is \in Ended

PageInv ==
  /\ stale \in BOOLEAN /\ PageOK
  /\ tab # "run" => page = NoPage
  /\ tab = "run" => page.run # 0 /\ polls \in PollsT(Numbers) /\ AnswersOK /\ Frozen

Inv == AppInv /\ PageInv

LEMMA RunNumbers == RunsOK => Len(runs) \in Nat /\ DOMAIN runs = Numbers
BY DEF RunsOK, Numbers

\* The runs go on.
LEMMA NumbersGrow ==
  ASSUME AppInv, AppInv', Grows
  PROVE  /\ Len(runs) \in Nat /\ Len(runs') \in Nat /\ Len(runs) <= Len(runs')
         /\ DOMAIN runs = Numbers /\ Numbers \subseteq Numbers' /\ 0 .. Len(runs) \subseteq 0 .. Len(runs')
         /\ \A r \in DOMAIN runs : runs[r].st \in Ended => runs'[r].st = runs[r].st
         /\ Button \subseteq Button' /\ PageT \subseteq PageT'
<1>1. /\ Len(runs) \in Nat /\ Len(runs') \in Nat /\ Len(runs) <= Len(runs')
      /\ DOMAIN runs = Numbers /\ Numbers \subseteq Numbers' /\ 0 .. Len(runs) \subseteq 0 .. Len(runs')
      /\ \A r \in DOMAIN runs : runs[r].st \in Ended => runs'[r].st = runs[r].st
    BY DEF AppInv, RunsOK, Grows, Numbers
<1>2. Data \subseteq Data' /\ Button \subseteq Button'
    BY <1>1, Zenon DEF Data, Button
<1>3. PageT \subseteq PageT'
    BY <1>1, <1>2, Zenon DEF PageT
<1>. QED  BY <1>1, <1>2, <1>3

\* What is on its way remains right, and the page that no longer polls too.
LEMMA RequestsStay ==
  ASSUME Inv, AppInv', Grows, UNCHANGED <<polls, stale>>, tab = "run",
         page'.run = page.run, page'.terminal = page.terminal, page'.data = page.data
  PROVE  polls \in PollsT(Numbers') /\ AnswersOK' /\ Frozen'
<1>1. /\ Len(runs) \in Nat /\ Len(runs') \in Nat /\ Len(runs) <= Len(runs')
      /\ DOMAIN runs = Numbers /\ Numbers \subseteq Numbers' /\ 0 .. Len(runs) \subseteq 0 .. Len(runs')
      /\ \A r \in DOMAIN runs : runs[r].st \in Ended => runs'[r].st = runs[r].st
    BY NumbersGrow DEF Inv
<1>2. polls \in PollsT(Numbers) /\ AnswersOK /\ Frozen /\ page \in PageT /\ page.run # 0
    BY DEF Inv, PageInv, PageOK
<1>3. /\ polls.asked \in Seq(Numbers) /\ polls.got \in Seq(Answer(Numbers))
      /\ polls = [asked |-> polls.asked, got |-> polls.got] /\ page.run \in 0 .. Len(runs)
    BY <1>2, Zenon DEF PollsT, Requests, Answer, PageT
<1>4. Answer(Numbers) \subseteq Answer(Numbers')
    BY <1>1, Zenon DEF Answer, AnswerTo
<1>5. polls.asked \in Seq(Numbers') /\ polls.got \in Seq(Answer(Numbers'))
    BY <1>1, <1>3, <1>4
<1>6. polls \in PollsT(Numbers')
    BY <1>3, <1>5, Zenon DEF PollsT, Requests, Answer
<1>7. \A i \in DOMAIN polls.got : polls.got[i].of \in DOMAIN runs
  <2>1. \A i \in DOMAIN polls.got : polls.got[i] \in Answer(Numbers)
      BY <1>3
  <2>. QED  BY <1>1, <2>1, Zenon DEF Answer, AnswerTo
<1>8. AnswersOK'
    BY <1>1, <1>2, <1>7 DEF AnswersOK, Past, Order
<1>9. page.run \in DOMAIN runs
    BY <1>1, <1>2, <1>3 DEF Numbers
<1>10. Frozen'
    BY <1>1, <1>2, <1>9 DEF Frozen
<1>. QED  BY <1>6, <1>8, <1>10

\* The page waits, open or not.
LEMMA PageStays ==
  ASSUME Inv, AppInv', Grows, UNCHANGED <<page, polls, stale, tab>>
  PROVE  PageInv'
<1>1. page \in PageT'
    BY NumbersGrow DEF Inv, PageInv, PageOK
<1>. QED  BY <1>1, RequestsStay DEF Inv, PageInv, PageOK

LEMMA FieldsOfPolls ==
  ASSUME polls \in PollsT(Numbers)
  PROVE  /\ polls.asked \in Seq(Numbers) /\ polls.got \in Seq(Answer(Numbers))
         /\ \A i \in DOMAIN polls.asked : polls.asked[i] \in Numbers
         /\ \A i \in DOMAIN polls.got : /\ polls.got[i].of \in Numbers
                                        /\ polls.got[i].is \in Active \cup Ended
                                        /\ polls.got[i].late \in BOOLEAN
<1>1. polls.asked \in Seq(Numbers) /\ polls.got \in Seq(Answer(Numbers))
    BY Zenon DEF PollsT, Requests, Answer
<1>2. \A i \in DOMAIN polls.got : polls.got[i] \in Answer(Numbers)
    BY <1>1
<1>3. \A i \in DOMAIN polls.asked : polls.asked[i] \in Numbers
    BY <1>1
<1>. QED  BY <1>1, <1>2, <1>3, Zenon DEF Answer, AnswerTo

LEMMA PollsOf ==
  ASSUME NEW A, NEW G, NEW a \in A, NEW g \in G
  PROVE  [asked |-> a, got |-> g] \in [asked : A, got : G] /\ [asked |-> a, got |-> g].got = g
OBVIOUS

LEMMA AskOK ==
  ASSUME polls \in PollsT(Numbers), AnswersOK, NEW r \in Numbers, polls' = Ask(polls, r)
  PROVE  polls' \in PollsT(Numbers) /\ polls'.got = polls.got
<1>1. Append(polls.asked, r) \in Seq(Numbers)
    BY FieldsOfPolls
<1>2. polls' = [polls EXCEPT !.asked = Append(polls.asked, r)]
    BY Zenon DEF Ask
<1>. QED  BY <1>1, <1>2, Zenon DEF PollsT, Requests, Answer

\* The server answers with what the run is.
LEMMA ReplyOK ==
  ASSUME Inv, tab = "run", NEW i \in DOMAIN polls.asked,
         polls' = Reply(polls, i, runs[polls.asked[i]].st), UNCHANGED <<appVars, page, stale>>
  PROVE  polls' \in PollsT(Numbers) /\ AnswersOK' /\ Frozen'
<1> DEFINE of == polls.asked[i]
           new == [of |-> of, is |-> runs[of].st, late |-> FALSE]
<1>1. polls \in PollsT(Numbers) /\ AnswersOK /\ Frozen /\ DOMAIN runs = Numbers
    BY RunNumbers DEF Inv, PageInv, AppInv
<1>2. of \in Numbers /\ polls.asked \in Seq(Numbers) /\ polls.got \in Seq(Answer(Numbers))
    BY <1>1, FieldsOfPolls
<1>3. new \in Answer(Numbers)
  <2>1. runs[of].st \in Active \cup Ended
      BY <1>1, <1>2, FieldsOfRun DEF Inv, AppInv, RunsOK
  <2>. QED  BY <1>2, <2>1, Zenon DEF Answer, AnswerTo
<1>4. polls' = [asked |-> RemoveAt(polls.asked, i), got |-> Append(polls.got, new)]
    BY DEF Reply
<1>5. RemoveAt(polls.asked, i) \in Seq(Numbers) /\ Append(polls.got, new) \in Seq(Answer(Numbers))
    BY <1>2, <1>3, RemovedIs
<1>7. new.of = of /\ new.is = runs[of].st
    OBVIOUS
<1> HIDE DEF new, of
<1>6. polls' \in PollsT(Numbers) /\ polls'.got = Append(polls.got, new)
    BY <1>4, <1>5, PollsOf DEF PollsT, Requests, Answer
<1>8. /\ DOMAIN polls'.got = 1 .. Len(polls.got) + 1 /\ Len(polls.got) \in Nat
      /\ DOMAIN polls.got = 1 .. Len(polls.got)
      /\ polls'.got[Len(polls.got) + 1] = new
      /\ \A k \in DOMAIN polls.got : polls'.got[k] = polls.got[k]
    BY <1>2, <1>6
<1>9. ASSUME NEW k \in DOMAIN polls'.got
      PROVE  polls'.got[k].is \in Ended => runs'[polls'.got[k].of].st = polls'.got[k].is
  <2>1. CASE k \in DOMAIN polls.got
      BY <1>1, <1>8, <2>1 DEF AnswersOK, Past, appVars
  <2>2. CASE k = Len(polls.got) + 1
      BY <1>1, <1>7, <1>8, <2>2 DEF appVars
  <2>3. k \in DOMAIN polls.got \/ k = Len(polls.got) + 1
      BY <1>8
  <2>. QED  BY <2>1, <2>2, <2>3
<1>10. ASSUME NEW k \in DOMAIN polls'.got, NEW l \in DOMAIN polls'.got, k < l,
              polls'.got[k].of = polls'.got[l].of, polls'.got[k].is \in Ended
       PROVE  polls'.got[l].is \in Ended
  <2>1. k \in DOMAIN polls.got /\ polls'.got[k] = polls.got[k]
    <3>1. k \in 1 .. Len(polls.got) + 1 /\ l \in 1 .. Len(polls.got) + 1
        BY <1>8, <1>10
    <3>2. k \in 1 .. Len(polls.got)
        BY <1>8, <1>10, <3>1
    <3>. QED  BY <1>8, <3>2
  <2>2. CASE l \in DOMAIN polls.got
      BY <1>1, <1>8, <1>10, <2>1, <2>2 DEF AnswersOK, Order
  <2>3. CASE l = Len(polls.got) + 1
      BY <1>1, <1>7, <1>8, <1>10, <2>1, <2>3 DEF AnswersOK, Past
  <2>. QED  BY <1>8, <2>2, <2>3
<1>11. AnswersOK'
    BY <1>9, <1>10 DEF AnswersOK, Order, Past
<1>12. Frozen'
  <2>1. SUFFICES ASSUME page.terminal, ~ stale PROVE Frozen'
      BY DEF Frozen
  <2>2. /\ page.data = [run |-> page.run, st |-> runs[page.run].st] /\ runs[page.run].st \in Ended
        /\ \A k \in DOMAIN polls.got :
             polls.got[k].of = page.run /\ ~ polls.got[k].late => polls.got[k].is \in Ended
      BY <1>1, <2>1, Zenon DEF Frozen
  <2>3. UNCHANGED <<runs, page, stale>>
      BY DEF appVars
  <2>4. ASSUME NEW k \in DOMAIN polls'.got, polls'.got[k].of = page.run, ~ polls'.got[k].late
        PROVE  polls'.got[k].is \in Ended
    <3>1. CASE k \in DOMAIN polls.got
        BY <1>8, <2>2, <2>4, <3>1
    <3>2. CASE k = Len(polls.got) + 1
        BY <1>7, <1>8, <2>2, <2>4, <3>2
    <3>. QED  BY <1>8, <3>1, <3>2
  <2>. QED  BY <2>2, <2>3, <2>4 DEF Frozen
<1>. QED  BY <1>6, <1>11, <1>12

\* The answers that are left after one has reached a page.
LEMMA TakenIs ==
  ASSUME NEW A, NEW S, polls \in Requests(A, S), NEW i \in DOMAIN polls.got, polls' = Taken(polls, i)
  PROVE  /\ polls' \in Requests(A, S) /\ InFlight(polls') = InFlight(polls) - 1
         /\ \A k \in DOMAIN polls'.got : \E j \in DOMAIN polls.got :
              /\ j = IF k < i THEN k ELSE k + 1
              /\ polls'.got[k].of = polls.got[j].of /\ polls'.got[k].is = polls.got[j].is
              /\ ~ polls'.got[k].late => i < j /\ ~ polls.got[j].late
<1> DEFINE n == Len(polls.got) - 1
           rest == [k \in 1 .. n |-> IF k < i THEN [polls.got[k] EXCEPT !.late = TRUE] ELSE polls.got[k + 1]]
<1>0. polls.asked \in Seq(A) /\ polls.got \in Seq(AnswerTo(A, S))
    BY Zenon DEF Requests
<1>1. /\ n \in Nat /\ i \in 1 .. Len(polls.got) /\ DOMAIN polls.got = 1 .. Len(polls.got)
      /\ Len(polls.got) \in Nat /\ Len(polls.asked) \in Nat
    BY <1>0
<1>2. polls' = [polls EXCEPT !.got = rest]
    BY Zenon DEF Taken
<1>3. ASSUME NEW k \in 1 .. n
      PROVE  \E j \in DOMAIN polls.got :
              /\ rest[k] \in AnswerTo(A, S)
              /\ j = IF k < i THEN k ELSE k + 1
              /\ rest[k].of = polls.got[j].of /\ rest[k].is = polls.got[j].is
              /\ ~ rest[k].late => i < j /\ ~ polls.got[j].late
  <2>1. k \in DOMAIN polls.got /\ k + 1 \in DOMAIN polls.got
      BY <1>1
  <2>2. polls.got[k] \in AnswerTo(A, S) /\ polls.got[k + 1] \in AnswerTo(A, S)
      BY <1>0, <2>1
  <2>3. CASE k < i
    <3> DEFINE a == [polls.got[k] EXCEPT !.late = TRUE]
    <3>1. /\ a \in AnswerTo(A, S) /\ a.of = polls.got[k].of /\ a.is = polls.got[k].is /\ a.late
        BY <2>2, Zenon DEF AnswerTo
    <3>2. rest[k] = a
        BY <2>3
    <3> HIDE DEF a, rest
    <3>. QED  BY <2>1, <2>3, <3>1, <3>2
  <2>4. CASE ~ (k < i)
    <3>1. rest[k] = polls.got[k + 1] /\ i < k + 1
        BY <1>1, <2>4
    <3> HIDE DEF rest
    <3>. QED  BY <2>1, <2>2, <2>4, <3>1
  <2>. QED  BY <2>3, <2>4
<1>4. DOMAIN rest = 1 .. n
    OBVIOUS
<1>7. rest = [k \in 1 .. n |-> rest[k]]
    OBVIOUS
<1> HIDE DEF rest
<1>5. rest \in Seq(AnswerTo(A, S)) /\ Len(rest) = n
    BY <1>1, <1>3, <1>7
<1>6. polls' \in Requests(A, S) /\ polls'.got = rest /\ polls'.asked = polls.asked
    BY <1>0, <1>2, <1>5, Zenon DEF Requests
<1>8. InFlight(polls') = InFlight(polls) - 1
  <2>1. Len(polls'.asked) = Len(polls.asked) /\ Len(polls'.got) = Len(polls.got) - 1
      BY <1>5, <1>6
  <2>. QED  BY <1>1, <2>1 DEF InFlight
<1>. QED  BY <1>3, <1>4, <1>6, <1>8

LEMMA InFlightNat ==
  ASSUME NEW A, NEW S, NEW p \in Requests(A, S)
  PROVE  InFlight(p) \in Nat
<1>1. p.asked \in Seq(A) /\ p.got \in Seq(AnswerTo(A, S))
    BY Zenon DEF Requests
<1>2. Len(p.asked) \in Nat /\ Len(p.got) \in Nat
    BY <1>1
<1>3. \A x, y \in Nat : x + y \in Nat
    OBVIOUS
<1>4. Len(p.asked) + Len(p.got) \in Nat
    BY <1>2, <1>3
<1>. QED  BY <1>4 DEF InFlight

\* A request more, and one that is served.
LEMMA AskIs ==
  ASSUME NEW A, NEW S, polls \in Requests(A, S), NEW r \in A, polls' = Ask(polls, r)
  PROVE  /\ polls' \in Requests(A, S) /\ polls'.got = polls.got
         /\ InFlight(polls') = InFlight(polls) + 1
<1>1. polls.asked \in Seq(A) /\ polls.got \in Seq(AnswerTo(A, S))
    BY Zenon DEF Requests
<1>2. /\ Append(polls.asked, r) \in Seq(A) /\ Len(Append(polls.asked, r)) = Len(polls.asked) + 1
      /\ Len(polls.got) \in Nat /\ Len(polls.asked) \in Nat
    BY <1>1
<1>3. polls' = [polls EXCEPT !.asked = Append(polls.asked, r)]
    BY Zenon DEF Ask
<1>4. /\ polls' \in Requests(A, S) /\ polls'.got = polls.got
      /\ polls'.asked = Append(polls.asked, r)
    BY <1>2, <1>3, Zenon DEF Requests
<1>5. Len(polls'.asked) = Len(polls.asked) + 1 /\ Len(polls'.got) = Len(polls.got)
    BY <1>2, <1>4
<1>6. InFlight(polls') = InFlight(polls) + 1
  <2>1. Len(polls.asked) \in Nat /\ Len(polls.got) \in Nat
      BY <1>2
  <2>2. InFlight(polls') = (Len(polls.asked) + 1) + Len(polls.got)
      BY <1>5 DEF InFlight
  <2>3. InFlight(polls) = Len(polls.asked) + Len(polls.got)
      BY DEF InFlight
  <2>4. \A x, y \in Nat : (x + 1) + y = (x + y) + 1
      OBVIOUS
  <2>5. (Len(polls.asked) + 1) + Len(polls.got) = (Len(polls.asked) + Len(polls.got)) + 1
      BY <2>1, <2>4
  <2>. QED  BY <2>2, <2>3, <2>5
<1>. QED  BY <1>4, <1>6

LEMMA ReplyIs ==
  ASSUME NEW A, NEW S, polls \in Requests(A, S), NEW i \in DOMAIN polls.asked, NEW is \in S,
         polls' = Reply(polls, i, is)
  PROVE  /\ polls' \in Requests(A, S) /\ InFlight(polls') = InFlight(polls)
         /\ \A k \in DOMAIN polls'.got :
              \/ k \in DOMAIN polls.got /\ polls'.got[k] = polls.got[k]
              \/ polls'.got[k].of = polls.asked[i] /\ polls'.got[k].is = is
<1> DEFINE new == [of |-> polls.asked[i], is |-> is, late |-> FALSE]
<1>1. polls.asked \in Seq(A) /\ polls.got \in Seq(AnswerTo(A, S))
    BY Zenon DEF Requests
<1>2. polls.asked[i] \in A /\ Len(polls.got) \in Nat /\ Len(polls.asked) \in Nat
    BY <1>1
<1>3. new \in AnswerTo(A, S) /\ new.of = polls.asked[i] /\ new.is = is
    BY <1>2 DEF AnswerTo
<1>4. polls' = [asked |-> RemoveAt(polls.asked, i), got |-> Append(polls.got, new)]
    BY DEF Reply
<1> HIDE DEF new
<1>5. /\ RemoveAt(polls.asked, i) \in Seq(A) /\ Len(RemoveAt(polls.asked, i)) = Len(polls.asked) - 1
      /\ Append(polls.got, new) \in Seq(AnswerTo(A, S))
      /\ Len(Append(polls.got, new)) = Len(polls.got) + 1
  <2>1. RemoveAt(polls.asked, i) \in Seq(A) /\ Len(RemoveAt(polls.asked, i)) = Len(polls.asked) - 1
      BY <1>1, RemovedIs
  <2>. QED  BY <1>1, <1>3, <2>1
<1>6. /\ polls' \in Requests(A, S) /\ polls'.got = Append(polls.got, new)
      /\ polls'.asked = RemoveAt(polls.asked, i)
    BY <1>4, <1>5, PollsOf DEF Requests
<1>7. InFlight(polls') = InFlight(polls)
  <2>2. Len(polls'.asked) = Len(polls.asked) - 1
      BY <1>5, <1>6
  <2>3. Len(polls'.got) = Len(polls.got) + 1
      BY <1>5, <1>6
  <2>1. Len(polls'.asked) = Len(polls.asked) - 1 /\ Len(polls'.got) = Len(polls.got) + 1
      BY <2>2, <2>3
  <2>4. Len(polls.asked) \in Nat /\ Len(polls.got) \in Nat
      BY <1>2
  <2>5. \A x, y \in Nat : (x - 1) + (y + 1) = x + y
      OBVIOUS
  <2>6. (Len(polls.asked) - 1) + (Len(polls.got) + 1) = Len(polls.asked) + Len(polls.got)
      BY <2>4, <2>5
  <2>. QED  BY <2>1, <2>6 DEF InFlight
<1>8. \A k \in DOMAIN Append(polls.got, new) :
        (k \in DOMAIN polls.got /\ Append(polls.got, new)[k] = polls.got[k]) \/ Append(polls.got, new)[k] = new
    BY <1>1, <1>3
<1>. QED  BY <1>3, <1>6, <1>7, <1>8

-----------------------------------------------------------------------------
(* The page. *)

LEMMA FieldsOfPage ==
  ASSUME page \in PageT
  PROVE  /\ page.run \in 0 .. Len(runs) /\ page.terminal \in BOOLEAN /\ page.data \in Data
         /\ page.data.run \in 0 .. Len(runs) /\ page.data.st \in {"none"} \cup Active \cup Ended
         /\ page.stop \in Button /\ page.stop.run \in 0 .. Len(runs)
         /\ page.replay \in Button /\ page.replay.run \in 0 .. Len(runs)
<1>1. page.data \in Data /\ page.stop \in Button /\ page.replay \in Button
    BY Zenon DEF PageT
<1>. QED  BY <1>1, Zenon DEF PageT, Data, Button

LEMMA WaitsOf ==
  ASSUME NEW r \in 0 .. Len(runs), NEW st \in {"idle", "asked", "served", "replayed"}
  PROVE  Waits(r, st) \in Button /\ Waits(r, st).run = r /\ Waits(r, st).st = st
BY DEF Waits, Button

\* What a handler of the page that leaves the app and the requests alone keeps.
LEMMA PageMoves ==
  ASSUME Inv, tab = "run", UNCHANGED <<appVars, polls, stale, tab>>, PageOK', page'.run # 0,
         \/ page'.terminal = FALSE
         \/ page'.terminal = page.terminal /\ page'.data = page.data /\ page'.run = page.run
  PROVE  PageInv'
<1>1. Frozen' /\ AnswersOK'
    BY DEF Inv, PageInv, Frozen, AnswersOK, Past, appVars
<1>2. Numbers' = Numbers
    BY DEF Numbers, appVars
<1>. QED  BY <1>1, <1>2 DEF Inv, PageInv

LEMMA GoToOK ==
  ASSUME Inv, tab = "run", NEW r \in DOMAIN runs, GoTo(r), UNCHANGED <<appVars, tab>>
  PROVE  PageInv'
<1>1. /\ page \in PageT /\ page' = [page EXCEPT !.run = r, !.terminal = FALSE]
      /\ r \in 0 .. Len(runs) /\ r # 0 /\ Len(runs) \in Nat
    BY DEF Inv, AppInv, RunsOK, PageInv, PageOK, GoTo, AtRun
<1>2. /\ page' \in PageT /\ page'.run = r /\ page'.terminal = FALSE
      /\ page'.data = page.data /\ page'.stop = page.stop /\ page'.replay = page.replay
    BY <1>1, Zenon DEF PageT
<1>3. PageT' = PageT
    BY DEF PageT, Data, Button, appVars
<1>. QED  BY <1>1, <1>2, <1>3, PageMoves DEF GoTo, Inv, PageInv, PageOK

LEMMA ReplayAnsweredOK ==
  ASSUME Inv, tab = "run", ReplayAnswered, UNCHANGED <<appVars, tab>>
  PROVE  PageInv'
<1> DEFINE r == page.replay.run
           b == Waits(0, "replayed")
<1>1. /\ page \in PageT /\ page' = [[page EXCEPT !.replay = b] EXCEPT !.run = r, !.terminal = FALSE]
      /\ r \in 0 .. Len(runs) /\ r # 0 /\ Len(runs) \in Nat
    BY FieldsOfPage DEF Inv, AppInv, RunsOK, PageInv, PageOK, ReplayAnswered, AtRun
<1>4. b \in Button /\ b.st = "replayed"
    BY <1>1, WaitsOf
<1> HIDE DEF r, b
<1>2. /\ page' \in PageT /\ page'.run = r /\ page'.terminal = FALSE
      /\ page'.data = page.data /\ page'.stop = page.stop /\ page'.replay = b
    BY <1>1, <1>4, Zenon DEF PageT
<1>3. PageT' = PageT
    BY DEF PageT, Data, Button, appVars
<1>. QED  BY <1>1, <1>2, <1>3, <1>4, PageMoves DEF ReplayAnswered, Inv, PageInv, PageOK

\* The two buttons.
LEMMA StopBecomes ==
  ASSUME page \in PageT, NEW b \in Button, page' = [page EXCEPT !.stop = b]
  PROVE  /\ page' \in PageT /\ page'.stop = b /\ page'.replay = page.replay
         /\ page'.run = page.run /\ page'.terminal = page.terminal /\ page'.data = page.data
BY Zenon DEF PageT

LEMMA ReplayBecomes ==
  ASSUME page \in PageT, NEW b \in Button, page' = [page EXCEPT !.replay = b]
  PROVE  /\ page' \in PageT /\ page'.replay = b /\ page'.stop = page.stop
         /\ page'.run = page.run /\ page'.terminal = page.terminal /\ page'.data = page.data
BY Zenon DEF PageT

LEMMA ButtonsOK ==
  ASSUME Inv, tab = "run", UNCHANGED <<appVars, tab>>,
         OnStop \/ StopAnswered \/ OnReplay
  PROVE  PageInv'
<1>1. /\ page \in PageT /\ page.run # 0 /\ 0 \in 0 .. Len(runs) /\ page.data.run \in 0 .. Len(runs)
    BY FieldsOfPage, RunNumbers DEF Inv, AppInv, PageInv, PageOK
<1>2. PageT' = PageT
    BY DEF PageT, Data, Button, appVars
<1>3. CASE OnStop \/ StopAnswered
  <2>1. PICK b \in {Waits(page.data.run, "asked"), Idle} :
          /\ page' = [page EXCEPT !.stop = b] /\ (b = Idle \/ page.data.st \in Active)
          /\ UNCHANGED <<polls, stale>>
      BY <1>3 DEF OnStop, StopAnswered
  <2>2. b \in Button /\ (b.st = "asked" => b.run # 0)
      BY <1>1, <2>1, WaitsOf DEF Idle, Inv, PageInv, PageOK
  <2>3. PageOK'
      BY <1>1, <1>2, <2>1, <2>2, StopBecomes DEF Inv, PageInv, PageOK
  <2>. QED  BY <1>1, <2>1, <2>2, <2>3, StopBecomes, PageMoves
<1>4. CASE OnReplay
  <2>1. page' = [page EXCEPT !.replay = Waits(page.data.run, "asked")] /\ UNCHANGED <<polls, stale>>
      BY <1>4 DEF OnReplay
  <2>2. Waits(page.data.run, "asked") \in Button /\ Waits(page.data.run, "asked").run # 0
      BY <1>1, <1>4, WaitsOf DEF OnReplay
  <2>3. PageOK'
      BY <1>1, <1>2, <2>1, <2>2, ReplayBecomes DEF Inv, PageInv, PageOK
  <2>. QED  BY <1>1, <2>1, <2>2, <2>3, ReplayBecomes, PageMoves
<1>. QED  BY <1>3, <1>4

\* The platform serves Stop and Replay.
LEMMA ServeStopOK ==
  ASSUME Inv, tab = "run", ServeStop, UNCHANGED tab
  PROVE  Inv' /\ Grows
<1>1. page.stop.run \in 0 .. Len(runs) /\ page.stop.run # 0 /\ page \in PageT
    BY FieldsOfPage DEF Inv, PageInv, PageOK, ServeStop
<1>2. page.stop.run \in DOMAIN runs /\ 0 \in 0 .. Len(runs)
    BY <1>1, RunNumbers DEF Inv, AppInv, Numbers
<1>3. AppInv' /\ Grows
    BY <1>2, CancelledOK DEF Inv, ServeStop
<1> DEFINE b == Waits(0, "served")
<1>4. b \in Button /\ b.st = "served"
    BY <1>2, WaitsOf
<1>5. page' = [page EXCEPT !.stop = b] /\ UNCHANGED <<polls, stale>>
    BY DEF ServeStop
<1> HIDE DEF b
<1>6. /\ page' \in PageT /\ page'.stop = b /\ page'.replay = page.replay
      /\ page'.run = page.run /\ page'.terminal = page.terminal /\ page'.data = page.data
    BY <1>1, <1>4, <1>5, StopBecomes
<1>7. polls' \in PollsT(Numbers') /\ AnswersOK' /\ Frozen'
    BY <1>3, <1>5, <1>6, RequestsStay
<1>8. PageOK'
    BY <1>3, <1>4, <1>6, NumbersGrow DEF Inv, PageInv, PageOK
<1>. QED  BY <1>3, <1>5, <1>6, <1>7, <1>8 DEF Inv, PageInv

LEMMA ServeReplayOK ==
  ASSUME Inv, tab = "run", ServeReplay, UNCHANGED tab
  PROVE  Inv' /\ Grows
<1>1. page.replay.run \in 0 .. Len(runs) /\ page.replay.run # 0 /\ page \in PageT
    BY FieldsOfPage DEF Inv, PageInv, PageOK, ServeReplay
<1>2. page.replay.run \in DOMAIN runs /\ Len(runs) \in Nat
    BY <1>1, RunNumbers DEF Inv, AppInv, Numbers
<1> DEFINE t == runs[page.replay.run].task
<1>3. t \in Tasks /\ t \in Known
    BY <1>2, FieldsOfRun DEF Inv, AppInv, RunsOK, Known
<1>4. runs' = Append(runs, NewRun(t)) /\ Len(runs) < MaxRuns /\ UNCHANGED <<table, strays>>
    BY DEF ServeReplay, Replayed
<1> HIDE DEF t
<1>5. AppInv' /\ Grows
    BY <1>3, <1>4, RunCreated DEF Inv
<1> DEFINE b == Waits(Len(runs) + 1, "served")
<1>6. b \in Button' /\ b.st = "served" /\ b.run # 0
  <2>1. Len(runs') = Len(runs) + 1
      BY <1>2, <1>4 DEF Inv, AppInv, RunsOK
  <2>. QED  BY <1>2, <2>1 DEF Waits, Button
<1>7. page' = [page EXCEPT !.replay = b] /\ UNCHANGED <<polls, stale>>
    BY DEF ServeReplay
<1> HIDE DEF b
<1>8. page \in PageT'
    BY <1>1, <1>5, NumbersGrow DEF Inv
<1>9. /\ page' \in PageT' /\ page'.replay = b /\ page'.stop = page.stop
      /\ page'.run = page.run /\ page'.terminal = page.terminal /\ page'.data = page.data
    BY <1>6, <1>7, <1>8, Zenon DEF PageT
<1>10. polls' \in PollsT(Numbers') /\ AnswersOK' /\ Frozen'
    BY <1>5, <1>7, <1>9, RequestsStay
<1>11. PageOK'
    BY <1>6, <1>9 DEF Inv, PageInv, PageOK
<1>. QED  BY <1>5, <1>7, <1>9, <1>10, <1>11 DEF Inv, PageInv

LEMMA PageFaultOK ==
  ASSUME Inv, tab = "run", PageFault, UNCHANGED tab
  PROVE  Inv' /\ Grows
<1>1. /\ page \in PageT /\ 0 \in 0 .. Len(runs) /\ Len(runs) \in Nat
      /\ UNCHANGED <<runs, table, strays, polls, stale>>
    BY RunNumbers DEF Inv, AppInv, PageInv, PageOK, PageFault
<1>2. AppInv' /\ Grows
    BY <1>1 DEF Inv, AppInv, RunsOK, KnownOK, Known, TableOK, Through, Sole, Grows
<1>3. Idle \in Button /\ Idle.st = "idle"
    BY <1>1, WaitsOf DEF Idle
<1>4. page' = [page EXCEPT !.stop = Idle] \/ page' = [page EXCEPT !.replay = Idle]
    BY DEF PageFault
<1>5. /\ page' \in PageT /\ page'.run = page.run /\ page'.terminal = page.terminal
      /\ page'.data = page.data
      /\ page'.stop \in {page.stop, Idle} /\ page'.replay \in {page.replay, Idle}
    BY <1>1, <1>3, <1>4, StopBecomes, ReplayBecomes
<1>6. polls' \in PollsT(Numbers') /\ AnswersOK' /\ Frozen'
    BY <1>1, <1>2, <1>5, RequestsStay
<1>7. PageOK'
    BY <1>2, <1>3, <1>5, NumbersGrow DEF Inv, PageInv, PageOK
<1>. QED  BY <1>1, <1>2, <1>5, <1>6, <1>7 DEF Inv, PageInv

-----------------------------------------------------------------------------
(* The polling of the page. *)

\* The timer asks, the server answers: what is shown stays.
LEMMA TickOK ==
  ASSUME Inv, tab = "run", Tick \/ ServeRun, UNCHANGED <<appVars, tab>>
  PROVE  PageInv'
<1>1. /\ polls \in PollsT(Numbers) /\ AnswersOK /\ page \in PageT /\ page.run # 0
      /\ UNCHANGED <<page, stale>>
    BY DEF Inv, PageInv, PageOK, Tick, ServeRun
<1>2. polls' \in PollsT(Numbers) /\ AnswersOK' /\ Frozen'
  <2>1. CASE Tick
    <3>1. page.run \in Numbers
        BY <1>1, FieldsOfPage, RunNumbers DEF Inv, AppInv, Numbers
    <3>2. polls' = Ask(polls, page.run)
        BY <2>1 DEF Tick
    <3>3. polls' \in PollsT(Numbers) /\ polls'.got = polls.got
        BY <1>1, <3>1, <3>2, AskOK
    <3>4. AnswersOK' /\ Frozen'
        BY <1>1, <3>3 DEF Inv, PageInv, AnswersOK, Past, Order, Frozen, appVars
    <3>. QED  BY <3>3, <3>4
  <2>2. CASE ServeRun
    <3>1. PICK i \in DOMAIN polls.asked : polls' = Reply(polls, i, runs[polls.asked[i]].st)
        BY <2>2 DEF ServeRun
    <3>. QED  BY <1>1, <3>1, ReplyOK
  <2>. QED  BY <2>1, <2>2
<1>3. Numbers' = Numbers /\ PageOK'
    BY <1>1 DEF Numbers, appVars, Inv, PageInv, PageOK, PageT, Data, Button
<1>. QED  BY <1>1, <1>2, <1>3 DEF Inv, PageInv

\* An answer is shown.  The first one of an ended run ends the polling; later ones
\* that have not been overtaken say the same.
LEMMA ShowRunOK ==
  ASSUME Inv, tab = "run", ShowRun, UNCHANGED <<appVars, tab>>
  PROVE  PageInv'
<1>1. PICK i \in DOMAIN polls.got :
        /\ page' = Shown(page, polls.got[i]) /\ polls' = Taken(polls, i)
        /\ stale' = (stale \/ polls.got[i].late \/ polls.got[i].of # page.run)
    BY DEF ShowRun
<1> DEFINE of == polls.got[i].of
           is == polls.got[i].is
           d  == [run |-> of, st |-> is]
           t  == page.terminal \/ is \notin Active
<1>2. /\ polls \in PollsT(Numbers) /\ AnswersOK /\ Frozen /\ page \in PageT /\ page.run # 0
      /\ PageOK /\ stale \in BOOLEAN /\ Len(runs) \in Nat
    BY RunNumbers DEF Inv, AppInv, PageInv, PageOK
<1>3. of \in Numbers /\ is \in Active \cup Ended /\ polls.got[i].late \in BOOLEAN
    BY <1>1, <1>2, FieldsOfPolls
<1>4. d \in Data /\ d.run = of /\ d.st = is /\ of # 0
    BY <1>2, <1>3 DEF Data, Numbers
<1>5. page' = [page EXCEPT !.data = d, !.terminal = t]
    BY <1>1, Zenon DEF Shown
<1>6. t \in BOOLEAN
    BY <1>2, FieldsOfPage
<1>7. Past(polls.got[i]) /\ Order(polls.got)
    BY <1>1, <1>2 DEF AnswersOK
<1>8. is \in Ended => runs[of].st = is
    BY <1>7 DEF Past
<1>9. polls.got[i].of = of /\ polls.got[i].is = is
    OBVIOUS
<1>10. t => page.terminal \/ is \in Ended
    BY <1>3
<1> HIDE DEF t, d, of, is
<1>11. /\ page' \in PageT /\ page'.data = d /\ page'.terminal = t /\ page'.run = page.run
       /\ page'.stop = page.stop /\ page'.replay = page.replay
    BY <1>2, <1>4, <1>5, <1>6, Zenon DEF PageT
<1>12. /\ polls' \in PollsT(Numbers)
       /\ \A k \in DOMAIN polls'.got : \E j \in DOMAIN polls.got :
            /\ j = IF k < i THEN k ELSE k + 1
            /\ polls'.got[k].of = polls.got[j].of /\ polls'.got[k].is = polls.got[j].is
            /\ ~ polls'.got[k].late => i < j /\ ~ polls.got[j].late
  <2>1. polls \in Requests(Numbers, Active \cup Ended)
      BY <1>2 DEF PollsT
  <2>. QED  BY <1>1, <2>1, TakenIs DEF PollsT
<1>13. PageOK'
  <2>1. PageT' = PageT
      BY DEF PageT, Data, Button, appVars
  <2>. QED  BY <1>2, <1>4, <1>11, <2>1 DEF PageOK
<1>14. DOMAIN polls.got \subseteq Nat /\ DOMAIN polls'.got \subseteq Nat
  <2>1. polls.got \in Seq(Answer(Numbers)) /\ polls'.got \in Seq(Answer(Numbers))
      BY <1>2, <1>12, Zenon DEF PollsT, Requests, Answer
  <2>. QED  BY <2>1
<1>15. AnswersOK'
  <2>1. \A k \in DOMAIN polls'.got :
          polls'.got[k].is \in Ended => runs[polls'.got[k].of].st = polls'.got[k].is
    <3>1. \A j \in DOMAIN polls.got :
            polls.got[j].is \in Ended => runs[polls.got[j].of].st = polls.got[j].is
        BY <1>2 DEF AnswersOK, Past
    <3>. QED  BY <1>12, <3>1
  <2>2. ASSUME NEW k \in DOMAIN polls'.got, NEW l \in DOMAIN polls'.got, k < l,
               polls'.got[k].of = polls'.got[l].of, polls'.got[k].is \in Ended
        PROVE  polls'.got[l].is \in Ended
    <3>1. PICK j \in DOMAIN polls.got :
            /\ j = IF k < i THEN k ELSE k + 1
            /\ polls'.got[k].of = polls.got[j].of /\ polls'.got[k].is = polls.got[j].is
        BY <1>12
    <3>2. PICK m \in DOMAIN polls.got :
            /\ m = IF l < i THEN l ELSE l + 1
            /\ polls'.got[l].of = polls.got[m].of /\ polls'.got[l].is = polls.got[m].is
        BY <1>12
    <3>3. j < m
        BY <1>14, <2>2, <3>1, <3>2
    <3>. QED  BY <1>7, <2>2, <3>1, <3>2, <3>3 DEF Order
  <2>. QED  BY <2>1, <2>2 DEF AnswersOK, Past, Order, appVars
<1>16. ASSUME page'.terminal, ~ stale'
       PROVE  /\ page'.data = [run |-> page'.run, st |-> runs[page'.run].st]
              /\ runs[page'.run].st \in Ended
              /\ \A k \in DOMAIN polls'.got :
                   polls'.got[k].of = page'.run /\ ~ polls'.got[k].late => polls'.got[k].is \in Ended
  <2>1. ~ stale /\ ~ polls.got[i].late /\ of = page.run
      BY <1>1, <1>9, <1>16
  <2>2. is \in Ended
      BY <1>2, <1>9, <1>10, <1>11, <1>16, <2>1 DEF Frozen
  <2>3. runs[page.run].st = is
      BY <1>8, <2>1, <2>2
  <2>4. d = [run |-> page.run, st |-> is]
      BY <2>1 DEF d
  <2>5. ASSUME NEW k \in DOMAIN polls'.got, polls'.got[k].of = page.run, ~ polls'.got[k].late
        PROVE  polls'.got[k].is \in Ended
    <3>1. PICK j \in DOMAIN polls.got :
            /\ polls'.got[k].of = polls.got[j].of /\ polls'.got[k].is = polls.got[j].is
            /\ i < j
        BY <1>12, <2>5
    <3>. QED  BY <1>7, <1>9, <2>1, <2>2, <2>5, <3>1 DEF Order
  <2>. QED  BY <1>11, <2>2, <2>3, <2>4, <2>5
<1>17. Frozen'
    BY <1>16 DEF Frozen, appVars
<1>18. Numbers' = Numbers /\ stale' \in BOOLEAN
    BY <1>1, <1>2, <1>3 DEF Numbers, appVars
<1>. QED  BY <1>2, <1>11, <1>12, <1>13, <1>15, <1>17, <1>18 DEF Inv, PageInv

-----------------------------------------------------------------------------
(* The whole. *)

LEMMA NoPageOK ==
  ASSUME Len(runs) \in Nat
  PROVE  /\ NoPage \in PageT /\ NoPage.stop.st = "idle" /\ NoPage.replay.st = "idle"
         /\ NoPage.data.st = "none" /\ NoPage.terminal = FALSE
BY DEF NoPage, PageT, Data, Button, NoData, Idle, Waits

LEMMA InitOK == Init => Inv
<1> SUFFICES ASSUME Init PROVE Inv
    OBVIOUS
<1>1. runs = <<>> /\ table = [t \in Tasks |-> Unknown] /\ strays = {} /\ page = NoPage /\ stale = FALSE /\ tab = "none"
    BY DEF Init, AppInit
<1>2. RunsOK
    BY <1>1, ReportAssumption DEF RunsOK
<1>3. KnownOK
  <2>1. Known = 1 .. 0 /\ 0 \in 0 .. Len(runs)
      BY <1>1 DEF Known
  <2>. QED  BY <2>1 DEF KnownOK
<1>4. TableOK /\ Through
    BY <1>1 DEF TableOK, Task, Statuses, Unknown, Through
<1>5. PageInv
    BY <1>1, NoPageOK, <1>2, RunNumbers DEF PageInv, PageOK, Active
<1>. QED  BY <1>2, <1>3, <1>4, <1>5 DEF Inv, AppInv

LEMMA AppStays == AppInv /\ UNCHANGED <<runs, table, strays>> => AppInv' /\ Grows
<1>1. AppInv => Len(runs) \in Nat
    BY DEF AppInv, RunsOK
<1>. QED  BY <1>1 DEF AppInv, RunsOK, KnownOK, Known, TableOK, Through, Sole, Grows

\* The panel leaves the page of a run alone, which is not open.
LEMMA PanelOK == Inv /\ Panel => Inv'
<1> SUFFICES ASSUME Inv, Panel PROVE Inv'
    OBVIOUS
<1>1. AppInv' /\ Grows
  <2>1. CASE ServeStart
    <3>1. Len(runs) < MaxRuns /\ Triggered /\ UNCHANGED <<table, strays>>
        BY <2>1, Zenon DEF ServeStart
    <3>. QED  BY <3>1, TriggeredOK DEF Inv
  <2>2. CASE UNCHANGED <<runs, table, strays>>
      BY <2>2, AppStays DEF Inv
  <2>. QED  BY <2>1, <2>2 DEF Panel, PanelFault, appVars
<1>2. tab = "report" /\ tab' = tab /\ page' = page /\ stale' \in BOOLEAN
  <2>1. stale \in BOOLEAN
      BY DEF Inv, PageInv
  <2>. QED  BY <2>1 DEF Panel, Start, ServeStart, StartAnswered, Poll, ServePoll, ShowPoll, PanelFault
<1>3. page \in PageT'
    BY <1>1, NumbersGrow DEF Inv, PageInv, PageOK
<1>. QED  BY <1>1, <1>2, <1>3 DEF Inv, PageInv, PageOK

LEMMA OpenOK == Inv /\ Open => Inv'
<1> SUFFICES ASSUME Inv, Open PROVE Inv'
    OBVIOUS
<1>1. UNCHANGED appVars /\ polls' = NoPolls /\ stale' = FALSE /\ tab' \in {"run", "report"}
    BY DEF Open
<1>2. AppInv' /\ Grows
    BY <1>1, AppStays DEF Inv, appVars
<1>3. PageT' = PageT /\ Numbers' = Numbers /\ Len(runs) \in Nat
    BY <1>1, RunNumbers DEF PageT, Data, Button, Numbers, appVars, Inv, AppInv
<1>4. CASE tab' = "run"
  <2>1. PICK r \in DOMAIN runs : page' = [NoPage EXCEPT !.run = r]
      BY <1>4 DEF Open
  <2>2. r \in 0 .. Len(runs) /\ r # 0
      BY <1>3 DEF Inv, AppInv, RunsOK
  <2>3. /\ page' \in PageT /\ page'.run = r /\ page'.terminal = FALSE
        /\ page'.data = NoPage.data /\ page'.stop = NoPage.stop /\ page'.replay = NoPage.replay
      BY <1>3, <2>1, <2>2, NoPageOK, Zenon DEF PageT
  <2>4. PageOK'
      BY <1>3, <2>3, NoPageOK DEF PageOK, Active
  <2>5. NoPolls \in PollsT(Numbers) /\ NoPolls.got = <<>>
    <3>1. <<>> \in Seq(Numbers) /\ <<>> \in Seq(Answer(Numbers))
        OBVIOUS
    <3>. QED  BY <3>1, PollsOf DEF PollsT, Requests, Answer, NoPolls
  <2>6. AnswersOK' /\ Frozen'
      BY <1>1, <2>3, <2>5 DEF AnswersOK, Past, Order, Frozen
  <2>. QED  BY <1>1, <1>2, <1>3, <1>4, <2>2, <2>3, <2>4, <2>5, <2>6 DEF Inv, PageInv
<1>5. CASE tab' # "run"
  <2>1. page' = NoPage
      BY <1>5 DEF Open
  <2>2. PageOK'
      BY <1>3, <2>1, NoPageOK DEF PageOK, Active
  <2>. QED  BY <1>1, <1>2, <1>5, <2>1, <2>2 DEF Inv, PageInv
<1>. QED  BY <1>4, <1>5

LEMMA AppOK == Inv /\ (App \/ Elsewhere) => Inv'
<1> SUFFICES ASSUME Inv, App \/ Elsewhere PROVE Inv'
    OBVIOUS
<1>1. AppInv
    BY DEF Inv
<1>2. AppInv' /\ Grows
  <2>1. CASE App
      BY <1>1, <2>1, CallbackOK, StepEndsOK, LoseOK, StrayEndsOK DEF App
  <2>2. CASE Elsewhere
      BY <1>1, <2>2, CancelledOK DEF Elsewhere
  <2>. QED  BY <2>1, <2>2
<1>. QED  BY <1>2, PageStays DEF App, Elsewhere, Inv

LEMMA DashboardOK == Inv /\ Dashboard => Inv'
<1> SUFFICES ASSUME Inv, Dashboard PROVE Inv'
    OBVIOUS
<1>1. tab = "run" /\ UNCHANGED tab
    BY DEF Dashboard
<1>2. CASE UNCHANGED appVars
  <2>1. AppInv'
      BY <1>2, AppStays DEF Inv, appVars
  <2>2. PageInv'
      BY <1>1, <1>2, TickOK, ShowRunOK, ButtonsOK, GoToOK, ReplayAnsweredOK, ServeStopOK,
         ServeReplayOK, PageFaultOK DEF Dashboard, Inv
  <2>. QED  BY <2>1, <2>2 DEF Inv
<1>3. CASE ServeStop \/ ServeReplay \/ PageFault
    BY <1>1, <1>3, ServeStopOK, ServeReplayOK, PageFaultOK
<1>. QED  BY <1>2, <1>3 DEF Dashboard

\* The pages and the app keep what ties them together: what the page shows and is
\* about to be told is true of the runs, and tasks are numbered by their first runs.
THEOREM PagesInvariant == Spec => []Inv
<1>1. Inv /\ [Next]_vars => Inv'
  <2> SUFFICES ASSUME Inv, [Next]_vars PROVE Inv'
      OBVIOUS
  <2>1. CASE Next
      BY <2>1, OpenOK, AppOK, DashboardOK, PanelOK DEF Next
  <2>2. CASE UNCHANGED vars
    <3>1. AppInv' /\ Grows
        BY <2>2, AppStays DEF vars, appVars, Inv
    <3>. QED  BY <2>2, <3>1, PageStays DEF vars, Inv
  <2>. QED  BY <2>1, <2>2
<1>. QED  BY <1>1, InitOK, PTL DEF Spec

\* A run page that has stopped polling shows its run as it ended, unless it was led
\* astray by an answer that was overtaken or about another run (RunDetailPage.jsx).
THEOREM FrozenIsFinalAlways == Spec => []FrozenIsFinal
<1>1. Inv => FrozenIsFinal
  <2> SUFFICES ASSUME Inv PROVE FrozenIsFinal
      OBVIOUS
  <2>1. NoPage.terminal = FALSE
      BY RunNumbers, NoPageOK DEF Inv, AppInv
  <2>2. CASE tab = "run"
      BY <2>2 DEF Inv, PageInv, Frozen, FrozenIsFinal
  <2>3. CASE tab # "run"
      BY <2>1, <2>3 DEF Inv, PageInv, FrozenIsFinal
  <2>. QED  BY <2>2, <2>3
<1>. QED  BY <1>1, PagesInvariant, PTL

\* The task of a run that completed says so, with the result, whatever strays there
\* are; unless the task was run again (tasks.ts, route.ts).
THEOREM DoneIsCompletedAlways == Spec => []DoneIsCompleted
<1>1. Inv => DoneIsCompleted
    BY DEF Inv, AppInv, RunsOK, Through, Sole, DoneIsCompleted
<1>. QED  BY <1>1, PagesInvariant, PTL
-----------------------------------------------------------------------------
(* The panel.  Nothing leads it astray as long as the task it shows is the *)
(* one its polls ask for: then the ids its clicks wait for are new ones,    *)
(* and the follow-up of a task it sends a second time would be one it       *)
(* remembers.                                                               *)

Phases == {"idle", "running", "completed", "failed"}
PanelT == [kind : Phases, task : 0 .. MaxRuns, sent : 0 .. MaxRuns]

Bounded ==
  /\ faults \in 0 .. MaxFaults /\ tab \in {"none", "run", "report"}
  /\ InFlight(polls) \in 0 .. MaxPolls
Closed == panel = NoPanel /\ starts = <<>> /\ \A t \in Tasks : followups[t] = 0
Opened ==
  /\ panel \in PanelT /\ starts \in Seq(0 .. MaxRuns)
  /\ polls \in Requests(0 .. MaxRuns, Statuses)

\* A task whose poll said that it is completed has a result.
Results == \A i \in DOMAIN polls.got : polls.got[i].is = "completed" =>
             polls.got[i].of \in Tasks /\ table[polls.got[i].of].result

\* What the panel shows, the ids the clicks were answered with, and what followed.
Clicked ==
  /\ panel.task # 0 => panel.task \in Known
  /\ \A i \in DOMAIN starts : starts[i] # 0 =>
       /\ starts[i] \in Known /\ starts[i] # panel.task /\ followups[starts[i]] = 0
       /\ \A j \in DOMAIN starts : starts[j] = starts[i] => i = j
Followed(t) ==
  /\ followups[t] <= 1
  /\ followups[t] = 1 => t \in Known /\ table[t].result /\ (panel.task = t => panel.sent = t)
Follows == Clicked /\ \A t \in Tasks : Followed(t)

PanelInv ==
  /\ Bounded /\ followups \in [Tasks -> Nat]
  /\ tab # "report" => Closed
  /\ tab = "report" => Opened /\ Results /\ (~ stale => Follows)

LEMMA KnownGrows ==
  ASSUME AppInv, Grows
  PROVE  /\ Known \subseteq Known' /\ Known \subseteq Tasks
         /\ \A t \in Tasks : table[t].result => table'[t].result
<1>1. Known \subseteq Known'
    BY DEF Known, Grows
<1>2. Known \subseteq Tasks
    BY FieldsOfRun DEF Known, AppInv, RunsOK
<1>. QED  BY <1>1, <1>2 DEF Grows

LEMMA FaultsBounded ==
  ASSUME Bounded, faults' = faults \/ Fault
  PROVE  faults' \in 0 .. MaxFaults
BY ReportAssumption DEF Bounded, Fault

\* Steps of the app: what the panel waits for stays right.
LEMMA FollowsOn ==
  ASSUME AppInv, Grows, UNCHANGED <<panelVars, polls>>
  PROVE  (Results => Results') /\ (Follows => Follows')
<1>1. /\ Known \subseteq Known' /\ \A t \in Tasks : table[t].result => table'[t].result
    BY KnownGrows
<1>2. UNCHANGED <<panel, starts, followups>>
    BY DEF panelVars
<1>3. Clicked => Clicked'
    BY <1>1, <1>2 DEF Clicked
<1>4. \A t \in Tasks : Followed(t) => Followed(t)'
    BY <1>1, <1>2 DEF Followed
<1>5. Results => Results'
    BY <1>1 DEF Results
<1>. QED  BY <1>3, <1>4, <1>5 DEF Follows

LEMMA Quiet ==
  ASSUME AppInv, Grows, PanelInv, UNCHANGED <<panelVars, polls, stale, tab>>,
         faults' = faults \/ Fault
  PROVE  PanelInv'
<1>1. UNCHANGED <<panel, starts, followups>>
    BY DEF panelVars
<1>2. Bounded'
    BY FaultsBounded DEF Bounded, PanelInv
<1>3. (Results => Results') /\ (Follows => Follows')
    BY FollowsOn
<1>. QED  BY <1>1, <1>2, <1>3 DEF PanelInv, Closed, Opened

\* The run page polls, within the bound.
LEMMA RunPagePolls ==
  ASSUME Inv, PanelInv, tab = "run", Dashboard
  PROVE  PanelInv'
<1>1. UNCHANGED <<panel, starts, followups, tab>>
    BY DEF Dashboard, panelVars
<1>2. faults' = faults \/ Fault
    BY DEF Dashboard, ServeStop, ServeReplay, PageFault, appVars
<1>3. polls \in Requests(Numbers, Active \cup Ended) /\ InFlight(polls) \in 0 .. MaxPolls
    BY DEF Inv, PageInv, PollsT, PanelInv, Bounded
<1>4. InFlight(polls') \in 0 .. MaxPolls
  <2>1. CASE Tick
    <3>1. page.run \in Numbers /\ polls' = Ask(polls, page.run) /\ InFlight(polls) < MaxPolls
        BY <2>1, FieldsOfPage, RunNumbers DEF Tick, Inv, PageInv, PageOK, AppInv, Numbers
    <3>2. InFlight(polls') = InFlight(polls) + 1
        BY <1>3, <3>1, AskIs
    <3>. QED  BY <1>3, <3>1, <3>2, PollAssumption
  <2>2. CASE ServeRun
    <3>1. PICK i \in DOMAIN polls.asked : polls' = Reply(polls, i, runs[polls.asked[i]].st)
        BY <2>2 DEF ServeRun
    <3>2. polls.asked[i] \in DOMAIN runs /\ runs[polls.asked[i]].st \in Active \cup Ended
        BY FieldsOfPolls, FieldsOfRun, RunNumbers, <1>3 DEF Inv, AppInv, RunsOK, PollsT
    <3>3. InFlight(polls') = InFlight(polls)
        BY <1>3, <3>1, <3>2, ReplyIs
    <3>. QED  BY <1>3, <3>3
  <2>3. CASE ShowRun
    <3>1. PICK i \in DOMAIN polls.got : polls' = Taken(polls, i)
        BY <2>3 DEF ShowRun
    <3>2. InFlight(polls') = InFlight(polls) - 1
        BY <1>3, <3>1, TakenIs
    <3>3. InFlight(polls') \in Nat
      <4>1. polls' \in Requests(Numbers, Active \cup Ended)
          BY <1>3, <3>1, TakenIs
      <4>. QED  BY <4>1, InFlightNat
    <3>. QED  BY <1>3, <3>2, <3>3, PollAssumption
  <2>4. CASE UNCHANGED polls
      BY <1>3, <2>4
  <2>. QED  BY <2>1, <2>2, <2>3, <2>4
       DEF Dashboard, OnStop, StopAnswered, OnReplay, ReplayAnswered, GoTo, ServeStop, ServeReplay, PageFault
<1>5. Bounded'
    BY <1>1, <1>2, <1>4, FaultsBounded DEF Bounded, PanelInv
<1>. QED  BY <1>1, <1>5 DEF PanelInv, Closed

LEMMA OpenedAnew == PanelInv /\ Open => PanelInv'
<1> SUFFICES ASSUME PanelInv, Open PROVE PanelInv'
    OBVIOUS
<1>1. /\ panel' = NoPanel /\ starts' = <<>> /\ polls' = NoPolls /\ stale' = FALSE
      /\ followups' = [t \in Tasks |-> 0] /\ UNCHANGED appVars /\ tab' \in {"run", "report"}
    BY DEF Open
<1>2. Len(NoPolls.asked) = 0 /\ Len(NoPolls.got) = 0 /\ DOMAIN NoPolls.got = {}
    BY DEF NoPolls
<1>3. Bounded'
    BY <1>1, <1>2, PollAssumption DEF PanelInv, Bounded, InFlight, appVars
<1>4. Closed'
    BY <1>1 DEF Closed
<1>5. Opened'
  <2>1. NoPolls \in Requests(0 .. MaxRuns, Statuses)
    <3>1. <<>> \in Seq(0 .. MaxRuns) /\ <<>> \in Seq(AnswerTo(0 .. MaxRuns, Statuses))
        OBVIOUS
    <3>. QED  BY <3>1, PollsOf DEF Requests, NoPolls
  <2>2. NoPanel \in PanelT
      BY ReportAssumption DEF NoPanel, PanelT, Phases
  <2>. QED  BY <1>1, <2>1, <2>2 DEF Opened
<1>6. Results' /\ Follows'
    BY <1>1, <1>2 DEF Results, Follows, Clicked, Followed, NoPanel
<1>7. followups' \in [Tasks -> Nat]
    BY <1>1
<1>. QED  BY <1>3, <1>4, <1>5, <1>6, <1>7 DEF PanelInv

\* What becomes of the panel.
LEMMA PanelBecomes ==
  ASSUME panel \in PanelT, NEW k \in Phases, NEW t \in 0 .. MaxRuns
  PROVE  /\ [panel EXCEPT !.kind = k, !.task = t] \in PanelT
         /\ [panel EXCEPT !.kind = k, !.task = t].kind = k
         /\ [panel EXCEPT !.kind = k, !.task = t].task = t
         /\ [panel EXCEPT !.kind = k, !.task = t].sent = panel.sent
BY Zenon DEF PanelT

LEMMA PanelRemembers ==
  ASSUME NEW p \in PanelT
  PROVE  /\ [p EXCEPT !.sent = p.task] \in PanelT
         /\ [p EXCEPT !.sent = p.task].task = p.task /\ [p EXCEPT !.sent = p.task].sent = p.task
BY Zenon DEF PanelT

LEMMA TaskOfPanel ==
  ASSUME panel \in PanelT
  PROVE  panel.task \in 0 .. MaxRuns
BY Zenon DEF PanelT

LEMMA SameTasks ==
  ASSUME UNCHANGED <<runs, table>>
  PROVE  Known' = Known
BY DEF Known

\* An answered click is forgotten, or its task is the one the panel now shows.
LEMMA StartRemoved ==
  ASSUME starts \in Seq(0 .. MaxRuns), NEW i \in DOMAIN starts, starts' = RemoveAt(starts, i),
         Known' = Known, followups' = followups, Clicked,
         \/ panel'.task \in {0, panel.task}
         \/ panel'.task = starts[i] /\ starts[i] # 0
  PROVE  Clicked'
<1> DEFINE h(k) == IF k < i THEN k ELSE k + 1
<1>1. \A k \in DOMAIN starts' : k \in Nat /\ h(k) \in DOMAIN starts /\ starts'[k] = starts[h(k)]
    BY RemovedIs
<1>2. i \in Nat
    OBVIOUS
<1>3. \A k, j \in Nat : h(k) # i /\ (h(k) = h(j) => k = j)
    BY <1>2
<1> HIDE DEF h
<1>4. panel'.task # 0 => panel'.task \in Known
    BY DEF Clicked
<1>5. ASSUME NEW k \in DOMAIN starts', starts'[k] # 0
      PROVE  /\ starts'[k] \in Known /\ starts'[k] # panel'.task /\ followups[starts'[k]] = 0
             /\ \A j \in DOMAIN starts' : starts'[j] = starts'[k] => k = j
  <2>1. /\ h(k) \in DOMAIN starts /\ starts'[k] = starts[h(k)] /\ starts[h(k)] # 0
        /\ h(k) # i
      BY <1>1, <1>3, <1>5
  <2>2. /\ starts[h(k)] \in Known /\ starts[h(k)] # panel.task /\ followups[starts[h(k)]] = 0
        /\ \A j \in DOMAIN starts : starts[j] = starts[h(k)] => h(k) = j
      BY <2>1 DEF Clicked
  <2>3. starts'[k] # panel'.task
      BY <1>5, <2>1, <2>2
  <2>4. ASSUME NEW j \in DOMAIN starts', starts'[j] = starts'[k] PROVE k = j
    <3>1. h(j) \in DOMAIN starts /\ starts[h(j)] = starts[h(k)]
        BY <1>1, <2>1, <2>4
    <3>2. h(k) = h(j)
        BY <2>2, <3>1
    <3>. QED  BY <1>1, <1>3, <3>2
  <2>. QED  BY <2>1, <2>2, <2>3, <2>4
<1>. QED  BY <1>4, <1>5 DEF Clicked

\* A click, its answer, and one that fails.
LEMMA StartOK ==
  ASSUME Inv, PanelInv, tab = "report", Start, UNCHANGED <<appVars, tab>>
  PROVE  PanelInv'
<1>1. /\ panel' = [panel EXCEPT !.kind = "running", !.task = 0] /\ starts' = Append(starts, 0)
      /\ UNCHANGED <<polls, stale, followups, runs, table, faults>>
    BY DEF Start, appVars
<1>2. panel \in PanelT /\ starts \in Seq(0 .. MaxRuns) /\ 0 \in 0 .. MaxRuns
    BY ReportAssumption DEF PanelInv, Opened
<1>3. panel' \in PanelT /\ panel'.task = 0 /\ panel'.sent = panel.sent
    BY <1>1, <1>2, PanelBecomes DEF Phases
<1>4. /\ starts' \in Seq(0 .. MaxRuns)
      /\ \A k \in DOMAIN starts' : starts'[k] # 0 => k \in DOMAIN starts /\ starts'[k] = starts[k]
    BY <1>1, <1>2
<1>5. Opened' /\ Results' /\ Bounded'
    BY <1>1, <1>3, <1>4 DEF PanelInv, Opened, Results, Bounded
<1>6. Known' = Known
    BY <1>1, SameTasks
<1>7. ASSUME ~ stale PROVE Follows'
  <2>1. Clicked /\ \A t \in Tasks : Followed(t)
      BY <1>7 DEF PanelInv, Follows
  <2>2. Clicked'
    <3>1. ASSUME NEW k \in DOMAIN starts', starts'[k] # 0
          PROVE  /\ starts'[k] \in Known /\ starts'[k] # 0 /\ followups[starts'[k]] = 0
                 /\ \A j \in DOMAIN starts' : starts'[j] = starts'[k] => k = j
        BY <1>4, <2>1, <3>1 DEF Clicked
    <3>. QED  BY <1>1, <1>3, <1>6, <3>1 DEF Clicked
  <2>3. \A t \in Tasks : t # 0
      BY DEF Tasks
  <2>4. \A t \in Tasks : Followed(t)'
      BY <1>1, <1>3, <1>6, <2>1, <2>3 DEF Followed
  <2>. QED  BY <2>2, <2>4 DEF Follows
<1>. QED  BY <1>1, <1>5, <1>7 DEF PanelInv

LEMMA ServeStartOK ==
  ASSUME Inv, PanelInv, tab = "report", ServeStart, Grows, UNCHANGED tab
  PROVE  PanelInv'
<1>1. PICK i \in DOMAIN starts :
        /\ starts[i] = 0 /\ Len(runs) < MaxRuns /\ Triggered /\ starts' = [starts EXCEPT ![i] = Fresh]
        /\ UNCHANGED <<table, faults, panel, polls, stale, followups>>
    BY DEF ServeStart
<1>2. AppInv /\ Fresh \in Tasks \ Known
    BY <1>1, FreshIs DEF Inv
<1>3. starts \in Seq(0 .. MaxRuns) /\ Tasks \subseteq 0 .. MaxRuns /\ 0 \notin Tasks
    BY ReportAssumption DEF PanelInv, Opened, Tasks
<1>4. /\ starts' \in Seq(0 .. MaxRuns) /\ DOMAIN starts' = DOMAIN starts /\ starts'[i] = Fresh
      /\ \A k \in DOMAIN starts \ {i} : starts'[k] = starts[k]
    BY <1>1, <1>2, <1>3
<1>5. Opened' /\ Results' /\ Bounded'
    BY <1>1, <1>4 DEF PanelInv, Opened, Results, Bounded
<1>6. Fresh \in Known' /\ Known \subseteq Known'
  <2>1. runs' = Append(runs, NewRun(Fresh)) /\ runs \in Seq(RunT)
      BY <1>1, <1>2 DEF Triggered, AppInv, RunsOK
  <2>2. Len(runs) + 1 \in DOMAIN runs' /\ runs'[Len(runs) + 1] = NewRun(Fresh)
      BY <2>1
  <2>3. NewRun(Fresh).task = Fresh
      BY DEF NewRun
  <2>4. runs'[Len(runs) + 1].task = Fresh
      BY <2>2, <2>3
  <2>. QED  BY <1>2, <2>2, <2>4, KnownGrows DEF Known
<1>7. ASSUME ~ stale PROVE Follows'
  <2>1. Clicked /\ \A t \in Tasks : Followed(t)
      BY <1>7 DEF PanelInv, Follows
  <2>2. followups[Fresh] = 0
    <3>1. followups[Fresh] \in Nat
        BY <1>2 DEF PanelInv
    <3>2. followups[Fresh] <= 1 /\ followups[Fresh] # 1
        BY <1>2, <2>1 DEF Followed
    <3>. QED  BY <3>1, <3>2
  <2>3. panel.task # Fresh
      BY <1>2, <1>3, <2>1 DEF Clicked
  <2>4. ASSUME NEW k \in DOMAIN starts, starts'[k] # 0
        PROVE  /\ starts'[k] \in Known' /\ starts'[k] # panel.task /\ followups[starts'[k]] = 0
               /\ \A j \in DOMAIN starts : starts'[j] = starts'[k] => k = j
    <3>1. \A j \in DOMAIN starts \ {i} : starts'[j] # 0 => starts'[j] \in Known
        BY <1>4, <2>1 DEF Clicked
    <3>2. CASE k = i
      <4>1. \A j \in DOMAIN starts \ {i} : starts'[j] # Fresh
          BY <1>2, <1>3, <3>1
      <4>. QED  BY <1>4, <1>6, <2>2, <2>3, <3>2, <4>1
    <3>3. CASE k # i
      <4>1. starts[k] = starts'[k] /\ starts'[k] \in Known /\ starts'[k] # Fresh
          BY <1>2, <1>4, <2>4, <3>1, <3>3
      <4>2. /\ starts[k] # panel.task /\ followups[starts[k]] = 0
            /\ \A j \in DOMAIN starts : starts[j] = starts[k] => k = j
          BY <2>1, <2>4, <4>1 DEF Clicked
      <4>. QED  BY <1>4, <1>6, <4>1, <4>2
    <3>. QED  BY <3>2, <3>3
  <2>5. Clicked'
      BY <1>1, <1>4, <1>6, <2>1, <2>4 DEF Clicked
  <2>6. \A t \in Tasks : Followed(t)'
      BY <1>1, <1>6, <2>1 DEF Followed
  <2>. QED  BY <2>5, <2>6 DEF Follows
<1>. QED  BY <1>1, <1>5, <1>7 DEF PanelInv

LEMMA StartAnsweredOK ==
  ASSUME Inv, PanelInv, tab = "report", StartAnswered, UNCHANGED <<appVars, tab>>
  PROVE  PanelInv'
<1>1. PICK i \in DOMAIN starts :
        /\ starts[i] # 0 /\ panel' = [panel EXCEPT !.kind = "running", !.task = starts[i]]
        /\ starts' = RemoveAt(starts, i)
        /\ UNCHANGED <<polls, stale, followups, runs, table, faults>>
    BY DEF StartAnswered, appVars
<1>2. panel \in PanelT /\ starts \in Seq(0 .. MaxRuns) /\ starts[i] \in 0 .. MaxRuns
  <2>1. panel \in PanelT /\ starts \in Seq(0 .. MaxRuns)
      BY DEF PanelInv, Opened
  <2>. QED  BY <2>1, ElementIs
<1>3. panel' \in PanelT /\ panel'.task = starts[i] /\ panel'.sent = panel.sent
    BY <1>1, <1>2, PanelBecomes DEF Phases
<1>4. starts' \in Seq(0 .. MaxRuns)
    BY <1>1, <1>2, RemovedIs
<1>5. Opened' /\ Results' /\ Bounded'
    BY <1>1, <1>3, <1>4 DEF PanelInv, Opened, Results, Bounded
<1>6. Known' = Known
    BY <1>1, SameTasks
<1>7. ASSUME ~ stale PROVE Follows'
  <2>1. Clicked /\ \A t \in Tasks : Followed(t)
      BY <1>7 DEF PanelInv, Follows
  <2>2. Clicked'
      BY <1>1, <1>2, <1>3, <1>6, <2>1, StartRemoved
  <2>3. followups[starts[i]] = 0
      BY <1>1, <2>1 DEF Clicked
  <2>4. \A t \in Tasks : Followed(t)'
      BY <1>1, <1>3, <1>6, <2>1, <2>3 DEF Followed
  <2>. QED  BY <2>2, <2>4 DEF Follows
<1>. QED  BY <1>1, <1>5, <1>7 DEF PanelInv

LEMMA PanelFaultOK ==
  ASSUME Inv, PanelInv, tab = "report", PanelFault, UNCHANGED tab
  PROVE  PanelInv'
<1>1. PICK i \in DOMAIN starts :
        /\ starts' = RemoveAt(starts, i)
        /\ panel' = [panel EXCEPT !.kind = "failed", !.task = 0] \/ UNCHANGED panel
    BY DEF PanelFault
<1>0. UNCHANGED <<polls, stale, followups, runs, table>> /\ Fault
    BY DEF PanelFault
<1>2. panel \in PanelT /\ starts \in Seq(0 .. MaxRuns) /\ 0 \in 0 .. MaxRuns
    BY ReportAssumption DEF PanelInv, Opened
<1>3. panel' \in PanelT /\ panel'.task \in {0, panel.task} /\ panel'.sent = panel.sent
  <2>1. "failed" \in Phases
      BY DEF Phases
  <2>2. CASE panel' = [panel EXCEPT !.kind = "failed", !.task = 0]
      BY <1>2, <2>1, <2>2, PanelBecomes
  <2>3. CASE UNCHANGED panel
      BY <1>2, <2>3
  <2>. QED  BY <1>1, <2>2, <2>3
<1>4. starts' \in Seq(0 .. MaxRuns)
    BY <1>1, <1>2, RemovedIs
<1>5. Opened' /\ Results'
    BY <1>0, <1>3, <1>4 DEF PanelInv, Opened, Results
<1>8. Bounded'
    BY <1>0, FaultsBounded DEF PanelInv, Bounded
<1>6. Known' = Known
    BY <1>0, SameTasks
<1>7. ASSUME ~ stale PROVE Follows'
  <2>1. Clicked /\ \A t \in Tasks : Followed(t)
      BY <1>7 DEF PanelInv, Follows
  <2>2. Clicked'
      BY <1>0, <1>1, <1>2, <1>3, <1>6, <2>1, StartRemoved
  <2>3. \A t \in Tasks : t # 0
      BY DEF Tasks
  <2>4. \A t \in Tasks : Followed(t)'
      BY <1>0, <1>3, <1>6, <2>1, <2>3 DEF Followed
  <2>. QED  BY <2>2, <2>4 DEF Follows
<1>. QED  BY <1>0, <1>5, <1>7, <1>8 DEF PanelInv

\* The timer asks for the task the panel shows; the app answers.
LEMMA PollOK ==
  ASSUME Inv, PanelInv, tab = "report", Poll, UNCHANGED <<appVars, tab>>
  PROVE  PanelInv'
<1>1. /\ InFlight(polls) < MaxPolls /\ polls' = Ask(polls, panel.task)
      /\ UNCHANGED <<panel, starts, stale, followups, runs, table, faults>>
    BY DEF Poll, appVars
<1>2. panel.task \in 0 .. MaxRuns /\ polls \in Requests(0 .. MaxRuns, Statuses)
    BY TaskOfPanel DEF PanelInv, Opened
<1>3. /\ polls' \in Requests(0 .. MaxRuns, Statuses) /\ polls'.got = polls.got
      /\ InFlight(polls') = InFlight(polls) + 1
    BY <1>1, <1>2, AskIs
<1>4. Opened' /\ Results'
    BY <1>1, <1>3 DEF PanelInv, Opened, Results
<1>5. Bounded'
    BY <1>1, <1>3, PollAssumption DEF PanelInv, Bounded
<1>6. Known' = Known
    BY <1>1, SameTasks
<1>7. Follows => Follows'
    BY <1>1, <1>6 DEF Follows, Clicked, Followed
<1>. QED  BY <1>1, <1>4, <1>5, <1>7 DEF PanelInv

LEMMA ServePollOK ==
  ASSUME Inv, PanelInv, tab = "report", ServePoll, UNCHANGED <<appVars, tab>>
  PROVE  PanelInv'
<1>1. PICK i \in DOMAIN polls.asked :
        /\ polls' = Reply(polls, i, Status(polls.asked[i]))
        /\ UNCHANGED <<panel, starts, stale, followups, runs, table, faults>>
    BY DEF ServePoll, appVars
<1> DEFINE of == polls.asked[i]
<1>2. polls \in Requests(0 .. MaxRuns, Statuses) /\ of \in 0 .. MaxRuns
  <2>1. polls \in Requests(0 .. MaxRuns, Statuses)
      BY DEF PanelInv, Opened
  <2>2. polls.asked \in Seq(0 .. MaxRuns)
      BY <2>1, Zenon DEF Requests
  <2>4. of \in 0 .. MaxRuns
      BY <2>2, ElementIs
  <2>. QED  BY <2>1, <2>4
<1>3. /\ Status(of) \in Statuses
      /\ Status(of) = "completed" => of \in Tasks /\ table[of].result
  <2>1. CASE of = 0
      BY <2>1 DEF Status, Statuses
  <2>2. CASE of # 0
    <3>1. of \in Tasks
        BY <1>2, <2>2, ReportAssumption DEF Tasks
    <3>2. /\ table[of] \in Task
          /\ table[of].status = "completed" => table[of].result
        BY <3>1 DEF Inv, AppInv, TableOK
    <3>3. table[of].status \in Statuses
        BY <3>2 DEF Task
    <3>. QED  BY <2>2, <3>1, <3>2, <3>3 DEF Status
  <2>. QED  BY <2>1, <2>2
<1>4. /\ polls' \in Requests(0 .. MaxRuns, Statuses) /\ InFlight(polls') = InFlight(polls)
      /\ \A k \in DOMAIN polls'.got :
           \/ k \in DOMAIN polls.got /\ polls'.got[k] = polls.got[k]
           \/ polls'.got[k].of = of /\ polls'.got[k].is = Status(of)
    BY <1>1, <1>2, <1>3, ReplyIs
<1> HIDE DEF of
<1>5. Results'
    BY <1>1, <1>3, <1>4 DEF PanelInv, Results
<1>6. Opened' /\ Bounded'
    BY <1>1, <1>4 DEF PanelInv, Opened, Bounded
<1>7. Known' = Known
    BY <1>1, SameTasks
<1>8. Follows => Follows'
    BY <1>1, <1>7 DEF Follows, Clicked, Followed
<1>. QED  BY <1>1, <1>5, <1>6, <1>8 DEF PanelInv

\* An answer is shown; the follow-up is sent for a task the panel does not remember.
LEMMA ShowPollOK ==
  ASSUME Inv, PanelInv, tab = "report", ShowPoll, UNCHANGED <<appVars, tab>>
  PROVE  PanelInv'
<1> DEFINE d(i) == polls.got[i]
           p(i) == [panel EXCEPT !.kind = Phase(polls.got[i].is), !.task = polls.got[i].of]
<1>1. PICK i \in DOMAIN polls.got :
        /\ IF FollowsUp(p(i))
           THEN /\ panel' = [p(i) EXCEPT !.sent = p(i).task]
                /\ followups' = [followups EXCEPT ![p(i).task] = @ + 1]
           ELSE panel' = p(i) /\ UNCHANGED followups
        /\ polls' = Taken(polls, i)
        /\ stale' = (stale \/ polls.got[i].of # panel.task)
        /\ UNCHANGED <<starts, runs, table, faults>>
    BY DEF ShowPoll, appVars
<1>2. /\ panel \in PanelT /\ polls \in Requests(0 .. MaxRuns, Statuses) /\ Results
      /\ starts \in Seq(0 .. MaxRuns) /\ followups \in [Tasks -> Nat]
    BY DEF PanelInv, Opened
<1>3. polls.got[i].of \in 0 .. MaxRuns /\ polls.got[i].is \in Statuses
  <2>1. polls.got \in Seq(AnswerTo(0 .. MaxRuns, Statuses))
      BY <1>2, Zenon DEF Requests
  <2>2. polls.got[i] \in AnswerTo(0 .. MaxRuns, Statuses)
      BY <2>1
  <2>. QED  BY <2>2, Zenon DEF AnswerTo
<1>4. /\ polls' \in Requests(0 .. MaxRuns, Statuses) /\ InFlight(polls') = InFlight(polls) - 1
      /\ \A k \in DOMAIN polls'.got : \E j \in DOMAIN polls.got :
           polls'.got[k].of = polls.got[j].of /\ polls'.got[k].is = polls.got[j].is
    BY <1>1, <1>2, TakenIs
<1>5. Results'
    BY <1>1, <1>2, <1>4 DEF Results
<1>6. Bounded'
  <2>1. InFlight(polls') \in Nat
      BY <1>4, InFlightNat
  <2>. QED  BY <1>1, <1>4, <2>1, PollAssumption DEF PanelInv, Bounded
<1>7. Phase(polls.got[i].is) \in Phases /\ (Phase(polls.got[i].is) = "completed" => polls.got[i].is = "completed")
    BY DEF Phase, Phases
<1> DEFINE q == p(i)
<1>8. /\ q \in PanelT /\ q.kind = Phase(polls.got[i].is) /\ q.task = polls.got[i].of /\ q.sent = panel.sent
  <2> DEFINE k == Phase(polls.got[i].is)
             t == polls.got[i].of
  <2>1. k \in Phases /\ t \in 0 .. MaxRuns
      BY <1>3, <1>7
  <2>2. q = [panel EXCEPT !.kind = k, !.task = t]
      OBVIOUS
  <2> HIDE DEF k, t, q, p
  <2>3. q \in PanelT /\ q.kind = k /\ q.task = t /\ q.sent = panel.sent
      BY <1>2, <2>1, <2>2, PanelBecomes
  <2>. QED  BY <2>3 DEF k, t
<1>9. /\ FollowsUp(q) => /\ panel' = [q EXCEPT !.sent = q.task]
                         /\ followups' = [followups EXCEPT ![q.task] = @ + 1]
      /\ ~ FollowsUp(q) => panel' = q /\ UNCHANGED followups
    BY <1>1
<1> HIDE DEF q, p
<1>10. /\ panel' \in PanelT /\ panel'.task = q.task
       /\ FollowsUp(q) => panel'.sent = q.task
       /\ ~ FollowsUp(q) => panel'.sent = panel.sent
    BY <1>8, <1>9, PanelRemembers
<1>11. FollowsUp(q) => q.task \in Tasks /\ table[q.task].result /\ panel.sent # q.task
    BY <1>2, <1>7, <1>8 DEF FollowsUp, Results
<1>12. followups' \in [Tasks -> Nat]
    BY <1>2, <1>9, <1>11
<1>13. \A t \in Tasks : /\ FollowsUp(q) /\ t = q.task => followups'[t] = followups[t] + 1
                        /\ ~ (FollowsUp(q) /\ t = q.task) => followups'[t] = followups[t]
    BY <1>2, <1>9, <1>11
<1>14. Opened'
    BY <1>1, <1>2, <1>4, <1>10 DEF Opened
<1>15. Known' = Known /\ Known \subseteq Tasks
    BY <1>1, SameTasks, FieldsOfRun DEF Known, Inv, AppInv, RunsOK
<1>16. ASSUME ~ stale' PROVE Follows'
  <2>1. ~ stale /\ q.task = panel.task /\ panel'.task = panel.task
      BY <1>1, <1>8, <1>10, <1>16
  <2>2. Clicked /\ \A t \in Tasks : Followed(t)
      BY <2>1 DEF PanelInv, Follows
  <2>3. Clicked'
    <3>1. ASSUME NEW k \in DOMAIN starts, starts[k] # 0
          PROVE  /\ starts[k] \in Known /\ starts[k] # panel.task /\ followups'[starts[k]] = 0
                 /\ \A j \in DOMAIN starts : starts[j] = starts[k] => k = j
      <4>1. /\ starts[k] \in Known /\ starts[k] # panel.task /\ followups[starts[k]] = 0
            /\ \A j \in DOMAIN starts : starts[j] = starts[k] => k = j
          BY <2>2, <3>1 DEF Clicked
      <4>2. followups'[starts[k]] = followups[starts[k]]
          BY <1>13, <1>15, <2>1, <4>1
      <4>. QED  BY <4>1, <4>2
    <3>. QED  BY <1>1, <1>15, <2>1, <2>2, <3>1 DEF Clicked
  <2>4. ASSUME NEW t \in Tasks PROVE Followed(t)'
    <3>1. CASE FollowsUp(q) /\ t = q.task
      <4>1. followups[t] \in Nat /\ followups[t] <= 1 /\ followups[t] # 1
          BY <1>2, <1>11, <2>1, <2>2, <3>1 DEF Followed
      <4>2. followups'[t] = 1
          BY <1>13, <3>1, <4>1
      <4>3. t \in Known
        <5>1. panel.task # 0
            BY <2>1, <3>1 DEF Tasks
        <5>. QED  BY <2>1, <2>2, <3>1, <5>1 DEF Clicked
      <4>. QED  BY <1>1, <1>10, <1>11, <1>15, <3>1, <4>2, <4>3 DEF Followed
    <3>2. CASE ~ (FollowsUp(q) /\ t = q.task)
      <4>1. followups'[t] = followups[t] /\ Followed(t)
          BY <1>13, <2>2, <3>2
      <4>2. panel'.task = t => panel'.sent = panel.sent
          BY <1>10, <3>2
      <4>. QED  BY <1>1, <1>15, <2>1, <4>1, <4>2 DEF Followed
    <3>. QED  BY <3>1, <3>2
  <2>. QED  BY <2>3, <2>4 DEF Follows
<1>17. tab' = "report"
    OBVIOUS
<1>. QED  BY <1>5, <1>6, <1>12, <1>14, <1>16, <1>17 DEF PanelInv

-----------------------------------------------------------------------------
(* The whole, with the panel. *)

LEMMA PanelNext == Inv /\ PanelInv /\ [Next]_vars => PanelInv'
<1> SUFFICES ASSUME Inv, PanelInv, [Next]_vars PROVE PanelInv'
    OBVIOUS
<1>0. AppInv
    BY DEF Inv
<1>1. CASE Open
    BY <1>1, OpenedAnew
<1>2. CASE App \/ Elsewhere
  <2>1. Grows
    <3>1. CASE App
        BY <1>0, <3>1, CallbackOK, StepEndsOK, LoseOK, StrayEndsOK DEF App
    <3>2. CASE Elsewhere
        BY <1>0, <3>2, CancelledOK DEF Elsewhere
    <3>. QED  BY <1>2, <3>1, <3>2
  <2>2. UNCHANGED <<panelVars, polls, stale, tab>>
      BY <1>2 DEF App, Elsewhere
  <2>3. faults' = faults \/ Fault
      BY <1>2 DEF App, Elsewhere, Callback, StepEnds, Lose, StrayEnds
  <2>. QED  BY <1>0, <2>1, <2>2, <2>3, Quiet
<1>3. CASE Dashboard
    BY <1>3, RunPagePolls DEF Dashboard
<1>4. CASE Panel
  <2>1. tab = "report" /\ UNCHANGED tab
      BY <1>4 DEF Panel
  <2>2. CASE ServeStart
    <3>1. Len(runs) < MaxRuns /\ Triggered /\ UNCHANGED <<table, strays>>
        BY <2>2, Zenon DEF ServeStart
    <3>2. Grows
        BY <1>0, <3>1, TriggeredOK
    <3>. QED  BY <2>1, <2>2, <3>2, ServeStartOK
  <2>. QED  BY <1>4, <2>1, <2>2, StartOK, StartAnsweredOK, PanelFaultOK, PollOK, ServePollOK, ShowPollOK DEF Panel
<1>5. CASE UNCHANGED vars
  <2>1. Grows /\ UNCHANGED <<panelVars, polls, stale, tab>> /\ UNCHANGED faults
      BY <1>0, <1>5, AppStays DEF vars, appVars
  <2>. QED  BY <1>0, <2>1, Quiet
<1>. QED  BY <1>1, <1>2, <1>3, <1>4, <1>5 DEF Next

\* The panel and the tasks keep what ties them together: what its polls are told is
\* true of the table, and only tasks it has followed up does it remember.
THEOREM PanelInvariant == Spec => [](Inv /\ PanelInv)
<1>1. Init => PanelInv
  <2> SUFFICES ASSUME Init PROVE PanelInv
      OBVIOUS
  <2>1. /\ faults = 0 /\ tab = "none" /\ polls = NoPolls /\ panel = NoPanel /\ starts = <<>>
        /\ followups = [t \in Tasks |-> 0]
      BY DEF Init, AppInit
  <2>2. InFlight(polls) = 0
      BY <2>1 DEF InFlight, NoPolls
  <2>. QED  BY <2>1, <2>2, PollAssumption, ReportAssumption DEF PanelInv, Bounded, Closed
<1>2. Spec => []Inv
    BY PagesInvariant
<1>3. Inv /\ PanelInv /\ [Next]_vars => PanelInv'
    BY PanelNext
<1>. QED  BY <1>1, <1>2, <1>3, PTL DEF Spec

\* Between two loads of the panel the follow-up of a task is sent once, and for a
\* result there is, in whatever order clicks and polls are answered and whatever is
\* lost; unless the answer of a poll for another task was shown (ReportPanel.tsx).
THEOREM FollowedUpOnceAlways == Spec => []FollowedUpOnce
<1>1. PanelInv => FollowedUpOnce
  <2> SUFFICES ASSUME PanelInv, NEW t \in Tasks, ~ stale
               PROVE  followups[t] <= 1 /\ (followups[t] = 1 => table[t].result)
      BY DEF FollowedUpOnce
  <2>1. CASE tab = "report"
      BY <2>1 DEF PanelInv, Follows, Followed
  <2>2. CASE tab # "report"
      BY <2>2 DEF PanelInv, Closed
  <2>. QED  BY <2>1, <2>2
<1>. QED  BY <1>1, PanelInvariant, PTL

\* The variables keep their types: among them that a page that is not open holds
\* nothing and that no page has more requests on their way than it may.
THEOREM PagesTypesHold == Spec => []TypeOK
<1>1. Inv /\ PanelInv => TypeOK
  <2> SUFFICES ASSUME Inv, PanelInv PROVE TypeOK
      OBVIOUS
  <2>1. Len(runs) <= MaxRuns /\ faults \in 0 .. MaxFaults
      BY DEF Inv, AppInv, RunsOK, PanelInv, Bounded
  <2>2. \A r \in DOMAIN runs :
          /\ runs[r].task \in Tasks /\ runs[r].st \in Active \cup Ended
          /\ runs[r].done \in 0 .. Steps /\ (runs[r].exec => runs[r].st = "running")
          /\ runs[r].st = "completed" => runs[r].done = Steps
      BY FieldsOfRun DEF Inv, AppInv, RunsOK
  <2>3. \A t \in Tasks : table[t].status \in {"unknown", "running", "completed", "failed"}
    <3>1. \A t \in Tasks : table[t] \in Task
        BY DEF Inv, AppInv, TableOK
    <3>. QED  BY <3>1 DEF Task, Statuses
  <2>4. tab \in {"none", "run", "report"} /\ InFlight(polls) <= MaxPolls
      BY PollAssumption DEF PanelInv, Bounded
  <2>5. (tab # "run" => page = NoPage) /\ (tab # "report" => panel = NoPanel /\ starts = <<>>)
      BY DEF Inv, PageInv, PanelInv, Closed
  <2>6. page.run \in 0 .. Len(runs) /\ page.terminal \in BOOLEAN /\ stale \in BOOLEAN
      BY FieldsOfPage DEF Inv, PageInv, PageOK
  <2>7. panel.kind \in {"idle", "running", "completed", "failed"}
    <3>1. CASE tab = "report"
      <4>1. panel \in PanelT
          BY <3>1 DEF PanelInv, Opened
      <4>. QED  BY <4>1, Zenon DEF PanelT, Phases
    <3>2. CASE tab # "report"
        BY <2>5, <3>2 DEF NoPanel
    <3>. QED  BY <3>1, <3>2
  <2>. QED  BY <2>1, <2>2, <2>3, <2>4, <2>5, <2>6, <2>7 DEF TypeOK
<1>. QED  BY <1>1, PanelInvariant, PTL
=============================================================================
