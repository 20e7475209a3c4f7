------------------------------ MODULE Workflow ------------------------------
(***************************************************************************)
(* The application side of an execution callback, as the Go SDK runs it    *)
(* (sdk/serve.go, sdk/step/step.go; sdk-ts has the same semantics).  A     *)
(* function is re-entered from the top on every callback: a step whose     *)
(* memo the platform injected returns at once, the first one that has none *)
(* interrupts the function with an opcode, and a function that meets only  *)
(* memos returns.  User code is abstracted to the sequence of step kinds   *)
(* it calls, which the SDK requires to be the same on every re-entry.      *)
(***************************************************************************)
EXTENDS Naturals, Sequences

CONSTANT Program        \* the step primitives the function calls, in order

Kinds == {"Run", "Sleep", "SendEvent", "WaitForEvent"}

ASSUME ProgramAssumption == Program \in Seq(Kinds)

Steps == 1..Len(Program)

\* What a callback may answer.  "RunError" stands for every answer that the
\* executor hands to retryOrFail without storing anything: a handler error or
\* panic, an unknown opcode, a malformed Sleep, SendEvent or WaitForEvent.
Ops == {"StepComplete", "StepError", "Sleep", "SendEvent", "WaitForEvent",
        "RunComplete", "RunError"}

\* The step that interrupts the function when the memos of seen are injected.
Interrupts(s, seen) == s \notin seen /\ \A t \in Steps : t < s => t \in seen

\* The opcodes with which a step of a kind can interrupt the function.
Opcodes(kind) == CASE kind = "Run" -> {"StepComplete", "StepError"}
                   [] OTHER        -> {kind}

\* The answers <<opcode, step>> to a callback that carries the memos of seen
\* (step 0 where the answer names none).
Answers(seen) ==
  {<<"RunError", 0>>}
    \cup (IF Steps \subseteq seen THEN {<<"RunComplete", 0>>} ELSE {})
    \cup {a \in Ops \X Steps : Interrupts(a[2], seen) /\ a[1] \in Opcodes(Program[a[2]])}
=============================================================================
