----------------------------- MODULE DurableRun -----------------------------
(***************************************************************************)
(* What the platform promises of a run, whatever its goroutines do to      *)
(* bring it about: its steps finish one by one, each once and in the order *)
(* of the program; it completes only when all of them have; and it ends    *)
(* once.  A step that was under way when the run ended may still finish.   *)
(***************************************************************************)
EXTENDS Workflow

CONSTANT Runs

VARIABLES phase,   \* the status of each run
          done     \* the steps of each run whose result is recorded

DurableInit ==
  /\ phase = [r \in Runs |-> "None"]
  /\ done = [r \in Runs |-> {}]

Create(r) == phase[r] = "None" /\ phase' = [phase EXCEPT ![r] = "Queued"] /\ UNCHANGED done
Begin(r)  == phase[r] = "Queued" /\ phase' = [phase EXCEPT ![r] = "Running"] /\ UNCHANGED done

FinishStep(r, s) ==
  /\ phase[r] \in {"Running", "Failed", "Cancelled"}
  /\ Interrupts(s, done[r])
  /\ done' = [done EXCEPT ![r] = @ \cup {s}]
  /\ UNCHANGED phase

Succeed(r) ==
  /\ phase[r] = "Running"
  /\ done[r] = Steps
  /\ phase' = [phase EXCEPT ![r] = "Completed"]
  /\ UNCHANGED done

GiveUp(r) ==
  /\ phase[r] \in {"Queued", "Running"}
  /\ \E end \in {"Failed", "Cancelled"} : phase' = [phase EXCEPT ![r] = end]
  /\ UNCHANGED done

DurableNext ==
  \E r \in Runs :
    Create(r) \/ Begin(r) \/ Succeed(r) \/ GiveUp(r) \/ \E s \in Steps : FinishStep(r, s)

DurableSpec == DurableInit /\ [][DurableNext]_<<phase, done>>
=============================================================================
