---------------------------- MODULE TestControl ----------------------------
(***************************************************************************)
(* What the stress server promises an operator who waits for each answer:  *)
(* one test at a time, begun and ended as a whole, and a batch number that *)
(* no earlier test had, whatever the number of times the process is ended. *)
(***************************************************************************)
EXTENDS Integers

VARIABLES
  phase,   \* "idle", "starting", "running" or "stopping"
  batch,   \* batch number of the last test begun, 0 before the first
  alive    \* batch numbers of the tests that have a task running

cvars == <<phase, batch, alive>>

Init == phase = "idle" /\ batch = 0 /\ alive = {}

Begin ==
  /\ phase = "idle" /\ phase' = "starting"
  /\ batch' \in Int /\ batch' > batch
  /\ alive' = {}

Launch ==
  /\ phase = "starting"
  /\ phase' \in {"starting", "running"}
  /\ alive' = {batch}
  /\ UNCHANGED batch

BeginStop ==
  /\ phase = "running" /\ phase' = "stopping"
  /\ UNCHANGED <<batch, alive>>

\* The last task is told to stop some time before the answer is sent.
Stopping ==
  /\ phase = "stopping"
  /\ \/ alive' = {} /\ UNCHANGED phase
     \/ alive = {} /\ phase' = "idle" /\ UNCHANGED alive
  /\ UNCHANGED batch

Die ==
  /\ phase' = "idle" /\ alive' = {}
  /\ UNCHANGED batch

Next == Begin \/ Launch \/ BeginStop \/ Stopping \/ Die

Spec == Init /\ [][Next]_cvars
=============================================================================
