------------------------------ MODULE MCSwitch ------------------------------
(* Four tasks, and handlers that nest twice.                               *)
EXTENDS Switch

(* Where a nested tick does no harm: until the stack's top is saved, and   *)
(* from the moment the next task is marked as running.                     *)
MCHarmless == {"enter", "taken", "held", "return"}
(* Elsewhere each single place is enough to lose a task.                   *)
MCLeaving == {"queued"}
=============================================================================
