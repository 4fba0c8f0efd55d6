---------------------------- MODULE MCScheduler ----------------------------
(* Where a tick may surprise a task, from nowhere to everywhere.  The      *)
(* program points of terminate_task need no entry: interrupts are off.     *)
EXTENDS Scheduler

Ordinary ==
  {"waitstart", "waitend", "sleep", "ended"}
  \cup {"start", "inc", "print", "dec", "decstore", "exit"}

(* Everywhere.                                                             *)
MCNowhereCalm == {}
(* Anywhere but in process_create and inside process_count++ and --.       *)
MCUpdatesCalm == Creation \cup {"inc", "decstore"}
(* Only while the current task waits for it: between two ticks a task does *)
(* all it has to do.                                                       *)
MCAllCalm == Creation \cup Ordinary
(* The same, but for two windows: inside process_count++, and before       *)
(* process_create writes the new stack.                                    *)
MCAllButTwo == MCAllCalm \ {"inc", "stack"}
=============================================================================
