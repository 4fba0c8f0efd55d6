----------------------------- MODULE RoundRobin -----------------------------
(***************************************************************************)
(* What the first line of scheduler.c promises, a preemptive round robin   *)
(* scheduler: one task runs, the others wait in a queue, the one that has  *)
(* waited longest runs next, and who is preempted joins the queue's end.   *)
(***************************************************************************)
EXTENDS Sequences

CONSTANTS Task, First

VARIABLES current, queue

vars == <<current, queue>>

Waiting == {queue[k] : k \in DOMAIN queue}

Init ==
  /\ current = First
  /\ queue = <<>>

(* A new task joins.                                                       *)
Admit(i) ==
  /\ i \notin Waiting \cup {current}
  /\ queue' = Append(queue, i)
  /\ UNCHANGED current

(* The timer takes the processor from one task and gives it to the next.   *)
Preempt ==
  /\ queue # <<>>
  /\ current' = Head(queue)
  /\ queue' = Append(Tail(queue), current)

(* The current task ends.                                                  *)
Exit ==
  /\ queue # <<>>
  /\ current' = Head(queue)
  /\ queue' = Tail(queue)

Next ==
  \/ \E i \in Task : Admit(i)
  \/ Preempt
  \/ Exit

Spec == Init /\ [][Next]_vars
=============================================================================
