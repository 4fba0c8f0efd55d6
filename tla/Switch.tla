------------------------------- MODULE Switch -------------------------------
(***************************************************************************)
(* schedule (scheduler.c) and switch_to_task (task.asm) step by step, with *)
(* timer interrupts in between.  irq_schedule_handler enables interrupts   *)
(* again (unlock_scheduler) before it calls schedule, so that a tick may   *)
(* arrive while an earlier one is still being handled: on the same kernel  *)
(* stack, one frame deeper.                                                *)
(*                                                                         *)
(* Scheduler takes the whole handler as one action.  Here every access to  *)
(* what handlers share is a step of its own, and Windows names the places  *)
(* where a tick may interrupt them.  No task ends or is paused: they run,  *)
(* and the timer takes the processor from one and gives it to the next.    *)
(*                                                                         *)
(* As in Heap, a definition that stands right before another and extends   *)
(* its name is a mistake that no specification uses.                       *)
(***************************************************************************)
EXTENDS Integers, Sequences

CONSTANTS
  N,        \* how many tasks there are
  Depth,    \* how deep handlers nest on one stack (in this run)
  Windows   \* where in a handler a tick may arrive (in this run)

Task == 0 .. (N - 1)
Null == -1
Main == 0

(* Where a handler is: it has enabled interrupts, read the list's head,    *)
(* advanced the head, saved the stack's top, marked the task it leaves     *)
(* ready, linked it, made it the list's end, set currentPCB; "out" while   *)
(* another task runs; back on its own stack; about to return.              *)
Holding == {"held", "saved", "ready", "linked", "queued", "current"}
Point == {"enter", "taken"} \cup Holding \cup {"out", "loaded", "return"}

ASSUME SwitchAssumption ==
  /\ N \in Nat /\ N >= 3
  /\ Depth \in Nat \ {0}
  /\ Windows \subseteq Point \ {"out"}

VARIABLES
  start, end, next,  \* start_of_ready_list, end_of_ready_list, PCB.next
  currentPCB,
  running,           \* the tasks in TASK_STATE_RUNNING
  tos,               \* PCB.tos: how many frames the saved stack has
  stack,             \* the handlers on each task's stack, the innermost last
  rsp,               \* whose stack is in use
  queue              \* the tasks the list should hold (history)

list == <<start, end, next>>
vars == <<list, currentPCB, running, tos, stack, rsp, queue>>

(* A handler: the task it took off the list, and the one it leaves (rdi).  *)
Frame == [at : Point, task : Task \cup {Null}, from : Task \cup {Null}]
Suspended == [at |-> "out", task |-> Null, from |-> Null]

Last(s) == s[Len(s)]
Put(s, f) == [s EXCEPT ![Len(s)] = f]

Top == Last(stack[rsp])
At(p) == stack[rsp] # <<>> /\ Top.at = p

TypeOK ==
  /\ start \in Task \cup {Null} /\ end \in Task
  /\ next \in [Task -> Task \cup {Null}]
  /\ currentPCB \in Task /\ rsp \in Task
  /\ running \subseteq Task
  /\ tos \in [Task -> Nat]
  /\ stack \in [Task -> Seq(Frame)]
  /\ queue \in Seq(Task)

(* process_create has made all tasks but the first, which runs.  A task    *)
(* that has not run yet looks like one that switch_to_task left.           *)
Init ==
  /\ start = 1 /\ end = N - 1
  /\ next = [i \in Task |-> IF i = Main THEN Null ELSE IF i = N - 1 THEN Main ELSE i + 1]
  /\ currentPCB = Main
  /\ running = {Main}
  /\ tos = [i \in Task |-> IF i = Main THEN 0 ELSE 1]
  /\ stack = [i \in Task |-> IF i = Main THEN <<>> ELSE <<Suspended>>]
  /\ rsp = Main
  /\ queue = [k \in 1 .. (N - 1) |-> k]
-----------------------------------------------------------------------------
(* PIT_tick_handler up to the sti of unlock_scheduler.  A task may only be *)
(* kept off the list by a handler that was interrupted while two others    *)
(* wait: the list's last next is not valid, and schedule follows it when   *)
(* one task alone is in the list.                                          *)
Tick ==
  /\ stack[rsp] # <<>> => Top.at \in Windows
  /\ Len(stack[rsp]) < Depth
  /\ At("held") => Len(queue) >= 2
  /\ stack' = [stack EXCEPT ![rsp] =
                 Append(@, [at |-> "enter", task |-> Null, from |-> Null])]
  /\ UNCHANGED <<list, currentPCB, running, tos, rsp, queue>>

(* The innermost handler goes on from p as frame f.                        *)
Goes(p, f) ==
  /\ At(p)
  /\ stack' = [stack EXCEPT ![rsp] = Put(@, f)]

(* if (start_of_ready_list != 0) task = start_of_ready_list; with an empty  *)
(* list the handler returns.                                               *)
Take ==
  /\ Goes("enter", IF start # Null THEN [Top EXCEPT !.at = "taken", !.task = start]
                                   ELSE [Top EXCEPT !.at = "return"])
  /\ UNCHANGED <<list, currentPCB, running, tos, rsp, queue>>

(* start_of_ready_list = start_of_ready_list->next;                        *)
Advance ==
  /\ start # Null
  /\ Goes("taken", [Top EXCEPT !.at = "held"])
  /\ start' = next[start]
  /\ queue' = Tail(queue)
  /\ UNCHANGED <<end, next, currentPCB, running, tos, rsp>>

(* switch_to_task: rdi = currentPCB, [rdi + TOS] = rsp.                    *)
SavedShallow == 1
Saved == Len(stack[rsp])

Save ==
  /\ Goes("held", [Top EXCEPT !.at = "saved", !.from = currentPCB])
  /\ tos' = [tos EXCEPT ![currentPCB] = Saved]
  /\ UNCHANGED <<list, currentPCB, running, rsp, queue>>

(* A task that was running becomes ready and goes to the list's end; one   *)
(* that was not is left out.                                               *)
MarkReady ==
  /\ Goes("saved", [Top EXCEPT !.at = IF Top.from \in running THEN "ready" ELSE "queued"])
  /\ running' = running \ {Top.from}
  /\ UNCHANGED <<list, currentPCB, tos, rsp, queue>>

LinkedFrom == start
Linked == end

LinkLast ==
  /\ Goes("ready", [Top EXCEPT !.at = "linked"])
  /\ next' = [next EXCEPT ![Linked] = Top.from]
  /\ UNCHANGED <<start, end, currentPCB, running, tos, rsp, queue>>

MoveEnd ==
  /\ Goes("linked", [Top EXCEPT !.at = "queued"])
  /\ end' = Top.from
  /\ queue' = Append(queue, Top.from)
  /\ UNCHANGED <<start, next, currentPCB, running, tos, rsp>>

MakeCurrent ==
  /\ Goes("queued", [Top EXCEPT !.at = "current"])
  /\ currentPCB' = Top.task
  /\ UNCHANGED <<list, running, tos, rsp, queue>>

(* rsp = [task + TOS]: the stack that was saved, if it is still there.     *)
Intact(t) ==
  /\ stack[t] # <<>>
  /\ Last(stack[t]).at = "out"
  /\ tos[t] = Len(stack[t])

Load ==
  /\ At("current") /\ Intact(Top.task)
  /\ rsp' = Top.task
  /\ stack' = [stack EXCEPT ![rsp] = Put(@, Suspended),
                            ![Top.task] = Put(@, [at |-> "loaded", task |-> Top.task, from |-> Null])]
  /\ UNCHANGED <<list, currentPCB, running, tos, queue>>

MarkedNone == {}
Marked == {Top.task}

MarkRunning ==
  /\ Goes("loaded", [Top EXCEPT !.at = "return"])
  /\ running' = running \cup Marked
  /\ UNCHANGED <<list, currentPCB, tos, rsp, queue>>

(* ret, and the iret of the handler (or the first instruction of a task).  *)
Return ==
  /\ At("return")
  /\ stack' = [stack EXCEPT ![rsp] = SubSeq(@, 1, Len(@) - 1)]
  /\ UNCHANGED <<list, currentPCB, running, tos, rsp, queue>>

Handle ==
  \/ Take \/ Advance \/ Save \/ MarkReady \/ LinkLast \/ MoveEnd
  \/ MakeCurrent \/ Load \/ MarkRunning \/ Return

Next == Tick \/ Handle

Spec == Init /\ [][Next]_vars

(* The timer goes on ticking, but between two ticks the processor executes *)
(* millions of instructions: a handler that has it again and again, with   *)
(* none nested in it, gets on.                                             *)
FairSpec ==
  /\ Spec
  /\ WF_vars(stack[rsp] = <<>> /\ Tick)
  /\ \A i \in Task, d \in 1 .. Depth :
       SF_vars(rsp = i /\ Len(stack[i]) = d /\ Handle)
-----------------------------------------------------------------------------
InQueue == {queue[k] : k \in DOMAIN queue}

(* Frame k of i's stack keeps t off the list.                              *)
Holds(i, k, t) ==
  /\ k \in DOMAIN stack[i]
  /\ stack[i][k].at \in Holding /\ stack[i][k].task = t

Held == {t \in Task : \E i \in Task : \E k \in DOMAIN stack[i] : Holds(i, k, t)}

(* Once it is the list's end the task that still runs waits, too.          *)
Leaving == At("queued") \/ At("current")

(* The list is the queue, whatever stale next pointers lie behind its end. *)
ListIsQueue ==
  /\ queue # <<>>
  /\ start = queue[1] /\ end = Last(queue)
  /\ \A k \in 1 .. (Len(queue) - 1) : next[queue[k]] = queue[k + 1]

(* No task is lost and none is doubled: each one runs, waits in the list   *)
(* at one place, or is held by one interrupted handler; and the list that  *)
(* the pointers make is the queue it should be.                            *)
EachOnce ==
  /\ ListIsQueue
  /\ \A j, k \in DOMAIN queue : queue[j] = queue[k] => j = k
  /\ \A i \in Task : i \in InQueue \/ i \in Held \/ i = rsp
  /\ Held \cap InQueue = {} /\ rsp \notin Held
  /\ rsp \in InQueue <=> Leaving
  /\ \A t, i, j \in Task : \A k \in DOMAIN stack[i], l \in DOMAIN stack[j] :
       Holds(i, k, t) /\ Holds(j, l, t) => i = j /\ k = l

(* A task goes on where it was left: its stack is as it was when it was    *)
(* saved.                                                                  *)
ContextKept == At("current") => Intact(Top.task)

(* Seen as a queue: what the innermost handler took off the list is still  *)
(* its head until the other task's stack is loaded.                        *)
Waiting ==
  IF ~(\E p \in Holding : At(p)) THEN queue
  ELSE IF Leaving THEN <<Top.task>> \o SubSeq(queue, 1, Len(queue) - 1)
  ELSE <<Top.task>> \o queue

Ideal == INSTANCE RoundRobin WITH First <- Main, current <- rsp, queue <- Waiting

(* No handler but the innermost keeps a task off the list.                 *)
Orderly ==
  \A i \in Task : \A k \in DOMAIN stack[i] :
    stack[i][k].at \in Holding => i = rsp /\ k = Len(stack[i])

(* However ticks nest, as long as none falls between the steps that take a *)
(* task off the list and save the one that leaves, a handler is one        *)
(* rotation of the queue, as if it were atomic.                            *)
RotatesAtOnce ==
  [][Orderly /\ Orderly' => Ideal!Preempt \/ UNCHANGED Ideal!vars]_<<rsp, Waiting>>

(* Every task gets the processor again and again.                          *)
RunsAgain == \A i \in Task : []<>(rsp = i /\ stack[i] = <<>>)
=============================================================================
