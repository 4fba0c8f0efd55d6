----------------------------- MODULE Scheduler -----------------------------
(***************************************************************************)
(* The preemptive scheduler (scheduler.c, task.asm) under the workload the *)
(* source gives it, test_scheduler: task 0 creates processes that print,   *)
(* sleep and terminate, and waits for their count to drop to zero.         *)
(*                                                                         *)
(* One processor: only the current task takes steps, and a timer interrupt *)
(* may arrive between two of its steps when interrupts are enabled.  The   *)
(* interrupt handler is one action, PitTick.  A task's saved context is    *)
(* its program point pc[i]; every task that is not current was interrupted *)
(* there with interrupts enabled, unless it is "fresh" or "raw".           *)
(*                                                                         *)
(* As in Heap, a definition that stands right before another and extends   *)
(* its name is a mistake that no specification uses.                       *)
(***************************************************************************)
EXTENDS Integers, FiniteSetsExt

CONSTANTS
  MAX_TASKS,      \* length of pcbArray
  Creates,        \* calls of process_create that test_scheduler makes
  Finishing,      \* the processes that come to their end (in this run)
  Rounds,         \* rounds they make; the others go on for ever
  SleepTicks,     \* the numbers of timer ticks that Sleep(2000) may last:
                  \* 36 or 37 at 18 Hz, as the sum of 1/18 is rounded
  MAX_TASK_TIME,  \* in ticks
  Horizon,        \* bound of the clock, which stands still from then on
  Calm            \* program points at which a tick arrives only when the
                  \* task has nothing to do but wait for it (in this run)

ASSUME SchedulerAssumption ==
  /\ MAX_TASKS \in Nat \ {0}
  /\ Creates \in Nat \ {0}
  /\ Rounds \in Nat \ {0}
  /\ SleepTicks \subseteq Nat
  /\ MAX_TASK_TIME \in Nat
  /\ Horizon \in Nat

Task == 0 .. (MAX_TASKS - 1)
Null == -1
Main == 0

VARIABLES
  used, state, next, switch_time,   \* the fields of pcbArray
  currentPCB,
  start, end,                       \* start_of_ready_list, end_of_ready_list
  terminated,                       \* terminated_task_list
  is_first,
  IRQ_disable_counter,
  postponed, flag,                  \* postponed_tasks_counter and _flag
  intr,                             \* the processor's interrupt flag
  process_count,
  uptime,                           \* pit_counter, in ticks
  pc, reg, wake, count,             \* per task: program point, register,
                                    \* ticks left to sleep, rounds made
  made, mine                        \* of task 0: processes created, rv

list == <<start, end, terminated, is_first, next>>
pcbs == <<used, state, switch_time, currentPCB>>
locks == <<IRQ_disable_counter, postponed, flag, intr>>
locals == <<reg, count, made, mine>>
clock == <<uptime, wake>>
vars == <<list, pcbs, locks, process_count, clock, pc, locals>>

(* Program points: of task 0, of a process, and of one in terminate_task,  *)
(* where interrupts are off.                                               *)
Creation == {"claim", "first", "link", "advance", "stack"}
Terminating == {"block", "clean", "unlock"}
Point ==
  Creation \cup {"waitstart", "waitend", "sleep", "ended"}
  \cup {"unused", "raw", "fresh", "start", "inc", "print"}
  \cup {"dec", "decstore", "exit"}
  \cup Terminating \cup {"gone", "wild"}

State == {"READY", "RUNNING", "PAUSED", "TERMINATED"}

TypeOK ==
  /\ used \in [Task -> BOOLEAN]
  /\ state \in [Task -> State]
  /\ next \in [Task -> Task \cup {Null}]
  /\ switch_time \in [Task -> 0 .. Horizon]
  /\ currentPCB \in Task
  /\ start \in Task \cup {Null}
  /\ end \in Task
  /\ terminated \in Task \cup {Null}
  /\ is_first \in BOOLEAN
  /\ IRQ_disable_counter \in Nat
  /\ postponed \in Nat
  /\ flag \in BOOLEAN
  /\ intr \in BOOLEAN
  /\ process_count \in Int
  /\ uptime \in 0 .. Horizon
  /\ pc \in [Task -> Point]
  /\ reg \in [Task -> Int]
  /\ wake \in [Task -> Nat]
  /\ count \in [Task -> Nat]
  /\ made \in 0 .. Creates
  /\ mine \in Task \cup {Null}

(* scheduler_init has run; test_scheduler is about to create a process.    *)
Init ==
  /\ used = [i \in Task |-> i = Main]
  /\ state = [i \in Task |-> IF i = Main THEN "RUNNING" ELSE "READY"]
  /\ next = [i \in Task |-> Null]
  /\ switch_time = [i \in Task |-> 0]
  /\ currentPCB = Main
  /\ start = Main
  /\ end = Main
  /\ terminated = Null
  /\ is_first = TRUE
  /\ IRQ_disable_counter = 0
  /\ postponed = 0
  /\ flag = FALSE
  /\ intr = TRUE
  /\ process_count = 0
  /\ uptime = 0
  /\ pc = [i \in Task |-> IF i = Main THEN "claim" ELSE "unused"]
  /\ reg = [i \in Task |-> 0]
  /\ wake = [i \in Task |-> 0]
  /\ count = [i \in Task |-> 0]
  /\ made = 0
  /\ mine = Null
-----------------------------------------------------------------------------
(* switch_to_task stores what lies at [rsp] when PIT_get_counter returns,  *)
(* the saved rbp: an address, as a double, is a denormal next to 0.        *)
SwitchTimeStored == 0

(* A task that has not run yet starts where its stack says; one whose      *)
(* stack has not been written yet jumps anywhere.                          *)
New(t) == pc[t] \in {"raw", "fresh"}
Resumed(t) ==
  CASE pc[t] = "fresh" -> "start"
    [] pc[t] = "raw"   -> "wild"
    [] OTHER           -> pc[t]

(* Interrupts are enabled again when a task that a tick interrupted goes   *)
(* on: its iret restores them.                                             *)
IretEnablesNever(t) == FALSE
IretEnables(t) == ~New(t)

StateSwitchedOnly(c, t, st) == [st EXCEPT ![t] = "RUNNING"]
StateSwitched(c, t, st) ==
  [st EXCEPT ![c] = IF @ = "RUNNING" THEN "READY" ELSE @, ![t] = "RUNNING"]

(* switch_to_task(t) after the fields st and nx and the list end e: the    *)
(* current task goes to the end of the list if it was running.             *)
SwitchTo(t, st, nx, e) ==
  LET c == currentPCB
      requeue == st[c] = "RUNNING"
  IN
  /\ state' = StateSwitched(c, t, st)
  /\ next' = IF requeue THEN [nx EXCEPT ![e] = c] ELSE nx
  /\ end' = IF requeue THEN c ELSE e
  /\ currentPCB' = t
  /\ switch_time' = [switch_time EXCEPT ![t] = SwitchTimeStored]

(* The head of the list is taken off, and run unless it is terminated.     *)
RunnableAll(t, st) == TRUE
Runnable(t, st) == st[t] # "TERMINATED"

Stay(st, nx, s, e) ==
  /\ state' = st
  /\ next' = nx
  /\ start' = s
  /\ end' = e
  /\ UNCHANGED <<currentPCB, switch_time>>

(* schedule() with no task postponed.  idle_task_p is never assigned: no   *)
(* task equals it.                                                         *)
Schedule(st, nx, s, e) ==
  IF s = Null THEN Stay(st, nx, s, e)
  ELSE IF ~Runnable(s, st) THEN Stay(st, nx, nx[s], e)
  ELSE start' = nx[s] /\ SwitchTo(s, st, nx, e)

Switches(st, s) == s # Null /\ Runnable(s, st)
-----------------------------------------------------------------------------
(* The pass of irq_schedule_handler over the tasks: those whose time is up *)
(* are paused, paused ones whose time is not go back to the ready list.    *)
Elapsed(i) == uptime' - switch_time[i]

Passed(i) == i # Main /\ used[i] /\ state[i] # "TERMINATED"

Expired == {i \in Task : Passed(i) /\ Elapsed(i) >= MAX_TASK_TIME}

Revived == {i \in Task : Passed(i) /\ Elapsed(i) < MAX_TASK_TIME
                                   /\ state[i] = "PAUSED"}

StateAfterPass ==
  [i \in Task |-> IF i \in Expired THEN "PAUSED"
                  ELSE IF i \in Revived THEN "READY" ELSE state[i]]

(* add_ready_process for all of R in order, which links each behind the    *)
(* first task of the list and makes the last one its end.                  *)
StartAfter(R) == IF R # {} /\ start = Null THEN Min(R) ELSE start
EndAfter(R) == IF R # {} THEN Max(R) ELSE end
NextAfter(R) ==
  IF R # {} /\ ~(start = Null /\ Min(R) = Max(R))
  THEN [next EXCEPT ![StartAfter(R)] = Max(R)]
  ELSE next

(* The current task waits for the timer.                                   *)
Idle ==
  \/ pc[currentPCB] = "sleep" /\ wake[currentPCB] > 0
  \/ pc[currentPCB] = "waitstart" /\ process_count = 0
  \/ pc[currentPCB] = "ended"

(* PIT_tick_handler, up to the iret of the task that runs next.            *)
PitTick ==
  /\ intr
  /\ pc[currentPCB] # "wild"
  /\ Idle \/ pc[currentPCB] \notin Calm
  /\ uptime' = IF uptime < Horizon THEN uptime + 1 ELSE uptime
  /\ wake' = [i \in Task |-> IF wake[i] > 0 THEN wake[i] - 1 ELSE 0]
  /\ LET st == StateAfterPass
         nx == NextAfter(Revived)
         s == StartAfter(Revived)
         e == EndAfter(Revived)
     IN IF postponed # 0
        THEN flag' = TRUE /\ Stay(st, nx, s, e)
        ELSE UNCHANGED flag /\ Schedule(st, nx, s, e)
  /\ pc' = [pc EXCEPT ![currentPCB'] = Resumed(currentPCB')]
  /\ intr' = (IRQ_disable_counter = 0 \/ IretEnables(currentPCB'))
  /\ UNCHANGED <<used, terminated, is_first, IRQ_disable_counter, postponed,
                 process_count, locals>>
-----------------------------------------------------------------------------
(* The current task is at program point p and goes on at q.                *)
Moves(p, q) ==
  /\ pc[currentPCB] = p
  /\ pc' = [pc EXCEPT ![currentPCB] = q]

(* pcb_alloc, first half: the first PCB not in use is filled in.           *)
UnusedIfReady == {i \in Task : state[i] = "READY"}
Unused == {i \in Task : ~used[i]}

Claim ==
  \E i \in Unused :
    /\ \A j \in Unused : i <= j
    /\ pc[currentPCB] = "claim"
    /\ pc' = [pc EXCEPT ![currentPCB] = "first", ![i] = "raw"]
    /\ used' = [used EXCEPT ![i] = TRUE]
    /\ switch_time' = [switch_time EXCEPT ![i] = 0]
    /\ next' = [next EXCEPT ![i] = Main]
    /\ state' = [state EXCEPT ![i] = "READY"]
    /\ count' = [count EXCEPT ![i] = 0]
    /\ mine' = i
    /\ UNCHANGED <<currentPCB, start, end, terminated, is_first, locks,
                   process_count, clock, reg, made>>

AfterCreate == IF made + 1 = Creates THEN "waitstart" ELSE "claim"

(* No PCB is left: process_create returns 0, which its caller ignores.     *)
ClaimFail ==
  /\ Unused = {}
  /\ Moves("claim", AfterCreate)
  /\ made' = made + 1
  /\ UNCHANGED <<list, pcbs, locks, process_count, clock, reg, count, mine>>

(* The first process replaces the creator as the list's only member.       *)
First ==
  /\ Moves("first", "link")
  /\ IF is_first
     THEN start' = mine /\ end' = mine /\ is_first' = FALSE
     ELSE UNCHANGED <<start, end, is_first>>
  /\ UNCHANGED <<next, terminated, pcbs, locks, process_count, clock, locals>>

LinkAtStart == start
LinkAt == end

Link ==
  /\ Moves("link", "advance")
  /\ next' = [next EXCEPT ![LinkAt] = mine]
  /\ UNCHANGED <<start, end, terminated, is_first, pcbs, locks,
                 process_count, clock, locals>>

Advance ==
  /\ Moves("advance", "stack")
  /\ end' = mine
  /\ UNCHANGED <<start, next, terminated, is_first, pcbs, locks,
                 process_count, clock, locals>>

(* process_create writes the first stack frame and stores its top.         *)
Stack ==
  /\ pc[currentPCB] = "stack"
  /\ pc' = [pc EXCEPT ![currentPCB] = AfterCreate,
                      ![mine] = IF @ = "raw" THEN "fresh" ELSE @]
  /\ made' = made + 1
  /\ mine' = Null
  /\ UNCHANGED <<list, pcbs, locks, process_count, clock, reg, count>>

(* while (process_count == 0);                                             *)
WaitStart ==
  /\ process_count # 0
  /\ Moves("waitstart", "waitend")
  /\ UNCHANGED <<list, pcbs, locks, process_count, clock, locals>>

Sleep == \E d \in SleepTicks : wake' = [wake EXCEPT ![currentPCB] = d]

(* while (process_count > 0) Sleep(2000);                                  *)
WaitEnd ==
  /\ process_count > 0
  /\ Moves("waitend", "sleep")
  /\ Sleep
  /\ UNCHANGED <<list, pcbs, locks, process_count, uptime, locals>>

(* puts("Test ended\n");                                                   *)
End ==
  /\ process_count <= 0
  /\ Moves("waitend", "ended")
  /\ UNCHANGED <<list, pcbs, locks, process_count, clock, locals>>

MainAwake ==
  /\ currentPCB = Main
  /\ wake[Main] = 0
  /\ Moves("sleep", "waitend")
  /\ UNCHANGED <<list, pcbs, locks, process_count, clock, locals>>
-----------------------------------------------------------------------------
(* Process: process_count++ is a load and a store.                         *)
LoadInc ==
  /\ Moves("start", "inc")
  /\ reg' = [reg EXCEPT ![currentPCB] = process_count]
  /\ UNCHANGED <<list, pcbs, locks, process_count, clock, count, made, mine>>

StoreInc ==
  /\ Moves("inc", "print")
  /\ process_count' = reg[currentPCB] + 1
  /\ UNCHANGED <<list, pcbs, locks, clock, locals>>

(* putc(ch); Sleep(2000);                                                  *)
PrintChar ==
  /\ Moves("print", "sleep")
  /\ Sleep
  /\ UNCHANGED <<list, pcbs, locks, process_count, uptime, locals>>

(* if (count++ >= 10)                                                      *)
LastRound == currentPCB \in Finishing /\ count[currentPCB] + 1 = Rounds

AfterSleep == IF LastRound THEN "dec" ELSE "print"

ProcessAwake ==
  /\ currentPCB # Main
  /\ wake[currentPCB] = 0
  /\ Moves("sleep", AfterSleep)
  /\ count' = [count EXCEPT ![currentPCB] = IF currentPCB \in Finishing THEN @ + 1 ELSE 0]
  /\ UNCHANGED <<list, pcbs, locks, process_count, clock, reg, made, mine>>

LoadDec ==
  /\ Moves("dec", "decstore")
  /\ reg' = [reg EXCEPT ![currentPCB] = process_count]
  /\ UNCHANGED <<list, pcbs, locks, process_count, clock, count, made, mine>>

StoreDec ==
  /\ Moves("decstore", "exit")
  /\ process_count' = reg[currentPCB] - 1
  /\ UNCHANGED <<list, pcbs, locks, clock, locals>>

(* The locks terminate_task holds from now on: lock_task, and              *)
(* lock_scheduler with its unlock_scheduler.                               *)
TerminateLocksNoCli ==
  /\ UNCHANGED intr
  /\ IRQ_disable_counter' = IRQ_disable_counter + 1
  /\ postponed' = postponed + 1
TerminateLocks ==
  /\ intr' = FALSE
  /\ IRQ_disable_counter' = IRQ_disable_counter + 1
  /\ postponed' = postponed + 1

(* terminate_task: under the locks the task goes to the front of the       *)
(* terminated list.                                                        *)
Terminate ==
  /\ Moves("exit", "block")
  /\ TerminateLocks
  /\ next' = [next EXCEPT ![currentPCB] = terminated]
  /\ terminated' = currentPCB
  /\ UNCHANGED <<start, end, is_first, pcbs, flag, process_count, clock,
                 locals>>

(* block_task(TASK_STATE_TERMINATED): its schedule() finds tasks postponed *)
(* and raises the flag, its unlock_scheduler gives back only its own lock. *)
Block ==
  /\ Moves("block", "clean")
  /\ state' = [state EXCEPT ![currentPCB] = "TERMINATED"]
  /\ flag' = TRUE
  /\ UNCHANGED <<list, used, switch_time, currentPCB, IRQ_disable_counter,
                 postponed, intr, process_count, clock, locals>>

(* tasks_cleaner, one iteration, and its end.  Its lock_task and           *)
(* unlock_task nest in terminate_task's: they change nothing for good.     *)
Clean ==
  /\ pc[currentPCB] = "clean"
  /\ terminated # Null
  /\ used' = [used EXCEPT ![terminated] = FALSE]
  /\ terminated' = next[terminated]
  /\ UNCHANGED <<start, end, is_first, next, state, switch_time, currentPCB,
                 locks, process_count, clock, pc, locals>>

CleanDone ==
  /\ terminated = Null
  /\ Moves("clean", "unlock")
  /\ UNCHANGED <<list, pcbs, locks, process_count, clock, locals>>

(* The postponed schedule() of the last unlock_task.  When it switches, it *)
(* never returns: IRQ_disable_counter keeps what unlock_task would have    *)
(* taken off, and interrupts are as the task that goes on left them.       *)
UnlockSwitch ==
  /\ pc[currentPCB] = "unlock"
  /\ postponed = 1 /\ flag
  /\ Switches(state, start)
  /\ postponed' = 0
  /\ flag' = FALSE
  /\ Schedule(state, next, start, end)
  /\ pc' = [pc EXCEPT ![currentPCB] = "gone", ![start] = Resumed(start)]
  /\ intr' = IretEnables(start)
  /\ UNCHANGED <<used, terminated, is_first, IRQ_disable_counter,
                 process_count, clock, locals>>

(* When it finds nothing to run, terminate_task returns; so does Process,  *)
(* into process_startup, which returns to whatever lies above the stack.   *)
UnlockReturn ==
  /\ pc[currentPCB] = "unlock"
  /\ postponed = 1 /\ flag
  /\ ~Switches(state, start)
  /\ postponed' = 0
  /\ flag' = FALSE
  /\ Schedule(state, next, start, end)
  /\ IRQ_disable_counter' = IRQ_disable_counter - 1
  /\ intr' = (IRQ_disable_counter' = 0)
  /\ pc' = [pc EXCEPT ![currentPCB] = "wild"]
  /\ UNCHANGED <<used, terminated, is_first, process_count, clock, locals>>

Creating == Claim \/ ClaimFail \/ First \/ Link \/ Advance \/ Stack

TaskStep ==
  \/ Creating
  \/ WaitStart \/ WaitEnd \/ End \/ MainAwake
  \/ LoadInc \/ StoreInc \/ PrintChar \/ ProcessAwake
  \/ LoadDec \/ StoreDec
  \/ Terminate \/ Block \/ Clean \/ CleanDone \/ UnlockSwitch \/ UnlockReturn

Next == PitTick \/ TaskStep

Spec == Init /\ [][Next]_vars

(* The timer goes on ticking while interrupts are enabled, and between two *)
(* ticks the processor executes millions of instructions of the task that  *)
(* is current: a task that is current again and again takes its step.      *)
FairSpec ==
  /\ Spec
  /\ WF_vars(PitTick)
  /\ \A i \in Task : SF_vars(currentPCB = i /\ TaskStep)
-----------------------------------------------------------------------------
(* Before the first PCB is claimed for another task the list holds the     *)
(* creator itself.  From then on it is the chain from start to end.        *)
Hop[k \in 0 .. MAX_TASKS] ==
  IF k = 0 THEN start
  ELSE IF Hop[k - 1] = Null THEN Null ELSE next[Hop[k - 1]]

ReadyQueue ==
  LET at == {k \in 0 .. MAX_TASKS : Hop[k] = end} IN
  IF is_first \/ at = {} THEN <<>>
  ELSE [k \in 1 .. (Min(at) + 1) |-> Hop[k - 1]]

Ideal == INSTANCE RoundRobin WITH
           Task <- Task, First <- Main,
           current <- currentPCB, queue <- ReadyQueue

(* As long as at least three tasks are left, the linked list with its      *)
(* stale next pointers is a queue: no task is skipped, doubled or lost.    *)
IsRoundRobin == Ideal!Spec

(* Only the current task is in state RUNNING, and it is while its code     *)
(* runs: Process never prints the lower-case letter.  (Until time expires, *)
(* which pauses the current task, too.)                                    *)
RunningIsCurrent ==
  /\ \A i \in Task : state[i] = "RUNNING" => i = currentPCB
  /\ uptime < MAX_TASK_TIME /\ pc[currentPCB] \notin Terminating \cup {"wild"} =>
       state[currentPCB] = "RUNNING"

(* The lock counters: a task inside terminate_task holds one of each, and  *)
(* every task that switched away for good leaves one IRQ lock behind.      *)
LocksAccounted ==
  /\ IRQ_disable_counter =
       Cardinality({i \in Task : pc[i] \in Terminating \cup {"gone"}})
  /\ postponed = Cardinality({i \in Task : pc[i] \in Terminating})
  /\ postponed > 0 => ~intr /\ pc[currentPCB] \in Terminating

(* Whatever the ticks do, only the current task is inside terminate_task,  *)
(* it holds exactly one postponement with interrupts off, and a postponed  *)
(* schedule() is pending only until that task leaves the section.          *)
LocksHeld ==
  /\ \A i \in Task : pc[i] \in Terminating => i = currentPCB
  /\ postponed = IF pc[currentPCB] \in Terminating THEN 1 ELSE 0
  /\ IRQ_disable_counter >= postponed
  /\ flag <=> pc[currentPCB] \in {"clean", "unlock"}
  /\ postponed > 0 => ~intr

(* The leaked locks never reach a sleeping task: hlt waits for the timer   *)
(* with interrupts enabled.                                                *)
SleepersHearTimer == pc[currentPCB] = "sleep" => intr

(* A PCB is given back while its task still runs on it, which nobody can   *)
(* notice: the task is current, and interrupts are off until it is gone.   *)
FreedBeforeGone ==
  /\ \A i \in Task :
       ~used[i] => \/ pc[i] \in {"unused", "gone", "wild"}
                   \/ pc[i] \in {"clean", "unlock"} /\ i = currentPCB /\ ~intr
  /\ terminated # Null =>
       /\ terminated = currentPCB
       /\ next[terminated] = Null
       /\ pc[terminated] \in {"block", "clean"}

(* Terminated PCBs stay linked in the ready list; schedule never runs one. *)
GoneStaysGone ==
  [][\A i \in Task : pc[i] = "gone" => currentPCB' # i]_vars

(* pcb_alloc takes a PCB over only from a task that will never run again.  *)
ReusedOnlyGone ==
  [][\A i \in Task : pc[i] # "raw" /\ pc'[i] = "raw" =>
                    pc[i] \in {"unused", "gone"}]_vars

(* A task is paused only when the time since it was switched to is up.     *)
PausedOnlyLate ==
  \A i \in Task : state[i] = "PAUSED" => uptime - switch_time[i] >= MAX_TASK_TIME

(* What makes those hold from one step to the next.  A task is current     *)
(* only once it has started; one that is gone is TERMINATED, which keeps   *)
(* schedule away from it; the lists hold claimed PCBs only; only task 0    *)
(* creates.                                                                *)
Started ==
  \A i \in Task :
    /\ pc[i] \in {"unused", "gone", "raw", "fresh"} => i # currentPCB
    /\ pc[i] = "wild" => i = currentPCB
    /\ pc[i] = "gone" => state[i] = "TERMINATED"
    /\ pc[i] \in {"clean", "unlock"} => state[i] = "TERMINATED"

Known(t) == t = Null \/ pc[t] # "unused"

Linked ==
  /\ Known(start) /\ Known(end) /\ Known(mine)
  /\ \A i \in Task : Known(next[i])

Creator ==
  /\ \A i \in Task : pc[i] \in Creation => i = Main
  /\ pc[Main] \in Creation => made < Creates
  /\ pc[Main] \in Creation \ {"claim"} => mine \in Task

(* The inductive invariant.                                                *)
IInv ==
  /\ TypeOK
  /\ RunningIsCurrent
  /\ LocksHeld
  /\ FreedBeforeGone
  /\ PausedOnlyLate
  /\ Started
  /\ Linked
  /\ Creator

(* process_count counts the processes between their increment and their    *)
(* decrement, when no tick splits either.                                  *)
CountExact ==
  process_count =
    Cardinality({i \in Task \ {Main} : pc[i] \in {"print", "sleep", "dec", "decstore"}})

(* Every process that was created gets to run.                             *)
CreatedRuns == \A i \in Task : pc[i] = "fresh" ~> pc[i] # "fresh"

(* test_scheduler: when the processes are done, "Test ended" is printed.   *)
TestEnds == <>(pc[Main] = "ended")

(* "Test ended" is printed only when every process has ended.              *)
EndsWhenDone ==
  pc[Main] = "ended" =>
    \A i \in Task \ {Main} : pc[i] \in {"unused", "exit", "gone", "wild"} \cup Terminating

(* Round robin: a process that has not terminated runs again and again.    *)
KeepsRunning ==
  \A i \in Task : []<>(currentPCB = i \/ pc[i] \in {"unused", "gone", "wild"})

(* The time at which a task is switched to is recorded in its PCB.         *)
SwitchTimeRecorded ==
  [][currentPCB' # currentPCB => switch_time'[currentPCB'] = uptime']_vars

(* A process starts at its entry point.                                    *)
StartsAtEntry == \A i \in Task : pc[i] = "wild" => count[i] > 0
=============================================================================
