-------------------------- MODULE SchedulerProofs --------------------------
(***************************************************************************)
(* Proofs about the scheduler for every number of tasks and processes,     *)
(* every timing and wherever ticks arrive: IInv is inductive, and a task   *)
(* that has terminated never becomes current again.  Then the linked list  *)
(* of ready tasks is shown to implement the queue of RoundRobin, and       *)
(* process_count and the IRQ lock counter to be what they count.           *)
(***************************************************************************)
EXTENDS Scheduler, Sequences, FiniteSetTheorems, WellFoundedInduction, TLAPS

LEMMA InitInv == Init => IInv
<1> SUFFICES ASSUME Init PROVE IInv
  OBVIOUS
<1> USE SchedulerAssumption DEF Init
<1>1. Main \in Task /\ Main # Null
  BY DEF Main, Task, Null
<1>2. TypeOK
  <2>1. /\ used \in [Task -> BOOLEAN] /\ state \in [Task -> State]
        /\ next \in [Task -> Task \cup {Null}]
        /\ switch_time \in [Task -> 0 .. Horizon]
    BY <1>1 DEF State
  <2>2. pc \in [Task -> Point]
    BY DEF Point, Creation
  <2>3. /\ reg \in [Task -> Int] /\ wake \in [Task -> Nat]
        /\ count \in [Task -> Nat]
    OBVIOUS
  <2>4. /\ is_first \in BOOLEAN /\ flag \in BOOLEAN /\ intr \in BOOLEAN
    OBVIOUS
  <2>5. /\ currentPCB \in Task /\ start \in Task /\ end \in Task
        /\ terminated = Null /\ mine = Null
    BY <1>1
  <2>6. /\ IRQ_disable_counter \in Nat /\ postponed \in Nat
        /\ process_count \in Int
        /\ uptime \in 0 .. Horizon /\ made \in 0 .. Creates
    OBVIOUS
  <2>7. QED
    BY <2>1, <2>2, <2>3, <2>4, <2>5, <2>6 DEF TypeOK
<1>3. RunningIsCurrent /\ PausedOnlyLate
  BY <1>1 DEF RunningIsCurrent, PausedOnlyLate
<1>4. pc[Main] = "claim" /\ \A i \in Task : pc[i] \notin Terminating
  BY <1>1 DEF Terminating
<1>5. LocksHeld
  BY <1>1, <1>4 DEF LocksHeld
<1>6. FreedBeforeGone
  BY <1>1 DEF FreedBeforeGone
<1>7. Started /\ Creator /\ Linked
  BY <1>1 DEF Started, Creator, Creation, Linked, Known
<1>8. QED
  BY <1>2, <1>3, <1>5, <1>6, <1>7 DEF IInv

(* What schedule() does to the PCBs, whichever way it goes.                *)
LEMMA ScheduleFacts ==
  ASSUME TypeOK,
         NEW st \in [Task -> State], NEW nx \in [Task -> Task \cup {Null}],
         NEW s \in Task \cup {Null}, NEW e \in Task,
         Schedule(st, nx, s, e)
  PROVE  /\ state' \in [Task -> State]
         /\ next' \in [Task -> Task \cup {Null}]
         /\ switch_time' \in [Task -> 0 .. Horizon]
         /\ currentPCB' \in Task
         /\ start' \in Task \cup {Null}
         /\ end' \in Task
         /\ \/ /\ ~Switches(st, s)
               /\ currentPCB' = currentPCB
               /\ state' = st
               /\ switch_time' = switch_time
            \/ /\ Switches(st, s)
               /\ currentPCB' = s
               /\ st[s] # "TERMINATED"
               /\ state'[s] = "RUNNING"
               /\ \A i \in Task : i # s =>
                    /\ i # currentPCB => state'[i] = st[i]
                    /\ i = currentPCB =>
                         state'[i] = IF st[i] = "RUNNING" THEN "READY" ELSE st[i]
                    /\ switch_time'[i] = switch_time[i]
<1> USE SchedulerAssumption
<1>1. CASE ~Switches(st, s)
  BY <1>1 DEF TypeOK, Schedule, Switches, Stay, Runnable
<1>2. CASE Switches(st, s)
  <2>1. s \in Task /\ start' = nx[s] /\ SwitchTo(s, st, nx, e)
        /\ st[s] # "TERMINATED"
    BY <1>2 DEF Schedule, Switches, Runnable
  <2>2. state' \in [Task -> State]
    BY <2>1 DEF SwitchTo, StateSwitched, TypeOK, State
  <2>3. next' \in [Task -> Task \cup {Null}] /\ end' \in Task
        /\ start' \in Task \cup {Null} /\ currentPCB' = s
    BY <2>1 DEF SwitchTo, TypeOK
  <2>4. switch_time' \in [Task -> 0 .. Horizon]
        /\ \A i \in Task : i # s => switch_time'[i] = switch_time[i]
    BY <2>1 DEF SwitchTo, SwitchTimeStored, TypeOK
  <2>5. /\ state'[s] = "RUNNING"
        /\ \A i \in Task : i # s =>
             /\ i # currentPCB => state'[i] = st[i]
             /\ i = currentPCB =>
                  state'[i] = IF st[i] = "RUNNING" THEN "READY" ELSE st[i]
    BY <2>1 DEF SwitchTo, StateSwitched, TypeOK
  <2>6. QED
    BY <1>2, <2>1, <2>2, <2>3, <2>4, <2>5
<1>3. QED
  BY <1>1, <1>2
(* Where the lists lead afterwards: to what they led to before, or to the  *)
(* task that was current.                                                  *)
LEMMA ScheduleLinks ==
  ASSUME TypeOK,
         NEW st \in [Task -> State], NEW nx \in [Task -> Task \cup {Null}],
         NEW s \in Task \cup {Null}, NEW e \in Task,
         Schedule(st, nx, s, e)
  PROVE  /\ start' = s \/ (s \in Task /\ start' = nx[s])
         /\ end' \in {e, currentPCB}
         /\ currentPCB' \in {s, currentPCB}
         /\ \A i \in Task : next'[i] \in {nx[i], currentPCB}
<1>1. CASE ~Switches(st, s)
  BY <1>1 DEF Schedule, Switches, Stay, Runnable
<1>2. CASE Switches(st, s)
  <2>1. s \in Task /\ start' = nx[s] /\ SwitchTo(s, st, nx, e)
    BY <1>2 DEF Schedule, Switches
  <2>2. QED
    BY <2>1 DEF SwitchTo
<1>3. QED
  BY <1>1, <1>2
-----------------------------------------------------------------------------
(* No tick ever finds a paused task whose time is not up: the clock does   *)
(* not run backwards and only a switch resets a task's time.               *)
LEMMA PassFacts ==
  ASSUME IInv, PitTick
  PROVE  /\ uptime' \in 0 .. Horizon /\ uptime' >= uptime
         /\ Revived = {}
         /\ StateAfterPass \in [Task -> State]
         /\ \A i \in Task :
              \/ StateAfterPass[i] = state[i]
              \/ /\ StateAfterPass[i] = "PAUSED"
                 /\ state[i] # "TERMINATED"
                 /\ uptime' - switch_time[i] >= MAX_TASK_TIME
<1> USE SchedulerAssumption
<1>1. uptime' \in 0 .. Horizon /\ uptime' >= uptime
  BY DEF IInv, TypeOK, PitTick
<1>2. Revived = {}
  BY <1>1 DEF IInv, TypeOK, PausedOnlyLate, Revived, Elapsed, Passed
<1>3. StateAfterPass \in [Task -> State]
  BY DEF IInv, TypeOK, StateAfterPass, State
<1>4. \A i \in Task :
        \/ StateAfterPass[i] = state[i]
        \/ /\ StateAfterPass[i] = "PAUSED"
           /\ state[i] # "TERMINATED"
           /\ uptime' - switch_time[i] >= MAX_TASK_TIME
  BY <1>2 DEF StateAfterPass, Expired, Passed, Elapsed
<1>5. QED
  BY <1>1, <1>2, <1>3, <1>4

LEMMA PitTickInv ==
  ASSUME IInv, PitTick
  PROVE  IInv'
<1> DEFINE st == StateAfterPass
<1> USE SchedulerAssumption
<1>1. /\ currentPCB \in Task /\ intr /\ postponed = 0 /\ terminated = Null
      /\ pc[currentPCB] \notin Terminating \cup {"wild"}
  <2>1. currentPCB \in Task /\ intr /\ pc[currentPCB] # "wild"
    BY DEF PitTick, IInv, TypeOK
  <2>2. postponed = 0 /\ pc[currentPCB] \notin Terminating
    BY <2>1 DEF IInv, LocksHeld
  <2>3. terminated = Null
    BY <2>2 DEF IInv, FreedBeforeGone, Terminating
  <2>4. QED
    BY <2>1, <2>2, <2>3
<1>2. Schedule(st, next, start, end)
  BY <1>1, PassFacts DEF PitTick, StartAfter, EndAfter, NextAfter
<1>3. /\ UNCHANGED <<used, terminated, is_first, IRQ_disable_counter, postponed,
                    flag, process_count, reg, count, made, mine>>
      /\ wake' \in [Task -> Nat]
      /\ intr' \in BOOLEAN
      /\ pc' = [pc EXCEPT ![currentPCB'] = Resumed(currentPCB')]
  BY <1>1 DEF PitTick, locals, IInv, TypeOK
<1> HIDE DEF st
<1>4. /\ state' \in [Task -> State]
      /\ next' \in [Task -> Task \cup {Null}]
      /\ switch_time' \in [Task -> 0 .. Horizon]
      /\ currentPCB' \in Task
      /\ start' \in Task \cup {Null}
      /\ end' \in Task
      /\ currentPCB' # currentPCB => st[currentPCB'] # "TERMINATED"
      /\ \/ /\ currentPCB' = currentPCB
            /\ state' = st
            /\ switch_time' = switch_time
         \/ /\ state'[currentPCB'] = "RUNNING"
            /\ \A i \in Task : i # currentPCB' =>
                 /\ i # currentPCB => state'[i] = st[i]
                 /\ i = currentPCB =>
                      state'[i] = IF st[i] = "RUNNING" THEN "READY" ELSE st[i]
                 /\ switch_time'[i] = switch_time[i]
  <2>1. st \in [Task -> State]
    BY PassFacts DEF st
  <2>2. /\ TypeOK /\ next \in [Task -> Task \cup {Null}]
        /\ start \in Task \cup {Null} /\ end \in Task
    BY DEF IInv, TypeOK
  <2>3. QED
    BY <1>2, <2>1, <2>2, ScheduleFacts
<1>5. /\ \A i \in Task : i # currentPCB' => pc'[i] = pc[i]
      /\ pc'[currentPCB'] = Resumed(currentPCB')
      /\ pc' \in [Task -> Point]
  BY <1>3, <1>4 DEF IInv, TypeOK, Resumed, Point
<1>6. \A i \in Task : \/ st[i] = state[i]
                     \/ /\ st[i] = "PAUSED" /\ state[i] # "TERMINATED"
                        /\ uptime' - switch_time[i] >= MAX_TASK_TIME
  BY PassFacts DEF st
<1>7. /\ Known(currentPCB) /\ Known(currentPCB') /\ Known(start') /\ Known(end')
      /\ \A i \in Task : Known(next'[i])
  <2>1. Known(currentPCB)
    BY <1>1 DEF IInv, Started, Known
  <2>2. /\ start' = start \/ (start \in Task /\ start' = next[start])
        /\ end' \in {end, currentPCB}
        /\ currentPCB' \in {start, currentPCB}
        /\ \A i \in Task : next'[i] \in {next[i], currentPCB}
    <3>1. /\ TypeOK /\ next \in [Task -> Task \cup {Null}]
          /\ start \in Task \cup {Null} /\ end \in Task
      BY DEF IInv, TypeOK
    <3>2. st \in [Task -> State]
      BY PassFacts DEF st
    <3>3. QED
      BY <1>2, <3>1, <3>2, ScheduleLinks
  <2>3. QED
    BY <2>1, <2>2 DEF IInv, Linked
<1>8. pc[currentPCB'] \notin Terminating \cup {"unused", "gone", "wild"}
  <2>1. CASE currentPCB' = currentPCB
    BY <1>1, <2>1 DEF IInv, Started
  <2>2. CASE currentPCB' # currentPCB
    <3>1. state[currentPCB'] # "TERMINATED"
      BY <1>4, <1>6, <2>2
    <3>2. pc[currentPCB'] \notin {"gone", "wild"} \cup Terminating
      BY <1>4, <2>2, <3>1 DEF IInv, Started, LocksHeld
    <3>3. currentPCB' # Null
      BY <1>4 DEF Task, Null
    <3>4. QED
      BY <1>7, <3>2, <3>3 DEF Known
  <2>3. QED
    BY <2>1, <2>2
(* The task that goes on is at a point of its own code, or jumps wild.     *)
<1>9. /\ pc'[currentPCB'] \notin Terminating \cup {"unused", "gone", "raw", "fresh"}
      /\ pc'[currentPCB'] \in Creation => pc'[currentPCB'] = pc[currentPCB']
  BY <1>5, <1>8 DEF Resumed, Terminating, Creation
<1>10. TypeOK'
  BY <1>3, <1>4, <1>5, PassFacts DEF IInv, TypeOK
<1>11. RunningIsCurrent'
  <2>1. \A i \in Task : state'[i] = "RUNNING" => i = currentPCB'
    BY <1>4, <1>6 DEF IInv, RunningIsCurrent
  <2>2. ASSUME uptime' < MAX_TASK_TIME, pc'[currentPCB'] \notin Terminating \cup {"wild"}
        PROVE  state'[currentPCB'] = "RUNNING"
    <3>1. CASE currentPCB' = currentPCB /\ state' = st
      <4>1. state[currentPCB] = "RUNNING"
        BY <1>1, <2>2, PassFacts DEF IInv, RunningIsCurrent, TypeOK
      <4>2. switch_time[currentPCB] >= 0 /\ switch_time[currentPCB] \in Int
        BY <1>1 DEF IInv, TypeOK
      <4>3. st[currentPCB] = state[currentPCB]
        BY <1>1, <1>6, <2>2, <4>2, PassFacts
      <4>4. QED
        BY <3>1, <4>1, <4>3
    <3>2. QED
      BY <1>4, <3>1
  <2>3. QED
    BY <2>1, <2>2 DEF RunningIsCurrent
<1>12. LocksHeld'
  <2>1. \A i \in Task : pc'[i] \notin Terminating
    BY <1>1, <1>5, <1>9 DEF IInv, LocksHeld
  <2>2. ~flag
    BY <1>1 DEF IInv, LocksHeld, Terminating
  <2>3. IRQ_disable_counter >= 0
    BY <1>1 DEF IInv, LocksHeld
  <2>4. pc'[currentPCB'] \notin {"clean", "unlock"}
    BY <1>4, <2>1 DEF Terminating
  <2>5. QED
    BY <1>1, <1>3, <1>4, <2>1, <2>2, <2>3, <2>4 DEF LocksHeld
<1>13. FreedBeforeGone'
  <2>1. \A i \in Task : ~used[i] => pc[i] \in {"unused", "gone", "wild"}
    BY <1>1 DEF IInv, FreedBeforeGone
  <2>2. \A i \in Task : ~used'[i] => pc'[i] \in {"unused", "gone", "wild"}
    BY <1>3, <1>5, <1>8, <2>1
  <2>3. QED
    BY <1>1, <1>3, <2>2 DEF FreedBeforeGone
<1>14. PausedOnlyLate'
  <2>1. ASSUME NEW i \in Task, state'[i] = "PAUSED"
        PROVE  uptime' - switch_time'[i] >= MAX_TASK_TIME
    <3>1. st[i] = "PAUSED" /\ switch_time'[i] = switch_time[i]
      BY <1>4, <2>1
    <3>2. switch_time[i] \in Int /\ uptime \in Int
      BY DEF IInv, TypeOK
    <3>3. QED
      BY <1>6, <3>1, <3>2, PassFacts DEF IInv, PausedOnlyLate
  <2>2. QED
    BY <2>1 DEF PausedOnlyLate
<1>15. Started'
  <2>1. \A i \in Task : i # currentPCB' => pc'[i] = pc[i] /\ pc[i] # "wild"
    BY <1>1, <1>5 DEF IInv, Started
  <2>2. \A i \in Task : pc[i] = "gone" => state'[i] = "TERMINATED"
    BY <1>1, <1>4, <1>6, <1>8 DEF IInv, Started
  <2>3. \A i \in Task : pc'[i] \notin {"clean", "unlock"}
    BY <1>1, <1>5, <1>9 DEF IInv, LocksHeld, Terminating
  <2>4. QED
    BY <1>9, <2>1, <2>2, <2>3 DEF Started
<1>16. Linked'
  <2>1. \A i \in Task : pc[i] # "unused" => pc'[i] # "unused"
    BY <1>5, <1>9
  <2>2. mine' = mine /\ Known(mine) /\ mine \in Task \cup {Null}
    BY <1>3 DEF IInv, Linked, TypeOK
  <2>3. QED
    BY <1>4, <1>7, <2>1, <2>2 DEF Linked, Known
<1>17. Creator'
  <2>1. \A i \in Task : pc'[i] \in Creation => pc'[i] = pc[i]
    BY <1>5, <1>9
  <2>2. Main \in Task
    BY DEF Main, Task
  <2>3. QED
    BY <1>3, <2>1, <2>2 DEF IInv, Creator
<1>18. QED
  BY <1>10, <1>11, <1>12, <1>13, <1>14, <1>15, <1>16, <1>17 DEF IInv
-----------------------------------------------------------------------------
(* Points in a task's ordinary code, outside creation and termination.     *)
Plain == {"waitstart", "waitend", "sleep", "ended", "start", "inc", "print",
          "dec", "decstore", "exit"}

(* A step there, which moves one task and touches no scheduler state.      *)
LEMMA PlainMoveInv ==
  ASSUME IInv, NEW p \in Plain, NEW q \in Plain, Moves(p, q),
         UNCHANGED <<list, pcbs, locks, uptime, made, mine>>,
         process_count' \in Int, reg' \in [Task -> Int],
         wake' \in [Task -> Nat], count' \in [Task -> Nat]
  PROVE  IInv'
<1> USE SchedulerAssumption DEF list, pcbs, locks
<1>1. currentPCB \in Task /\ pc[currentPCB] = p
  BY DEF IInv, TypeOK, Moves
<1>2. /\ pc' = [pc EXCEPT ![currentPCB] = q]
      /\ pc'[currentPCB] = q
      /\ \A i \in Task : i # currentPCB => pc'[i] = pc[i]
      /\ pc' \in [Task -> Point]
  BY <1>1 DEF IInv, TypeOK, Moves, Plain, Point
<1>3. TypeOK'
  BY <1>2 DEF IInv, TypeOK
<1>4. RunningIsCurrent' /\ PausedOnlyLate'
  BY <1>1, <1>2 DEF IInv, RunningIsCurrent, PausedOnlyLate, Plain, Terminating
<1>5. LocksHeld'
  BY <1>1, <1>2 DEF IInv, LocksHeld, Plain, Terminating
<1>6. FreedBeforeGone'
  BY <1>1, <1>2 DEF IInv, FreedBeforeGone, Plain
<1>7. Started'
  BY <1>1, <1>2 DEF IInv, Started, Plain
<1>8. Linked'
  BY <1>1, <1>2 DEF IInv, Linked, Known, Plain, TypeOK
<1>9. Creator'
  BY <1>1, <1>2 DEF IInv, Creator, Creation, Plain
<1>10. QED
  BY <1>3, <1>4, <1>5, <1>6, <1>7, <1>8, <1>9 DEF IInv

LEMMA PlainInv ==
  ASSUME IInv,
         \/ WaitStart \/ WaitEnd \/ End \/ MainAwake
         \/ LoadInc \/ StoreInc \/ PrintChar \/ ProcessAwake
         \/ LoadDec \/ StoreDec
  PROVE  IInv'
<1> USE SchedulerAssumption DEF clock, locals
<1>1. /\ currentPCB \in Task
      /\ process_count \in Int /\ reg \in [Task -> Int]
      /\ wake \in [Task -> Nat] /\ count \in [Task -> Nat]
  BY DEF IInv, TypeOK
<1>2. UNCHANGED <<list, pcbs, locks, uptime, made, mine>>
  BY DEF WaitStart, WaitEnd, End, MainAwake, LoadInc, StoreInc, PrintChar,
     ProcessAwake, LoadDec, StoreDec
<1>3. /\ process_count' \in Int /\ reg' \in [Task -> Int]
      /\ wake' \in [Task -> Nat] /\ count' \in [Task -> Nat]
  <2>1. Sleep => wake' \in [Task -> Nat]
    BY <1>1 DEF Sleep
  <2>2. QED
    BY <1>1, <2>1 DEF WaitStart, WaitEnd, End, MainAwake, LoadInc, StoreInc,
       PrintChar, ProcessAwake, LoadDec, StoreDec
<1>4. \E p, q \in Plain : Moves(p, q)
  BY DEF WaitStart, WaitEnd, End, MainAwake, LoadInc, StoreInc, PrintChar,
     ProcessAwake, LoadDec, StoreDec, Plain, AfterSleep
<1>5. QED
  BY <1>2, <1>3, <1>4, PlainMoveInv
-----------------------------------------------------------------------------
(* Creation: task 0 claims a PCB, links it and writes its stack.           *)
LEMMA CreatorFacts ==
  ASSUME IInv, pc[currentPCB] \in Creation
  PROVE  /\ currentPCB = Main /\ currentPCB \in Task
         /\ used[currentPCB] /\ terminated = Null
         /\ made \in 0 .. Creates /\ made < Creates
         /\ made + 1 \in 0 .. Creates
         /\ AfterCreate \in {"waitstart", "claim"}
         /\ AfterCreate = "claim" => made + 1 < Creates
         /\ \A i \in Task : pc[i] \notin Terminating
         /\ pc[currentPCB] # "claim" => mine \in Task /\ pc[mine] # "unused"
<1> USE SchedulerAssumption
<1>1. currentPCB = Main /\ currentPCB \in Task
  BY DEF IInv, TypeOK, Creator
<1>2. made \in Nat /\ made < Creates
  BY <1>1 DEF IInv, TypeOK, Creator
<1>3. terminated = Null /\ used[currentPCB]
  BY <1>1 DEF IInv, TypeOK, FreedBeforeGone, Creation
<1>4. \A i \in Task : pc[i] \notin Terminating
  BY <1>1 DEF IInv, LocksHeld, Creation, Terminating
<1>5. pc[currentPCB] # "claim" => mine \in Task /\ pc[mine] # "unused"
  BY <1>1 DEF IInv, Creator, Linked, Known, Task, Null
<1>6. QED
  BY <1>1, <1>2, <1>3, <1>4, <1>5 DEF AfterCreate

(* Linking the new PCB moves only task 0 and the lists.                    *)
LEMMA LinkingInv ==
  ASSUME IInv, ClaimFail \/ First \/ Link \/ Advance
  PROVE  IInv'
<1> USE SchedulerAssumption DEF list, pcbs, locks, clock, locals
<1>1. PICK q \in Creation \cup {"waitstart"} :
             /\ pc[currentPCB] \in Creation
             /\ pc' = [pc EXCEPT ![currentPCB] = q]
             /\ q = "claim" => made' < Creates
             /\ q \in Creation \ {"claim"} =>
                  pc[currentPCB] # "claim" /\ made' = made
             /\ made' \in 0 .. Creates
  BY CreatorFacts DEF ClaimFail, First, Link, Advance, Moves, Creation
<1>2. /\ pc'[currentPCB] = q
      /\ \A i \in Task : i # currentPCB => pc'[i] = pc[i]
      /\ pc' \in [Task -> Point]
      /\ currentPCB \in Task
  BY <1>1, CreatorFacts DEF IInv, TypeOK, Point
<1>3. /\ UNCHANGED <<pcbs, locks, clock, terminated, process_count, reg, count, mine>>
      /\ is_first' \in BOOLEAN
  BY DEF ClaimFail, First, Link, Advance, IInv, TypeOK
<1>4. /\ start' \in {start, mine} /\ end' \in {end, mine}
      /\ start' # start \/ end' # end => mine \in Task /\ pc[mine] # "unused"
      /\ next' \in [Task -> Task \cup {Null}]
      /\ \A i \in Task : \/ next'[i] = next[i]
                         \/ next'[i] = mine /\ mine \in Task /\ pc[mine] # "unused"
  <2>1. CASE ClaimFail
    BY <2>1 DEF ClaimFail, IInv, TypeOK
  <2>2. CASE First \/ Link \/ Advance
    <3>1. mine \in Task /\ pc[mine] # "unused"
      BY <2>2, CreatorFacts DEF First, Link, Advance, Moves, Creation
    <3>2. QED
      BY <2>2, <3>1 DEF First, Link, Advance, IInv, TypeOK
  <2>3. QED
    BY <2>1, <2>2
<1>5. TypeOK'
  BY <1>1, <1>2, <1>3, <1>4 DEF IInv, TypeOK
<1>6. RunningIsCurrent' /\ PausedOnlyLate'
  BY <1>1, <1>2, <1>3 DEF IInv, RunningIsCurrent, PausedOnlyLate, Creation, Terminating
<1>7. LocksHeld'
  BY <1>1, <1>2, <1>3 DEF IInv, LocksHeld, Creation, Terminating
<1>8. FreedBeforeGone'
  BY <1>1, <1>2, <1>3, CreatorFacts DEF IInv, FreedBeforeGone
<1>9. Started'
  BY <1>1, <1>2, <1>3 DEF IInv, Started, Creation
<1>10. Linked'
  BY <1>1, <1>2, <1>3, <1>4 DEF IInv, Linked, Known, Creation, TypeOK
<1>11. Creator'
  BY <1>1, <1>2, <1>3, CreatorFacts DEF IInv, Creator, Creation
<1>12. QED
  BY <1>5, <1>6, <1>7, <1>8, <1>9, <1>10, <1>11 DEF IInv

LEMMA ClaimInv ==
  ASSUME IInv, Claim
  PROVE  IInv'
<1> USE SchedulerAssumption DEF locks, clock
<1>1. PICK n \in Unused :
             /\ pc[currentPCB] = "claim"
             /\ pc' = [pc EXCEPT ![currentPCB] = "first", ![n] = "raw"]
             /\ used' = [used EXCEPT ![n] = TRUE]
             /\ switch_time' = [switch_time EXCEPT ![n] = 0]
             /\ next' = [next EXCEPT ![n] = Main]
             /\ state' = [state EXCEPT ![n] = "READY"]
             /\ count' = [count EXCEPT ![n] = 0]
             /\ mine' = n
             /\ UNCHANGED <<currentPCB, start, end, terminated, is_first, locks,
                            process_count, clock, reg, made>>
  BY DEF Claim
<1>2. /\ currentPCB = Main /\ currentPCB \in Task /\ used[currentPCB]
      /\ terminated = Null /\ \A i \in Task : pc[i] \notin Terminating
  BY <1>1, CreatorFacts DEF Creation
<1>3. n \in Task /\ n # currentPCB /\ pc[n] \in {"unused", "gone"}
  <2>1. n \in Task /\ ~used[n]
    BY DEF Unused
  <2>2. n # currentPCB
    BY <1>2, <2>1
  <2>3. QED
    BY <1>2, <2>1, <2>2 DEF IInv, FreedBeforeGone, Started, Terminating
<1>4. /\ pc'[currentPCB] = "first" /\ pc'[n] = "raw"
      /\ \A i \in Task : i # currentPCB /\ i # n => pc'[i] = pc[i]
      /\ pc' \in [Task -> Point]
      /\ \A i \in Task : i # n => /\ used'[i] = used[i] /\ next'[i] = next[i]
                                /\ state'[i] = state[i]
                                /\ switch_time'[i] = switch_time[i]
      /\ used'[n] /\ state'[n] = "READY" /\ next'[n] = Main
  BY <1>1, <1>2, <1>3 DEF IInv, TypeOK, Point, Creation
<1>5. TypeOK'
  BY <1>1, <1>2, <1>3, <1>4 DEF IInv, TypeOK, State
<1>6. RunningIsCurrent' /\ PausedOnlyLate'
  BY <1>1, <1>2, <1>3, <1>4 DEF IInv, RunningIsCurrent, PausedOnlyLate, Terminating
<1>7. LocksHeld'
  BY <1>1, <1>2, <1>3, <1>4 DEF IInv, LocksHeld, Terminating
<1>8. FreedBeforeGone'
  BY <1>1, <1>2, <1>3, <1>4 DEF IInv, FreedBeforeGone
<1>9. Started'
  BY <1>1, <1>2, <1>3, <1>4 DEF IInv, Started
<1>10. Linked'
  <2>1. \A i \in Task : pc[i] # "unused" => pc'[i] # "unused"
    BY <1>2, <1>3, <1>4
  <2>2. pc'[Main] # "unused" /\ pc'[n] # "unused"
    BY <1>2, <1>4
  <2>3. \A t \in Task \cup {Null} : Known(t) => Known(t)'
    BY <2>1 DEF Known
  <2>4. Known(start)' /\ Known(end)' /\ Known(mine)'
    BY <1>1, <2>2, <2>3 DEF IInv, Linked, TypeOK, Known
  <2>5. \A i \in Task : Known(next[i])'
    BY <1>4, <2>2, <2>3 DEF IInv, Linked, TypeOK, Known
  <2>6. QED
    BY <2>4, <2>5 DEF Linked
<1>11. Creator'
  <2>1. made < Creates
    BY <1>1, CreatorFacts DEF Creation
  <2>2. QED
    BY <1>1, <1>2, <1>3, <1>4, <2>1 DEF IInv, Creator, Creation
<1>12. QED
  BY <1>5, <1>6, <1>7, <1>8, <1>9, <1>10, <1>11 DEF IInv

LEMMA StackInv ==
  ASSUME IInv, Stack
  PROVE  IInv'
<1> USE SchedulerAssumption DEF list, pcbs, locks, clock
<1>1. /\ currentPCB = Main /\ currentPCB \in Task /\ used[currentPCB]
      /\ terminated = Null /\ \A i \in Task : pc[i] \notin Terminating
      /\ mine \in Task /\ pc[mine] # "unused" /\ pc[currentPCB] = "stack"
      /\ made' = made + 1 /\ mine' = Null
      /\ made' \in 0 .. Creates /\ AfterCreate \in {"waitstart", "claim"}
      /\ AfterCreate = "claim" => made' < Creates
      /\ UNCHANGED <<list, pcbs, locks, process_count, clock, reg, count>>
  BY CreatorFacts DEF Stack, Creation
<1>2. /\ pc' = [pc EXCEPT ![currentPCB] = AfterCreate,
                          ![mine] = IF @ = "raw" THEN "fresh" ELSE @]
  BY DEF Stack
<1>3. /\ pc' \in [Task -> Point]
      /\ pc'[currentPCB] = AfterCreate
      /\ \A i \in Task : i # currentPCB =>
           \/ pc'[i] = pc[i]
           \/ pc[i] = "raw" /\ pc'[i] = "fresh"
  BY <1>1, <1>2 DEF IInv, TypeOK, Point, Creation
<1>4. TypeOK'
  BY <1>1, <1>3 DEF IInv, TypeOK
<1>5. RunningIsCurrent' /\ PausedOnlyLate'
  BY <1>1, <1>3 DEF IInv, RunningIsCurrent, PausedOnlyLate, Terminating
<1>6. LocksHeld'
  BY <1>1, <1>3 DEF IInv, LocksHeld, Terminating
<1>7. FreedBeforeGone'
  BY <1>1, <1>3 DEF IInv, FreedBeforeGone
<1>8. Started'
  BY <1>1, <1>3 DEF IInv, Started
<1>9. Linked'
  BY <1>1, <1>3 DEF IInv, Linked, Known, TypeOK
<1>10. Creator'
  BY <1>1, <1>3 DEF IInv, Creator, Creation
<1>11. QED
  BY <1>4, <1>5, <1>6, <1>7, <1>8, <1>9, <1>10 DEF IInv
-----------------------------------------------------------------------------
(* Termination, under the locks.                                           *)
LEMMA CreatorKept ==
  ASSUME IInv, UNCHANGED <<made, mine>>,
         \A i \in Task : pc'[i] \in Creation => pc'[i] = pc[i]
  PROVE  Creator'
<1>1. Main \in Task
  BY SchedulerAssumption DEF Main, Task
<1>2. QED
  BY <1>1 DEF IInv, Creator

LEMMA TerminateInv ==
  ASSUME IInv, Terminate
  PROVE  IInv'
<1> USE SchedulerAssumption DEF pcbs, clock, locals
<1>1. /\ currentPCB \in Task /\ pc[currentPCB] = "exit"
      /\ used[currentPCB] /\ terminated = Null
      /\ \A i \in Task : pc[i] \notin Terminating
      /\ postponed = 0 /\ ~flag
  <2>1. currentPCB \in Task /\ pc[currentPCB] = "exit"
    BY DEF IInv, TypeOK, Terminate, Moves
  <2>2. used[currentPCB] /\ terminated = Null
    BY <2>1 DEF IInv, FreedBeforeGone
  <2>3. (\A i \in Task : pc[i] \notin Terminating) /\ postponed = 0 /\ ~flag
    BY <2>1 DEF IInv, LocksHeld, Terminating
  <2>4. QED
    BY <2>1, <2>2, <2>3
<1>2. /\ pc'[currentPCB] = "block"
      /\ \A i \in Task : i # currentPCB => pc'[i] = pc[i]
      /\ pc' \in [Task -> Point]
      /\ next' \in [Task -> Task \cup {Null}]
      /\ next'[currentPCB] = Null
      /\ \A i \in Task : i # currentPCB => next'[i] = next[i]
      /\ terminated' = currentPCB
      /\ UNCHANGED <<start, end, is_first, pcbs, flag, process_count, clock, locals>>
  BY <1>1 DEF Terminate, Moves, IInv, TypeOK, Point, Terminating
<1>3. /\ IRQ_disable_counter' = IRQ_disable_counter + 1 /\ postponed' = 1
      /\ intr' = FALSE
  <2>1. postponed' = postponed + 1
    BY DEF Terminate, TerminateLocks
  <2>2. IRQ_disable_counter' = IRQ_disable_counter + 1 /\ intr' = FALSE
    BY DEF Terminate, TerminateLocks
  <2>3. QED
    BY <1>1, <2>1, <2>2
<1>4. TypeOK'
  <2>1. intr' \in BOOLEAN
    BY <1>3
  <2>2. IRQ_disable_counter' \in Nat /\ postponed' \in Nat
    BY <1>3 DEF IInv, TypeOK
  <2>3. terminated' \in Task \cup {Null}
    BY <1>1, <1>2
  <2>4. QED
    BY <1>1, <1>2, <2>1, <2>2, <2>3 DEF IInv, TypeOK
<1>5. RunningIsCurrent' /\ PausedOnlyLate'
  BY <1>1, <1>2 DEF IInv, RunningIsCurrent, PausedOnlyLate, Terminating
<1>6. LocksHeld'
  BY <1>1, <1>2, <1>3 DEF IInv, LocksHeld, Terminating, TypeOK
<1>7. FreedBeforeGone'
  BY <1>1, <1>2, <1>3 DEF IInv, FreedBeforeGone, Terminating
<1>8. Started'
  BY <1>1, <1>2 DEF IInv, Started
<1>9. Linked'
  BY <1>1, <1>2 DEF IInv, Linked, Known, TypeOK
<1>10. Creator'
  <2>1. UNCHANGED <<made, mine>>
    BY <1>2
  <2>2. QED
    BY <1>1, <1>2, <2>1, CreatorKept DEF Creation
<1>11. QED
  BY <1>4, <1>5, <1>6, <1>7, <1>8, <1>9, <1>10 DEF IInv

LEMMA BlockInv ==
  ASSUME IInv, Block
  PROVE  IInv'
<1> USE SchedulerAssumption DEF list, clock, locals
<1>1. /\ currentPCB \in Task /\ pc[currentPCB] = "block"
      /\ used[currentPCB] /\ postponed = 1 /\ ~intr
      /\ \A i \in Task : pc[i] \in Terminating => i = currentPCB
  BY DEF IInv, TypeOK, Block, Moves, FreedBeforeGone, LocksHeld, Terminating
<1>2. /\ pc'[currentPCB] = "clean"
      /\ \A i \in Task : i # currentPCB => pc'[i] = pc[i] /\ state'[i] = state[i]
      /\ pc' \in [Task -> Point] /\ state' \in [Task -> State]
      /\ state'[currentPCB] = "TERMINATED"
      /\ flag' = TRUE
      /\ UNCHANGED <<list, used, switch_time, currentPCB, IRQ_disable_counter,
                     postponed, intr, process_count, clock, locals>>
  BY <1>1 DEF Block, Moves, IInv, TypeOK, Point, Terminating, State
<1>3. TypeOK'
  BY <1>1, <1>2 DEF IInv, TypeOK
<1>4. RunningIsCurrent' /\ PausedOnlyLate'
  BY <1>1, <1>2 DEF IInv, RunningIsCurrent, PausedOnlyLate, Terminating
<1>5. LocksHeld'
  BY <1>1, <1>2 DEF IInv, LocksHeld, Terminating
<1>6. FreedBeforeGone'
  BY <1>1, <1>2 DEF IInv, FreedBeforeGone
<1>7. Started'
  BY <1>1, <1>2 DEF IInv, Started
<1>8. Linked'
  BY <1>1, <1>2 DEF IInv, Linked, Known, TypeOK
<1>9. Creator'
  <2>1. UNCHANGED <<made, mine>>
    BY <1>2
  <2>2. QED
    BY <1>1, <1>2, <2>1, CreatorKept DEF Creation
<1>10. QED
  BY <1>3, <1>4, <1>5, <1>6, <1>7, <1>8, <1>9 DEF IInv

LEMMA CleanInv ==
  ASSUME IInv, Clean \/ CleanDone
  PROVE  IInv'
<1> USE SchedulerAssumption DEF clock, locals, locks
<1>1. /\ currentPCB \in Task /\ pc[currentPCB] = "clean"
      /\ state[currentPCB] = "TERMINATED"
      /\ postponed = 1 /\ ~intr /\ flag
      /\ \A i \in Task : pc[i] \in Terminating => i = currentPCB
  BY DEF IInv, TypeOK, Clean, CleanDone, Moves, LocksHeld, Started, Terminating
<1>2. PICK q \in {"clean", "unlock"} :
             /\ pc' = [pc EXCEPT ![currentPCB] = q]
             /\ q = "unlock" => terminated' = Null
  BY <1>1 DEF Clean, CleanDone, Moves, IInv, TypeOK, list
<1>3. /\ pc'[currentPCB] = q
      /\ \A i \in Task : i # currentPCB => pc'[i] = pc[i]
      /\ pc' \in [Task -> Point]
  BY <1>1, <1>2 DEF IInv, TypeOK, Point, Terminating
<1>4. /\ UNCHANGED <<start, end, is_first, next, state, switch_time, currentPCB,
                     locks, process_count, clock, locals>>
      /\ used' \in [Task -> BOOLEAN]
      /\ \A i \in Task : i # currentPCB => used'[i] = used[i]
      /\ terminated' = Null
  BY DEF Clean, CleanDone, Moves, list, pcbs, IInv, TypeOK, FreedBeforeGone, Null
<1>5. TypeOK'
  BY <1>3, <1>4 DEF IInv, TypeOK
<1>6. RunningIsCurrent' /\ PausedOnlyLate'
  BY <1>1, <1>3, <1>4 DEF IInv, RunningIsCurrent, PausedOnlyLate, Terminating
<1>7. LocksHeld'
  BY <1>1, <1>3, <1>4 DEF IInv, LocksHeld, Terminating
<1>8. FreedBeforeGone'
  BY <1>1, <1>3, <1>4 DEF IInv, FreedBeforeGone
<1>9. Started'
  BY <1>1, <1>3, <1>4 DEF IInv, Started
<1>10. Linked'
  BY <1>1, <1>3, <1>4 DEF IInv, Linked, Known, TypeOK
<1>11. Creator'
  <2>1. UNCHANGED <<made, mine>>
    BY <1>4
  <2>2. QED
    BY <1>1, <1>3, <1>4, <2>1, CreatorKept DEF Creation
<1>12. QED
  BY <1>5, <1>6, <1>7, <1>8, <1>9, <1>10, <1>11 DEF IInv

LEMMA UnlockFacts ==
  ASSUME IInv, UnlockSwitch \/ UnlockReturn
  PROVE  /\ currentPCB \in Task /\ pc[currentPCB] = "unlock"
         /\ state[currentPCB] = "TERMINATED" /\ terminated = Null
         /\ \A i \in Task : i # currentPCB => pc[i] \notin Terminating
         /\ IRQ_disable_counter \in Nat /\ IRQ_disable_counter >= 1
         /\ Schedule(state, next, start, end)
         /\ postponed' = 0 /\ flag' = FALSE
         /\ UNCHANGED <<used, terminated, is_first, process_count, clock, locals>>
<1>1. currentPCB \in Task /\ pc[currentPCB] = "unlock"
  BY DEF IInv, TypeOK, UnlockSwitch, UnlockReturn
<1>2. state[currentPCB] = "TERMINATED" /\ terminated = Null
  BY <1>1 DEF IInv, Started, FreedBeforeGone
<1>3. /\ \A i \in Task : i # currentPCB => pc[i] \notin Terminating
      /\ postponed = 1 /\ IRQ_disable_counter >= postponed
      /\ IRQ_disable_counter \in Nat
  BY <1>1 DEF IInv, LocksHeld, TypeOK, Terminating
<1>4. /\ Schedule(state, next, start, end)
      /\ postponed' = 0 /\ flag' = FALSE
      /\ UNCHANGED <<used, terminated, is_first, process_count, clock, locals>>
  BY DEF UnlockSwitch, UnlockReturn
<1>5. QED
  BY <1>1, <1>2, <1>3, <1>4

(* What both outcomes of the last unlock_task have in common.              *)
LEMMA UnlockLists ==
  ASSUME IInv, UnlockSwitch \/ UnlockReturn
  PROVE  /\ state' \in [Task -> State]
         /\ next' \in [Task -> Task \cup {Null}]
         /\ switch_time' \in [Task -> 0 .. Horizon]
         /\ start' \in Task \cup {Null} /\ end' \in Task
         /\ Known(start') /\ Known(end') /\ Known(mine') /\ Known(currentPCB')
         /\ \A i \in Task : Known(next'[i])
<1>1. /\ TypeOK /\ state \in [Task -> State]
      /\ next \in [Task -> Task \cup {Null}]
      /\ start \in Task \cup {Null} /\ end \in Task
      /\ Known(start) /\ Known(end) /\ Known(mine)
      /\ \A i \in Task : Known(next[i])
  BY DEF IInv, TypeOK, Linked
<1>2. Schedule(state, next, start, end) /\ mine' = mine /\ Known(currentPCB)
  BY UnlockFacts DEF locals, Known
<1>3. /\ state' \in [Task -> State]
      /\ next' \in [Task -> Task \cup {Null}]
      /\ switch_time' \in [Task -> 0 .. Horizon]
      /\ start' \in Task \cup {Null} /\ end' \in Task
  BY <1>1, <1>2, ScheduleFacts
<1>4. /\ start' = start \/ (start \in Task /\ start' = next[start])
      /\ end' \in {end, currentPCB}
      /\ currentPCB' \in {start, currentPCB}
      /\ \A i \in Task : next'[i] \in {next[i], currentPCB}
  BY <1>1, <1>2, ScheduleLinks
<1>5. QED
  BY <1>1, <1>2, <1>3, <1>4

LEMMA UnlockSwitchInv ==
  ASSUME IInv, UnlockSwitch
  PROVE  IInv'
<1> USE SchedulerAssumption DEF clock, locals
<1>1. /\ currentPCB \in Task /\ pc[currentPCB] = "unlock"
      /\ state[currentPCB] = "TERMINATED" /\ terminated = Null
      /\ \A i \in Task : i # currentPCB => pc[i] \notin Terminating
      /\ postponed' = 0 /\ flag' = FALSE
      /\ IRQ_disable_counter' = IRQ_disable_counter
      /\ IRQ_disable_counter \in Nat
      /\ UNCHANGED <<used, terminated, is_first, process_count, clock, locals>>
  BY UnlockFacts DEF UnlockSwitch
<1>2. /\ start \in Task /\ currentPCB' = start /\ start # currentPCB
      /\ state[start] # "TERMINATED"
      /\ state'[start] = "RUNNING"
      /\ \A i \in Task : i # start =>
           state'[i] = state[i] /\ switch_time'[i] = switch_time[i]
  <2>1. /\ TypeOK /\ state \in [Task -> State]
        /\ next \in [Task -> Task \cup {Null}]
        /\ start \in Task \cup {Null} /\ end \in Task
    BY DEF IInv, TypeOK
  <2>2. Schedule(state, next, start, end) /\ Switches(state, start)
    BY DEF UnlockSwitch
  <2>3. QED
    BY <1>1, <2>1, <2>2, ScheduleFacts DEF Switches
<1>3. pc[start] \notin Terminating \cup {"unused", "gone", "wild"}
  <2>1. pc[start] \notin {"gone", "wild"} \cup Terminating
    BY <1>1, <1>2 DEF IInv, Started
  <2>2. start # Null
    BY <1>2 DEF Task, Null
  <2>3. QED
    BY <2>1, <2>2 DEF IInv, Linked, Known
<1>4. /\ pc'[currentPCB] = "gone"
      /\ pc'[start] = Resumed(start)
      /\ \A i \in Task : i # currentPCB /\ i # start => pc'[i] = pc[i]
      /\ pc' \in [Task -> Point]
  BY <1>1, <1>2 DEF UnlockSwitch, IInv, TypeOK, Resumed, Point
<1>5. /\ pc'[start] \notin Terminating \cup {"unused", "gone", "raw", "fresh"}
      /\ pc'[start] \in Creation => pc'[start] = pc[start]
  BY <1>3, <1>4 DEF Resumed, Terminating, Creation
<1>6. \A i \in Task : pc'[i] \notin Terminating
  BY <1>1, <1>4, <1>5 DEF Terminating
<1>7. intr' \in BOOLEAN
  BY DEF UnlockSwitch, IretEnables
<1>8. TypeOK'
  BY <1>1, <1>2, <1>4, <1>7, UnlockLists DEF IInv, TypeOK
<1>9. RunningIsCurrent'
  BY <1>1, <1>2 DEF IInv, RunningIsCurrent
<1>10. LocksHeld'
  <2>1. pc'[currentPCB'] \notin Terminating \cup {"clean", "unlock"}
    BY <1>2, <1>6 DEF Terminating
  <2>2. QED
    BY <1>1, <1>6, <2>1 DEF LocksHeld
<1>11. FreedBeforeGone'
  <2>1. \A i \in Task : i # currentPCB /\ ~used[i] => pc[i] \in {"unused", "gone", "wild"}
    BY <1>1 DEF IInv, FreedBeforeGone
  <2>2. \A i \in Task : ~used'[i] => pc'[i] \in {"unused", "gone", "wild"}
    BY <1>1, <1>2, <1>3, <1>4, <2>1
  <2>3. QED
    BY <1>1, <2>2 DEF FreedBeforeGone
<1>12. PausedOnlyLate'
  <2>1. \A i \in Task : state'[i] = "PAUSED" =>
          state[i] = "PAUSED" /\ switch_time'[i] = switch_time[i]
    BY <1>2
  <2>2. QED
    BY <1>1, <2>1 DEF IInv, PausedOnlyLate
<1>13. Started'
  <2>1. \A i \in Task : i # start => pc'[i] # "wild"
    BY <1>1, <1>4 DEF IInv, Started
  <2>2. \A i \in Task : pc'[i] = "gone" => state'[i] = "TERMINATED"
    BY <1>1, <1>2, <1>4, <1>5 DEF IInv, Started
  <2>3. QED
    BY <1>2, <1>5, <1>6, <2>1, <2>2 DEF Started, Terminating
<1>14. Linked'
  <2>1. \A i \in Task : pc[i] # "unused" => pc'[i] # "unused"
    BY <1>1, <1>4, <1>5
  <2>2. mine' \in Task \cup {Null}
    BY <1>1 DEF IInv, TypeOK
  <2>3. QED
    BY <2>1, <2>2, UnlockLists DEF Linked, Known
<1>15. Creator'
  <2>1. \A i \in Task : pc'[i] \in Creation => pc'[i] = pc[i]
    BY <1>4, <1>5 DEF Creation
  <2>2. QED
    BY <1>1, <2>1, CreatorKept
<1>16. QED
  BY <1>8, <1>9, <1>10, <1>11, <1>12, <1>13, <1>14, <1>15 DEF IInv

LEMMA UnlockReturnInv ==
  ASSUME IInv, UnlockReturn
  PROVE  IInv'
<1> USE SchedulerAssumption DEF clock, locals
<1>1. /\ currentPCB \in Task /\ pc[currentPCB] = "unlock"
      /\ state[currentPCB] = "TERMINATED" /\ terminated = Null
      /\ \A i \in Task : i # currentPCB => pc[i] \notin Terminating
      /\ postponed' = 0 /\ flag' = FALSE
      /\ IRQ_disable_counter \in Nat /\ IRQ_disable_counter >= 1
      /\ UNCHANGED <<used, terminated, is_first, process_count, clock, locals>>
  BY UnlockFacts
<1>2. currentPCB' = currentPCB /\ state' = state /\ switch_time' = switch_time
  <2>1. /\ TypeOK /\ state \in [Task -> State]
        /\ next \in [Task -> Task \cup {Null}]
        /\ start \in Task \cup {Null} /\ end \in Task
    BY DEF IInv, TypeOK
  <2>2. Schedule(state, next, start, end) /\ ~Switches(state, start)
    BY DEF UnlockReturn
  <2>3. QED
    BY <2>1, <2>2, ScheduleFacts
<1>3. /\ IRQ_disable_counter' \in Nat
      /\ intr' \in BOOLEAN
  BY <1>1 DEF UnlockReturn
<1>4. /\ pc'[currentPCB] = "wild"
      /\ \A i \in Task : i # currentPCB => pc'[i] = pc[i]
      /\ pc' \in [Task -> Point]
  BY <1>1 DEF UnlockReturn, IInv, TypeOK, Point
<1>5. TypeOK'
  BY <1>1, <1>2, <1>3, <1>4, UnlockLists DEF IInv, TypeOK
<1>6. RunningIsCurrent' /\ PausedOnlyLate'
  BY <1>1, <1>2, <1>4 DEF IInv, RunningIsCurrent, PausedOnlyLate
<1>7. LocksHeld'
  BY <1>1, <1>2, <1>3, <1>4 DEF LocksHeld, Terminating
<1>8. FreedBeforeGone'
  BY <1>1, <1>2, <1>4 DEF IInv, FreedBeforeGone
<1>9. Started'
  BY <1>1, <1>2, <1>4 DEF IInv, Started
<1>10. Linked'
  <2>1. \A i \in Task : pc[i] # "unused" => pc'[i] # "unused"
    BY <1>1, <1>4
  <2>2. mine' \in Task \cup {Null}
    BY <1>1 DEF IInv, TypeOK
  <2>3. QED
    BY <2>1, <2>2, UnlockLists DEF Linked, Known
<1>11. Creator'
  BY <1>1, <1>4, CreatorKept DEF Creation
<1>12. QED
  BY <1>5, <1>6, <1>7, <1>8, <1>9, <1>10, <1>11 DEF IInv
-----------------------------------------------------------------------------
LEMMA StutterInv ==
  ASSUME IInv, UNCHANGED vars
  PROVE  IInv'
<1> USE DEF vars, list, pcbs, locks, locals, clock
<1>1. TypeOK'
  BY DEF IInv, TypeOK
<1>2. RunningIsCurrent' /\ PausedOnlyLate' /\ LocksHeld'
  BY DEF IInv, RunningIsCurrent, PausedOnlyLate, LocksHeld
<1>3. FreedBeforeGone' /\ Started'
  BY DEF IInv, FreedBeforeGone, Started
<1>4. Linked' /\ Creator'
  BY DEF IInv, Linked, Known, Creator
<1>5. QED
  BY <1>1, <1>2, <1>3, <1>4 DEF IInv

(* IInv is an invariant: of the types, the states, the lock counters, the  *)
(* freed PCBs, the paused tasks and the lists together.                    *)
THEOREM SchedulerInvariance == Spec => []IInv
<1>1. IInv /\ [Next]_vars => IInv'
  <2>1. ASSUME IInv, PitTick PROVE IInv'
    BY <2>1, PitTickInv
  <2>2. ASSUME IInv, Creating PROVE IInv'
    BY <2>2, ClaimInv, LinkingInv, StackInv DEF Creating
  <2>3. ASSUME IInv, \/ WaitStart \/ WaitEnd \/ End \/ MainAwake
                     \/ LoadInc \/ StoreInc \/ PrintChar \/ ProcessAwake
                     \/ LoadDec \/ StoreDec
        PROVE  IInv'
    BY <2>3, PlainInv
  <2>4. ASSUME IInv, Terminate \/ Block \/ Clean \/ CleanDone
        PROVE  IInv'
    BY <2>4, TerminateInv, BlockInv, CleanInv
  <2>5. ASSUME IInv, UnlockSwitch \/ UnlockReturn PROVE IInv'
    BY <2>5, UnlockSwitchInv, UnlockReturnInv
  <2>6. ASSUME IInv, UNCHANGED vars PROVE IInv'
    BY <2>6, StutterInv
  <2>7. QED
    BY <2>1, <2>2, <2>3, <2>4, <2>5, <2>6 DEF Next, TaskStep
<1>2. QED
  BY InitInv, <1>1, PTL DEF Spec

(* Every variable keeps to its type; in particular the IRQ lock counter,   *)
(* which every termination leaves one too high, never drops below zero.    *)
THEOREM SchedulerTypes == Spec => []TypeOK
<1>1. IInv => TypeOK
  BY DEF IInv
<1>2. QED
  BY <1>1, SchedulerInvariance, PTL

(* At most the current task is RUNNING.                                    *)
THEOREM OneRunning == Spec => []RunningIsCurrent
<1>1. IInv => RunningIsCurrent
  BY DEF IInv
<1>2. QED
  BY <1>1, SchedulerInvariance, PTL

(* Only the current task is inside terminate_task, with interrupts off.    *)
THEOREM TerminationLocked == Spec => []LocksHeld
<1>1. IInv => LocksHeld
  BY DEF IInv
<1>2. QED
  BY <1>1, SchedulerInvariance, PTL

(* No PCB is free while a task that may still run uses it.                 *)
THEOREM FreedSafely == Spec => []FreedBeforeGone
<1>1. IInv => FreedBeforeGone
  BY DEF IInv
<1>2. QED
  BY <1>1, SchedulerInvariance, PTL

(* No task is paused before its time is up.                                *)
THEOREM PausedLate == Spec => []PausedOnlyLate
<1>1. IInv => PausedOnlyLate
  BY DEF IInv
<1>2. QED
  BY <1>1, SchedulerInvariance, PTL

(* Every step that changes the current task goes through schedule().       *)
LEMMA OnlyLiveSwitchedTo ==
  ASSUME IInv, [Next]_vars, NEW i \in Task, pc[i] = "gone"
  PROVE  currentPCB' # i
<1>1. currentPCB # i /\ state[i] = "TERMINATED"
  BY DEF IInv, Started
<1>2. /\ TypeOK /\ state \in [Task -> State]
      /\ next \in [Task -> Task \cup {Null}]
      /\ start \in Task \cup {Null} /\ end \in Task
  BY DEF IInv, TypeOK
<1>3. CASE PitTick
  <2>1. postponed = 0
    BY <1>3 DEF PitTick, IInv, LocksHeld
  <2>2. Schedule(StateAfterPass, next, start, end)
    BY <1>3, <2>1, PassFacts DEF PitTick, StartAfter, EndAfter, NextAfter
  <2>3. StateAfterPass \in [Task -> State] /\ StateAfterPass[i] = "TERMINATED"
    BY <1>1, <1>3, PassFacts
  <2>4. QED
    BY <1>1, <1>2, <2>2, <2>3, ScheduleFacts
<1>4. CASE UnlockSwitch \/ UnlockReturn
  <2>1. Schedule(state, next, start, end)
    BY <1>4 DEF UnlockSwitch, UnlockReturn
  <2>2. QED
    BY <1>1, <1>2, <2>1, ScheduleFacts
<1>5. CASE UNCHANGED vars
  BY <1>1, <1>5 DEF vars, pcbs
<1>6. CASE Creating
  BY <1>1, <1>6 DEF Creating, Claim, ClaimFail, First, Link, Advance, Stack, pcbs
<1>7. CASE \/ WaitStart \/ WaitEnd \/ End \/ MainAwake
           \/ LoadInc \/ StoreInc \/ PrintChar \/ ProcessAwake
           \/ LoadDec \/ StoreDec
  BY <1>1, <1>7 DEF WaitStart, WaitEnd, End, MainAwake, LoadInc, StoreInc,
     PrintChar, ProcessAwake, LoadDec, StoreDec, pcbs
<1>8. CASE Terminate \/ Block \/ Clean \/ CleanDone
  BY <1>1, <1>8 DEF Terminate, Block, Clean, CleanDone, pcbs
<1>9. QED
  BY <1>3, <1>4, <1>5, <1>6, <1>7, <1>8 DEF Next, TaskStep

(* A terminated task that is still linked in the ready list, by a stale    *)
(* next pointer, is never switched to.                                     *)
THEOREM GoneForGood == Spec => GoneStaysGone
<1>1. IInv /\ [Next]_vars => [\A i \in Task : pc[i] = "gone" => currentPCB' # i]_vars
  BY OnlyLiveSwitchedTo
<1>2. QED
  BY <1>1, SchedulerInvariance, PTL DEF Spec, GoneStaysGone

(* Only pcb_alloc makes a PCB a new task's.                                *)
LEMMA OnlyGoneReused ==
  ASSUME IInv, [Next]_vars, NEW i \in Task, pc[i] # "raw", pc'[i] = "raw"
  PROVE  pc[i] \in {"unused", "gone"}
<1>1. currentPCB \in Task /\ pc \in [Task -> Point]
  BY DEF IInv, TypeOK
<1>2. CASE Claim
  <2>1. PICK n \in Unused :
          /\ pc[currentPCB] = "claim"
          /\ pc' = [pc EXCEPT ![currentPCB] = "first", ![n] = "raw"]
    BY <1>2 DEF Claim
  <2>2. i = n /\ ~used[i]
    BY <1>1, <2>1 DEF Unused
  <2>3. (\A j \in Task : pc[j] \notin Terminating) /\ used[currentPCB]
    BY <2>1, CreatorFacts DEF Creation
  <2>4. QED
    BY <2>2, <2>3 DEF IInv, FreedBeforeGone, Started, Terminating
<1>3. CASE PitTick
  BY <1>1, <1>3 DEF PitTick, Resumed
<1>4. CASE UnlockSwitch \/ UnlockReturn
  BY <1>1, <1>4 DEF UnlockSwitch, UnlockReturn, Resumed
<1>5. CASE UNCHANGED vars
  BY <1>5 DEF vars
<1>6. CASE ClaimFail \/ First \/ Link \/ Advance \/ Stack
  BY <1>1, <1>6 DEF ClaimFail, First, Link, Advance, Stack, Moves, AfterCreate
<1>7. CASE \/ WaitStart \/ WaitEnd \/ End \/ MainAwake
           \/ LoadInc \/ StoreInc \/ PrintChar \/ ProcessAwake
           \/ LoadDec \/ StoreDec
  BY <1>1, <1>7 DEF WaitStart, WaitEnd, End, MainAwake, LoadInc, StoreInc,
     PrintChar, ProcessAwake, LoadDec, StoreDec, Moves, AfterSleep
<1>8. CASE Terminate \/ Block \/ Clean \/ CleanDone
  BY <1>1, <1>8 DEF Terminate, Block, Clean, CleanDone, Moves
<1>9. QED
  BY <1>2, <1>3, <1>4, <1>5, <1>6, <1>7, <1>8 DEF Next, TaskStep, Creating

(* A PCB that tasks_cleaner gave back while its task still ran on it is    *)
(* taken over only after that task has gone.                               *)
THEOREM ReusedSafely == Spec => ReusedOnlyGone
<1>1. IInv /\ [Next]_vars =>
        [\A i \in Task : pc[i] # "raw" /\ pc'[i] = "raw" =>
                         pc[i] \in {"unused", "gone"}]_vars
  BY OnlyGoneReused
<1>2. QED
  BY <1>1, SchedulerInvariance, PTL DEF Spec, ReusedOnlyGone

(* A task that starts by its first stack frame gets the interrupt flag as  *)
(* it was.  Every process has started before the first one ends: in        *)
(* test_scheduler, which creates them all before it waits and in which     *)
(* each sleeps for seconds.                                                *)
StartedFirst == IRQ_disable_counter > 0 => \A t \in Task : ~New(t)

Enabled == pc[currentPCB] \notin Terminating \cup {"wild"} => intr

LEMMA EnabledKept ==
  ASSUME IInv, StartedFirst, Enabled, [Next]_vars
  PROVE  Enabled'
<1>1. /\ currentPCB \in Task /\ pc \in [Task -> Point]
      /\ IRQ_disable_counter \in Nat /\ postponed \in Nat
      /\ ~New(currentPCB)
  BY DEF IInv, TypeOK, Started, New
<1>2. pc[currentPCB] \in Terminating => IRQ_disable_counter > 0
  BY <1>1 DEF IInv, LocksHeld
<1>3. CASE PitTick
  <2>1. /\ intr' = (IRQ_disable_counter = 0 \/ ~New(currentPCB'))
        /\ currentPCB' \in Task
    <3>1. IInv'
      BY <1>3, PitTickInv
    <3>2. QED
      BY <1>3, <3>1 DEF PitTick, IretEnables, IInv, TypeOK
  <2>2. IRQ_disable_counter = 0 \/ ~New(currentPCB')
    BY <1>1, <2>1 DEF StartedFirst
  <2>3. QED
    BY <2>1, <2>2, Zenon DEF Enabled
<1>4. CASE UnlockSwitch
  <2>1. start \in Task /\ intr' = ~New(start)
    BY <1>4 DEF UnlockSwitch, Switches, IretEnables, IInv, TypeOK
  <2>2. pc[currentPCB] \in Terminating
    BY <1>4 DEF UnlockSwitch, Terminating
  <2>3. intr'
    BY <1>2, <2>1, <2>2 DEF StartedFirst
  <2>4. QED
    BY <2>3 DEF Enabled
<1>5. CASE UnlockReturn
  BY <1>1, <1>5, UnlockReturnInv DEF UnlockReturn, Enabled, Schedule, Stay, Switches
<1>6. CASE Terminate \/ Block \/ Clean \/ CleanDone
  BY <1>1, <1>6 DEF Terminate, Block, Clean, CleanDone, Moves, Terminating, Enabled,
     pcbs
<1>7. CASE Claim \/ ClaimFail \/ First \/ Link \/ Advance \/ Stack
  BY <1>7 DEF Claim, ClaimFail, First, Link, Advance, Stack, Moves, locks, pcbs,
     Enabled, Terminating
<1>8. CASE \/ WaitStart \/ WaitEnd \/ End \/ MainAwake
           \/ LoadInc \/ StoreInc \/ PrintChar \/ ProcessAwake
           \/ LoadDec \/ StoreDec
  BY <1>8 DEF WaitStart, WaitEnd, End, MainAwake, LoadInc, StoreInc,
     PrintChar, ProcessAwake, LoadDec, StoreDec, Moves, locks, pcbs, Enabled,
     Terminating
<1>9. CASE UNCHANGED vars
  BY <1>9 DEF vars, pcbs, locks, Enabled
<1>10. QED
  BY <1>3, <1>4, <1>5, <1>6, <1>7, <1>8, <1>9 DEF Next, TaskStep, Creating

(* The locks that ended tasks leave behind do not reach the others: hlt is *)
(* executed with interrupts enabled, if every task has started by the time *)
(* the first one ends.                                                     *)
THEOREM SleepersWake == Spec /\ []StartedFirst => []SleepersHearTimer
<1>1. Init => Enabled
  BY DEF Init, Enabled
<1>2. IInv /\ StartedFirst /\ Enabled /\ [Next]_vars => Enabled'
  BY EnabledKept
<1>3. Enabled => SleepersHearTimer
  BY DEF Enabled, SleepersHearTimer, Terminating
<1>4. QED
  BY <1>1, <1>2, <1>3, SchedulerInvariance, PTL DEF Spec
-----------------------------------------------------------------------------
(* That the linked list is a queue: while time is not up for any task and  *)
(* three of them at least are left.                                        *)
Left == {i \in Task : pc[i] \notin {"unused", "gone"}}

ThreeLeft == pc[Main] \notin Creation => Cardinality(Left) >= 3

InTime == uptime < MAX_TASK_TIME

(* pcb_alloc has not yet made the new PCB the list's end.                  *)
Joining(i) == i = mine /\ pc[Main] \in {"first", "link", "advance"} /\ end # mine

Waits(i) == i # currentPCB /\ pc[i] \notin {"unused", "gone"} /\ ~Joining(i)

(* The links nx lead from s through q to e.                                *)
Chain(q, s, e, nx) ==
  /\ Len(q) >= 1 /\ q[1] = s /\ q[Len(q)] = e
  /\ \A k \in 1 .. (Len(q) - 1) : nx[q[k]] = q[k + 1]
  /\ \A j, k \in 1 .. Len(q) : q[j] = q[k] => j = k

Chained(q) == Chain(q, start, end, next)

(* It goes through all tasks that wait, and no other.                      *)
In(i, q) == \E k \in 1 .. Len(q) : q[k] = i

Lists(q) == \A i \in Task : Waits(i) <=> In(i, q)

(* Only a task that has ended is TERMINATED, and while task 0 creates the  *)
(* others none of them runs.                                               *)
Ended ==
  \A i \in Task : state[i] = "TERMINATED" => pc[i] \in {"clean", "unlock", "gone", "wild"}

Alone ==
  /\ pc[Main] \in Creation => currentPCB = Main
  /\ pc[Main] \in Creation \ {"claim"} => pc[mine] = "raw"
  /\ pc[Main] = "advance" /\ end # mine => next[end] = mine

(* Before the first of them is in the list.                                *)
NoneYet ==
  is_first =>
    /\ pc[Main] \in {"claim", "first", "waitstart"}
    /\ \A i \in Task \ {Main} : pc[i] = "unused" \/ (pc[Main] = "first" /\ i = mine)

QueueInv ==
  /\ IInv /\ Ended /\ Alone /\ NoneYet
  /\ is_first \/ \E q \in Seq(Task) : Chained(q) /\ Lists(q)

(* Of some natural numbers one is the least.                               *)
LEMMA Least ==
  ASSUME NEW T, T \subseteq Nat, T # {}
  PROVE \E x \in T : \A y \in T : x <= y
<1> DEFINE R == {ss \in Nat \X Nat : ss[1] < ss[2]}
<1>1. IsWellFoundedOn(R, Nat)
  BY NatLessThanWellFounded DEF OpToRel
<1>2. \A x, y \in Nat : <<y, x>> \notin R => x <= y
  OBVIOUS
<1> HIDE DEF R
<1>3. PICK x \in T : \A y \in T : ~(<<y, x>> \in R)
  BY <1>1, WFMin
<1>4. \A y \in T : x <= y
  BY <1>2, <1>3
<1>5. QED
  BY <1>3, <1>4

(* Induction up to n, for a set.                                           *)
LEMMA Ind ==
  ASSUME NEW n \in Nat, NEW P, 0 \in P, \A k \in 0 .. (n - 1) : k \in P => k + 1 \in P
  PROVE \A k \in 0 .. n : k \in P
<1> SUFFICES ASSUME NEW k \in 0 .. n, k \notin P PROVE FALSE
  OBVIOUS
<1> DEFINE T == {j \in 0 .. n : j \notin P}
<1>1. PICK x \in T : \A y \in T : x <= y
  <2>1. T \subseteq Nat /\ T # {}
    OBVIOUS
  <2> HIDE DEF T
  <2>2. QED
    BY <2>1, Least
<1>2. x \in 1 .. n
  BY <1>1
<1>3. x - 1 \in 0 .. n - 1 /\ x - 1 \notin T
  BY <1>1, <1>2
<1>4. QED
  BY <1>1, <1>2, <1>3

(* Following the links nx from s on, m times.                              *)
HopsOf(f, s, nx, m) ==
  f = [k \in 0 .. m |->
         IF k = 0 THEN s ELSE IF f[k - 1] = Null THEN Null ELSE nx[f[k - 1]]]

LEMMA HopsExist ==
  ASSUME NEW V, NEW s \in V, NEW nx \in [Task -> V], \A v \in V : v \in Task \/ v = Null,
         Null \in V, NEW m \in Nat
  PROVE  \E f : HopsOf(f, s, nx, m)
<1> DEFINE Hops(f, n) == /\ f \in [0 .. n -> V] /\ f[0] = s
                         /\ \A k \in 1 .. n : f[k] = IF f[k - 1] = Null THEN Null
                                                     ELSE nx[f[k - 1]]
           P == {n \in Nat : \E f : Hops(f, n)}
<1>1. 0 \in P
  <2>1. Hops([k \in 0 .. 0 |-> s], 0)
    OBVIOUS
  <2>2. QED
    BY <2>1
<1>2. ASSUME NEW n \in 0 .. (m - 1), n \in P PROVE n + 1 \in P
  <2>1. PICK f : Hops(f, n)
    BY <1>2
  <2>2. n \in Nat /\ n \in 0 .. n /\ f[n] \in V
    BY <2>1
  <2> DEFINE w == IF f[n] = Null THEN Null ELSE nx[f[n]]
             g == [k \in 0 .. (n + 1) |-> IF k = n + 1 THEN w ELSE f[k]]
  <2>3. w \in V
    BY <2>2
  <2>4. g \in [0 .. (n + 1) -> V] /\ g[0] = s
    BY <2>1, <2>2, <2>3
  <2>5. ASSUME NEW k \in 1 .. (n + 1)
        PROVE  g[k] = IF g[k - 1] = Null THEN Null ELSE nx[g[k - 1]]
    <3>1. k - 1 \in 0 .. n /\ k \in 0 .. (n + 1)
      BY <2>2
    <3>2. g[k - 1] = f[k - 1]
      BY <2>2, <3>1
    <3>3. CASE k = n + 1
      BY <2>2, <3>1, <3>2, <3>3
    <3>4. CASE k # n + 1
      <4>1. k \in 1 .. n
        BY <2>2, <3>4
      <4>2. g[k] = f[k]
        BY <3>1, <3>4
      <4>3. QED
        BY <2>1, <3>2, <4>1, <4>2
    <3>5. QED
      BY <3>3, <3>4
  <2> HIDE DEF g
  <2>6. Hops(g, n + 1)
    BY <2>4, <2>5
  <2>7. QED
    BY <2>2, <2>6
<1> HIDE DEF P
<1>3. m \in P
  BY <1>1, <1>2, Ind
<1>4. PICK f : Hops(f, m)
  BY <1>3 DEF P
<1>5. \A k \in 0 .. m : k = 0 \/ k \in 1 .. m
  OBVIOUS
<1> DEFINE F == [k \in 0 .. m |->
                  IF k = 0 THEN s
                  ELSE IF f[k - 1] = Null THEN Null ELSE nx[f[k - 1]]]
<1>6. \A k \in 0 .. m : f[k] = F[k]
  BY <1>4, <1>5
<1>7. f = F
  <2>1. f \in [0 .. m -> V]
    BY <1>4
  <2> HIDE DEF Hops
  <2>2. QED
    BY <1>6, <2>1
<1>8. HopsOf(f, s, nx, m)
  BY <1>7 DEF HopsOf
<1>9. QED
  BY <1>8

(* There are MAX_TASKS of them.                                            *)
LEMMA TasksFinite == IsFiniteSet(Task) /\ Cardinality(Task) = MAX_TASKS
<1>1. PICK m \in Int : m = MAX_TASKS - 1
  BY SchedulerAssumption
<1>2. MAX_TASKS \in Nat \ {0} /\ 0 \in Int /\ m >= 0 /\ (m - 0) + 1 = MAX_TASKS
  BY <1>1, SchedulerAssumption
<1>3. IsFiniteSet(0 .. m) /\ Cardinality(0 .. m) = IF 0 > m THEN 0 ELSE (m - 0) + 1
  BY <1>2, FS_Interval
<1>4. QED
  BY <1>1, <1>2, <1>3 DEF Task

(* Such a chain is what ReadyQueue reads off the links.                    *)
QueueFact ==
  /\ is_first => ReadyQueue = <<>>
  /\ TypeOK /\ ~is_first =>
       \A q \in Seq(Task) : Chained(q) => ReadyQueue = q

LEMMA QueueHere == QueueFact
<1>1. is_first => ReadyQueue = <<>>
  BY DEF ReadyQueue
<1>2. ASSUME TypeOK, ~is_first, NEW q \in Seq(Task), Chained(q)
      PROVE  ReadyQueue = q
  <2> DEFINE n == Len(q)
             M == MAX_TASKS
             V == Task \cup {Null}
  <2>1. n \in Nat /\ n >= 1 /\ q \in [1 .. n -> Task] /\ M \in Nat
    BY <1>2, SchedulerAssumption DEF Chained, Chain
  <2>2. n <= M
    <3>1. SUFFICES ASSUME n > M PROVE FALSE
      BY <2>1
    <3>2. IsFiniteSet(1 .. n) /\ Cardinality(1 .. n) = n
      BY <2>1, FS_Interval
    <3>3. IsFiniteSet(Task) /\ Cardinality(Task) = M
      BY TasksFinite
    <3>4. PICK j \in 1 .. n, k \in 1 .. n : j # k /\ q[j] = q[k]
      BY <2>1, <3>1, <3>2, <3>3, FS_PigeonHole
    <3>5. QED
      BY <1>2, <3>4 DEF Chained, Chain
  <2>3. \E f : HopsOf(f, start, next, M)
    <3>1. PICK s0, nx, m : s0 = start /\ nx = next /\ m = MAX_TASKS
      OBVIOUS
    <3>2. s0 \in V /\ nx \in [Task -> V] /\ Null \in V /\ m \in Nat
      BY <1>2, <2>1, <3>1 DEF TypeOK
    <3>3. \A v \in V : v \in Task \/ v = Null
      OBVIOUS
    <3> HIDE DEF V
    <3>4. \E f : HopsOf(f, s0, nx, m)
      BY <3>2, <3>3, HopsExist
    <3>5. QED
      BY <3>1, <3>4
  <2>4. Hop = [k \in 0 .. M |-> IF k = 0 THEN start
                                ELSE IF Hop[k - 1] = Null THEN Null ELSE next[Hop[k - 1]]]
    <3>1. PICK f : f = [k \in 0 .. M |->
                          IF k = 0 THEN start
                          ELSE IF f[k - 1] = Null THEN Null ELSE next[f[k - 1]]]
      BY <2>3 DEF HopsOf
    <3>2. QED
      BY <3>1 DEF Hop
  <2>5. /\ Hop[0] = start
        /\ \A k \in 1 .. M : Hop[k] = IF Hop[k - 1] = Null THEN Null ELSE next[Hop[k - 1]]
    BY <2>1, <2>4
  <2> DEFINE P == {k \in Nat : Hop[k] = q[k + 1]}
  <2>6. 0 \in P
    BY <1>2, <2>5 DEF Chained, Chain
  <2>7. ASSUME NEW k \in 0 .. ((n - 1) - 1), k \in P PROVE k + 1 \in P
    <3>1. k + 1 \in 1 .. M /\ k + 1 \in 1 .. (n - 1) /\ k + 1 \in 1 .. n /\ (k + 1) - 1 = k
      BY <2>1, <2>2
    <3>2. Hop[k] = q[k + 1] /\ q[k + 1] \in Task /\ q[k + 1] # Null
      BY <2>1, <2>7, <3>1 DEF Task, Null
    <3>3. Hop[k + 1] = next[q[k + 1]]
      BY <2>5, <3>1, <3>2
    <3>4. next[q[k + 1]] = q[(k + 1) + 1]
      BY <1>2, <3>1 DEF Chained, Chain
    <3>5. QED
      BY <3>1, <3>3, <3>4
  <2>8. n - 1 \in Nat /\ n - 1 \in 0 .. M
    BY <2>1, <2>2
  <2>9. \A k \in 0 .. (n - 1) : Hop[k] = q[k + 1]
    <3> HIDE DEF P
    <3>1. \A k \in 0 .. (n - 1) : k \in P
      BY <2>6, <2>7, <2>8, Ind
    <3>2. QED
      BY <3>1 DEF P
  <2> DEFINE at == {k \in 0 .. M : Hop[k] = end}
  <2>10. n - 1 \in at
    <3>1. Hop[n - 1] = q[n] /\ q[n] = end
      BY <1>2, <2>1, <2>9 DEF Chained, Chain
    <3>2. QED
      BY <2>8, <3>1
  <2>11. ASSUME NEW k \in at PROVE k \in Nat /\ n - 1 <= k
    <3>1. k \in 0 .. M /\ k \in Nat
      BY <2>1
    <3>2. ASSUME k < n - 1 PROVE FALSE
      <4>1. k \in 0 .. (n - 1) /\ k + 1 \in 1 .. n /\ n \in 1 .. n /\ k + 1 # n
        <5>1. n \in Nat /\ n >= 1 /\ k \in Nat
          BY <2>1, <3>1
        <5> HIDE DEF n, at
        <5>2. QED
          BY <3>2, <5>1
      <4>2. q[k + 1] = end /\ q[n] = end
        BY <1>2, <2>9, <4>1 DEF Chained, Chain
      <4>3. QED
        BY <1>2, <4>1, <4>2 DEF Chained, Chain
    <3>3. QED
      BY <2>1, <3>1, <3>2
  <2>12. ReadyQueue = [k \in 1 .. (Min(at) + 1) |-> Hop[k - 1]]
    BY <1>2, <2>10 DEF ReadyQueue
  <2> HIDE DEF at
  <2>13. Min(at) = n - 1
    <3>1. Min(at) \in at /\ \A k \in at : Min(at) <= k
      BY <2>10, <2>11 DEF Min
    <3>2. QED
      BY <2>1, <2>10, <2>11, <3>1
  <2>14. ReadyQueue = [k \in 1 .. n |-> Hop[k - 1]]
    BY <2>1, <2>12, <2>13
  <2>15. \A k \in 1 .. n : Hop[k - 1] = q[k]
    <3> TAKE k \in 1 .. n
    <3>1. k - 1 \in 0 .. (n - 1) /\ (k - 1) + 1 = k
      BY <2>1
    <3>2. QED
      BY <2>9, <3>1
  <2>16. QED
    BY <2>1, <2>14, <2>15
<1>3. QED
  BY <1>1, <1>2 DEF QueueFact

(* The same for the next state.                                            *)
LEMMA QueueThere == QueueFact'
BY QueueHere, PTL
-----------------------------------------------------------------------------
(* A set of two has no more than two members.                              *)
LEMMA AtMostTwo ==
  ASSUME NEW a, NEW b, NEW S \in SUBSET {a, b}
  PROVE  Cardinality(S) <= 2
<1>1. IsFiniteSet({}) /\ Cardinality({}) = 0
  BY FS_EmptySet
<1>2. IsFiniteSet({a}) /\ Cardinality({a}) = 1
  BY FS_Singleton
<1>3. IsFiniteSet({a} \cup {b})
  BY <1>2, FS_AddElement
<1>4. Cardinality({a} \cup {b}) \in {1, 2}
  <2>1. CASE b \in {a}
    BY <1>2, <2>1, FS_AddElement
  <2>2. CASE b \notin {a}
    BY <1>2, <2>2, FS_AddElement
  <2>3. QED
    BY <2>1, <2>2
<1>5. {a, b} = {a} \cup {b}
  OBVIOUS
<1>6. IsFiniteSet(S) /\ Cardinality(S) <= Cardinality({a, b})
  BY <1>3, <1>5, FS_Subset
<1>7. Cardinality(S) \in Nat
  BY <1>6, FS_CardinalityType
<1>8. QED
  BY <1>4, <1>5, <1>6, <1>7

(* With three tasks left, two at least are in the list.                    *)
LEMMA Enough ==
  ASSUME QueueInv, ThreeLeft, pc[Main] \notin Creation
  PROVE  ~is_first /\ \E q \in Seq(Task) : Chained(q) /\ Lists(q) /\ Len(q) >= 2
<1>1. Cardinality(Left) >= 3
  BY DEF ThreeLeft
<1>2. ASSUME NEW a, NEW b, Left \subseteq {a, b} PROVE FALSE
  <2>1. Cardinality(Left) <= 2
    BY <1>2, AtMostTwo
  <2>2. IsFiniteSet(Left)
    <3>1. Left \subseteq Task
      BY DEF Left
    <3>2. QED
      BY <3>1, TasksFinite, FS_Subset
  <2>3. Cardinality(Left) \in Nat
    BY <2>2, FS_CardinalityType
  <2>4. QED
    BY <1>1, <2>1, <2>3
<1>3. ~is_first
  <2>1. SUFFICES ASSUME is_first PROVE FALSE
    OBVIOUS
  <2>2. Left \subseteq {Main, Main}
    BY <2>1 DEF QueueInv, NoneYet, Left, Creation
  <2>3. QED
    BY <1>2, <2>2
<1>4. PICK q \in Seq(Task) : Chained(q) /\ Lists(q)
  BY <1>3 DEF QueueInv
<1>5. Len(q) >= 2
  <2>1. Len(q) \in Nat /\ Len(q) >= 1
    BY <1>4 DEF Chained, Chain
  <2>2. SUFFICES ASSUME Len(q) = 1 PROVE FALSE
    <3>1. \A n \in Nat : n >= 1 /\ n # 1 => n >= 2
      OBVIOUS
    <3>2. QED
      BY <2>1, <3>1
  <2>3. \A i \in Task : Waits(i) => i = q[1]
    BY <1>4, <2>2 DEF Lists, In
  <2>4. \A i \in Task : ~Joining(i)
    BY DEF Joining, Creation
  <2>5. Left \subseteq {currentPCB, q[1]}
    BY <2>3, <2>4 DEF Left, Waits
  <2>6. QED
    BY <1>2, <2>5
<1>6. QED
  BY <1>3, <1>4, <1>5

(* A task that waits is to be run.                                         *)
LEMMA WaitingRuns ==
  ASSUME QueueInv, NEW i \in Task, Waits(i)
  PROVE  state[i] # "TERMINATED" /\ pc[i] \notin {"clean", "unlock", "wild"}
<1>1. i # currentPCB /\ pc[i] \notin {"unused", "gone"}
  BY DEF Waits
<1>2. pc[i] \notin {"clean", "unlock", "wild"}
  BY <1>1 DEF QueueInv, IInv, LocksHeld, Started, Terminating
<1>3. QED
  BY <1>1, <1>2 DEF QueueInv, Ended

(* Whatever leaves alone who waits and their links leaves the queue alone. *)
LEMMA ListStays ==
  ASSUME QueueInv, IInv', UNCHANGED <<start, end, is_first>>,
         ~is_first => \A i \in Task : /\ Waits(i)' <=> Waits(i)
                                      /\ Waits(i) /\ i # end => next'[i] = next[i]
  PROVE  /\ ReadyQueue' = ReadyQueue
         /\ is_first' \/ \E q \in Seq(Task) : Chained(q)' /\ Lists(q)'
<1>1. CASE is_first
  BY <1>1, QueueHere, QueueThere DEF QueueFact
<1>2. CASE ~is_first
  <2>1. PICK q \in Seq(Task) : Chained(q) /\ Lists(q)
    BY <1>2 DEF QueueInv
  <2>2. Len(q) \in Nat /\ Len(q) >= 1 /\ q \in [1 .. Len(q) -> Task]
    BY <2>1 DEF Chained, Chain
  <2>3. Lists(q)'
    BY <1>2, <2>1 DEF Lists
  <2>4. ASSUME NEW k \in 1 .. (Len(q) - 1) PROVE next'[q[k]] = q[k + 1]
    <3>1. k \in 1 .. Len(q) /\ Len(q) \in 1 .. Len(q) /\ k # Len(q)
      <4>1. \A n \in Nat : n >= 1 =>
              n \in 1 .. n /\ \A j \in 1 .. (n - 1) : j \in 1 .. n /\ j # n
        OBVIOUS
      <4>2. QED
        BY <2>2, <4>1
    <3>2. q[k] \in Task /\ Waits(q[k]) /\ q[k] # end
      BY <2>1, <2>2, <3>1 DEF Chained, Chain, Lists, In
    <3>3. next'[q[k]] = next[q[k]]
      BY <1>2, <3>2
    <3>4. QED
      BY <2>1, <3>3 DEF Chained, Chain
  <2>5. Chained(q)'
    BY <2>1, <2>4 DEF Chained, Chain
  <2>6. ReadyQueue = q
    BY <1>2, <2>1, QueueHere DEF QueueFact, QueueInv, IInv
  <2>7. ReadyQueue' = q
    BY <1>2, <2>5, QueueThere DEF QueueFact, IInv
  <2>8. QED
    BY <2>3, <2>5, <2>6, <2>7
<1>3. QED
  BY <1>1, <1>2
-----------------------------------------------------------------------------
(* A sequence without its head.                                            *)
LEMMA TailFacts ==
  ASSUME NEW S, NEW q \in Seq(S), Len(q) >= 2
  PROVE  /\ q # <<>> /\ Head(q) = q[1]
         /\ Tail(q) \in Seq(S) /\ Len(Tail(q)) = Len(q) - 1
         /\ \A k \in 1 .. (Len(q) - 1) : Tail(q)[k] = q[k + 1]
<1>1. Len(q) \in Nat /\ q # <<>>
  OBVIOUS
<1>2. QED
  BY <1>1

(* The same sequence with c behind it.                                     *)
LEMMA AppendFacts ==
  ASSUME NEW S, NEW q \in Seq(S), NEW c \in S
  PROVE  /\ Append(q, c) \in Seq(S) /\ Len(Append(q, c)) = Len(q) + 1
         /\ \A k \in 1 .. Len(q) : Append(q, c)[k] = q[k]
         /\ Append(q, c)[Len(q) + 1] = c
OBVIOUS

(* The list's head is taken off.                                           *)
LEMMA HeadOff ==
  ASSUME NEW q \in Seq(Task), NEW s, NEW e, NEW nx, Chain(q, s, e, nx), Len(q) >= 2
  PROVE  /\ Tail(q) \in Seq(Task) /\ Chain(Tail(q), nx[q[1]], e, nx)
         /\ \A i \in Task : In(i, Tail(q)) <=> i # q[1] /\ In(i, q)
<1>1. PICK n \in Nat : n = Len(q)
  OBVIOUS
<1>2. PICK t \in Seq(Task) : /\ t = Tail(q) /\ Len(t) = n - 1
                             /\ \A k \in 1 .. (n - 1) : t[k] = q[k + 1]
  BY <1>1, TailFacts
<1>3. n >= 2 /\ n - 1 \in Nat /\ 1 \in 1 .. n /\ 1 \in 1 .. (n - 1) /\ n - 1 >= 1
  BY <1>1
<1>4. /\ q[1] = s /\ q[n] = e
      /\ \A k \in 1 .. (n - 1) : nx[q[k]] = q[k + 1]
      /\ \A j, k \in 1 .. n : q[j] = q[k] => j = k
  BY <1>1 DEF Chain
<1>5. t[1] = q[2] /\ t[n - 1] = q[n]
  <2>1. 1 + 1 = 2 /\ (n - 1) + 1 = n /\ n - 1 \in 1 .. (n - 1)
    BY <1>3
  <2>2. QED
    BY <1>2, <1>3, <2>1
<1>6. t[1] = nx[q[1]] /\ t[n - 1] = e
  <2>1. 1 + 1 = 2
    OBVIOUS
  <2>2. QED
    BY <1>3, <1>4, <1>5, <2>1
<1>7. ASSUME NEW k \in 1 .. ((n - 1) - 1) PROVE nx[t[k]] = t[k + 1]
  <2>1. k \in 1 .. (n - 1) /\ k + 1 \in 1 .. (n - 1)
    BY <1>3
  <2>2. QED
    BY <1>2, <1>4, <2>1
<1>8. ASSUME NEW j \in 1 .. (n - 1), NEW k \in 1 .. (n - 1), t[j] = t[k] PROVE j = k
  <2>1. j + 1 \in 1 .. n /\ k + 1 \in 1 .. n /\ j \in Int /\ k \in Int
    BY <1>3
  <2>2. j + 1 = k + 1
    BY <1>2, <1>4, <1>8, <2>1
  <2>3. QED
    BY <2>1, <2>2
<1>9. Chain(t, nx[q[1]], e, nx)
  BY <1>2, <1>3, <1>6, <1>7, <1>8 DEF Chain
<1>10. ASSUME NEW i \in Task
       PROVE  (\E k \in 1 .. (n - 1) : t[k] = i)
                <=> i # q[1] /\ \E k \in 1 .. n : q[k] = i
  <2>1. ASSUME NEW k \in 1 .. (n - 1), t[k] = i
        PROVE  i # q[1] /\ \E j \in 1 .. n : q[j] = i
    <3>1. k + 1 \in 1 .. n /\ k + 1 # 1
      BY <1>3
    <3>2. QED
      BY <1>2, <1>3, <1>4, <2>1, <3>1
  <2>2. ASSUME i # q[1], NEW k \in 1 .. n, q[k] = i
        PROVE  \E j \in 1 .. (n - 1) : t[j] = i
    <3>1. k # 1
      BY <2>2
    <3>2. k - 1 \in 1 .. (n - 1) /\ (k - 1) + 1 = k
      BY <1>3, <3>1
    <3>3. QED
      BY <1>2, <2>2, <3>2
  <2>3. QED
    BY <2>1, <2>2
<1>11. QED
  BY <1>1, <1>2, <1>9, <1>10 DEF In

(* A task that is not in the list is linked behind its end.                *)
LEMMA TailOn ==
  ASSUME NEW q \in Seq(Task), NEW s, NEW e, NEW nx \in [Task -> Task \cup {Null}],
         NEW c \in Task, Chain(q, s, e, nx), ~In(c, q)
  PROVE  /\ Append(q, c) \in Seq(Task) /\ Chain(Append(q, c), s, c, [nx EXCEPT ![e] = c])
         /\ \A i \in Task : In(i, Append(q, c)) <=> i = c \/ In(i, q)
<1>1. PICK n \in Nat : n = Len(q)
  OBVIOUS
<1>2. PICK t \in Seq(Task) : /\ t = Append(q, c) /\ Len(t) = n + 1
                             /\ \A k \in 1 .. n : t[k] = q[k]
                             /\ t[n + 1] = c
  <2>1. /\ Append(q, c) \in Seq(Task) /\ Len(Append(q, c)) = n + 1
        /\ \A k \in 1 .. n : Append(q, c)[k] = q[k]
        /\ Append(q, c)[n + 1] = c
    BY <1>1, AppendFacts
  <2>2. QED
    BY <2>1
<1>3. /\ q[1] = s /\ q[n] = e
      /\ \A k \in 1 .. (n - 1) : nx[q[k]] = q[k + 1]
      /\ \A j, k \in 1 .. n : q[j] = q[k] => j = k
      /\ \A k \in 1 .. n : q[k] # c
      /\ n >= 1
  BY <1>1 DEF Chain, In
<1>4. n >= 1 /\ 1 \in 1 .. n /\ n \in 1 .. n /\ n + 1 >= 1 /\ (n + 1) - 1 = n
  BY <1>3
<1>5. \A k \in 1 .. (n + 1) : k \in 1 .. n \/ k = n + 1
  BY <1>4
<1>6. t[1] = s /\ t[n + 1] = c
  BY <1>3, <1>2, <1>4
<1>7. ASSUME NEW k \in 1 .. n PROVE [nx EXCEPT ![e] = c][t[k]] = t[k + 1]
  <2>1. t[k] = q[k] /\ q[k] \in Task /\ e \in Task
    BY <1>3, <1>2, <1>4
  <2>2. CASE k = n
    BY <1>3, <1>2, <2>1, <2>2
  <2>3. CASE k # n
    <3>1. k \in 1 .. (n - 1) /\ k + 1 \in 1 .. n
      BY <1>4, <2>3
    <3>2. q[k] # e
      BY <1>3, <1>4, <2>3
    <3>3. QED
      BY <1>3, <1>2, <2>1, <3>1, <3>2
  <2>4. QED
    BY <2>2, <2>3
<1>8. \A j, k \in 1 .. (n + 1) : t[j] = t[k] => j = k
  BY <1>3, <1>2, <1>5
<1>9. Chain(t, s, c, [nx EXCEPT ![e] = c])
  BY <1>2, <1>4, <1>6, <1>7, <1>8 DEF Chain
<1>10. ASSUME NEW i \in Task
      PROVE  (\E k \in 1 .. (n + 1) : t[k] = i) <=> i = c \/ \E k \in 1 .. n : q[k] = i
  <2>1. n + 1 \in 1 .. (n + 1) /\ \A k \in 1 .. n : k \in 1 .. (n + 1)
    BY <1>4
  <2>2. QED
    BY <1>2, <1>5, <2>1
<1>11. QED
  BY <1>1, <1>2, <1>9, <1>10 DEF In
-----------------------------------------------------------------------------
(* Who waits first is run.                                                 *)
LEMMA HeadRuns ==
  ASSUME QueueInv, NEW q \in Seq(Task), Chained(q), Lists(q), pc[Main] \notin Creation
  PROVE  /\ start = q[1] /\ start \in Task /\ Waits(start) /\ Switches(state, start)
         /\ Resumed(start) \notin {"unused", "gone", "raw", "fresh"}
                                    \cup Terminating \cup Creation
<1>1. start = q[1] /\ start \in Task /\ Waits(start)
  <2>1. Len(q) \in Nat /\ Len(q) >= 1
    BY DEF Chained, Chain
  <2>2. 1 \in 1 .. Len(q) /\ start = q[1]
    BY <2>1 DEF Chained, Chain
  <2>3. q[1] \in Task
    BY <2>2
  <2>4. QED
    BY <2>2, <2>3 DEF Lists, In
<1>2. state[start] # "TERMINATED" /\ start # Null
  BY <1>1, WaitingRuns DEF Task, Null
<1>3. pc[start] \notin Terminating \cup Creation \cup {"unused", "gone"}
  BY <1>1 DEF Waits, QueueInv, IInv, LocksHeld, Creator
<1>4. Resumed(start) \notin {"unused", "gone", "raw", "fresh"}
                              \cup Terminating \cup Creation
  BY <1>3 DEF Resumed, Terminating, Creation
<1>5. QED
  BY <1>1, <1>2, <1>4 DEF Switches, Runnable

(* Who waits after a switch to the head of the list: those who did, but    *)
(* for the head, and the task that ran if it has not gone.                 *)
LEMMA SwitchWaits ==
  ASSUME QueueInv, NEW q \in Seq(Task), Chained(q), Lists(q), pc[Main] \notin Creation,
         currentPCB' = start, UNCHANGED mine,
         \A i \in Task : i # start /\ i # currentPCB => pc'[i] = pc[i],
         pc'[start] = Resumed(start),
         pc'[currentPCB] \notin {"unused", "raw", "fresh"} \cup Terminating \cup Creation
  PROVE  /\ pc'[Main] \notin Creation
         /\ \A i \in Task :
              Waits(i)' <=> /\ i # start
                            /\ Waits(i) \/ (i = currentPCB /\ pc'[i] # "gone")
<1>1. /\ start \in Task /\ Waits(start) /\ start # currentPCB
      /\ pc'[start] \notin {"unused", "gone", "raw", "fresh"} \cup Terminating \cup Creation
  BY HeadRuns DEF Waits
<1>2. Main \in Task /\ currentPCB \in Task
  BY SchedulerAssumption DEF Main, Task, QueueInv, IInv, TypeOK
<1>3. pc'[Main] \notin Creation
  BY <1>1, <1>2
<1>4. (\A i \in Task : ~Joining(i)) /\ \A i \in Task : ~Joining(i)'
  BY <1>3 DEF Joining, Creation
<1>5. ASSUME NEW i \in Task
      PROVE  Waits(i)' <=> /\ i # start
                           /\ Waits(i) \/ (i = currentPCB /\ pc'[i] # "gone")
  BY <1>1, <1>2, <1>4 DEF Waits
<1>6. QED
  BY <1>3, <1>5

(* A tick sends the current task to the end of the queue.                  *)
LEMMA TickRotates ==
  ASSUME QueueInv, ThreeLeft, InTime', Creation \subseteq Calm, PitTick
  PROVE  QueueInv' /\ Ideal!Preempt
<1> USE SchedulerAssumption
<1>1. /\ IInv /\ TypeOK /\ currentPCB \in Task /\ Main \in Task
      /\ state \in [Task -> State] /\ next \in [Task -> Task \cup {Null}]
      /\ IInv'
  <2>1. IInv /\ IInv'
    BY PitTickInv DEF QueueInv
  <2>2. TypeOK /\ Main \in Task
    BY <2>1 DEF IInv, Main, Task
  <2>3. QED
    BY <2>1, <2>2 DEF TypeOK
<1>2. pc[Main] \notin Creation
  <2>1. SUFFICES ASSUME pc[Main] \in Creation PROVE FALSE
    OBVIOUS
  <2>2. pc[currentPCB] \in Creation
    BY <2>1 DEF QueueInv, Alone
  <2>3. ~Idle
    BY <2>2 DEF Idle, Creation
  <2>4. QED
    BY <2>2, <2>3 DEF PitTick
<1>3. ~is_first
  BY <1>2, Enough
<1>4. PICK q \in Seq(Task) : Chained(q) /\ Lists(q) /\ Len(q) >= 2
  BY <1>2, Enough
<1>5. /\ start = q[1] /\ start \in Task /\ Waits(start) /\ Switches(state, start)
      /\ Resumed(start) \notin {"unused", "gone", "raw", "fresh"}
                                 \cup Terminating \cup Creation
  BY <1>2, <1>4, HeadRuns
<1>6. postponed = 0 /\ pc[currentPCB] \notin Terminating \cup {"wild"}
  <2>1. intr /\ pc[currentPCB] # "wild"
    BY DEF PitTick
  <2>2. postponed = 0 /\ pc[currentPCB] \notin Terminating
    BY <1>1, <2>1 DEF IInv, LocksHeld
  <2>3. QED
    BY <2>1, <2>2
<1>7. StateAfterPass = state /\ state[currentPCB] = "RUNNING"
  <2>1. uptime' < MAX_TASK_TIME /\ uptime < MAX_TASK_TIME
    BY <1>1, PassFacts DEF InTime, TypeOK
  <2>2. \A i \in Task : uptime' - switch_time[i] < MAX_TASK_TIME
    <3>1. \A i \in Task : switch_time[i] \in Nat
      BY <1>1 DEF TypeOK
    <3>2. uptime' \in Nat
      BY <1>1, PassFacts
    <3>3. QED
      BY <2>1, <3>1, <3>2
  <2>3. ASSUME NEW i \in Task PROVE StateAfterPass[i] = state[i]
    <3>1. switch_time[i] \in Nat /\ uptime' \in Nat
      BY <1>1, PassFacts DEF TypeOK
    <3>2. ~(uptime' - switch_time[i] >= MAX_TASK_TIME)
      BY <2>2, <3>1
    <3>3. QED
      BY <1>1, <3>2, PassFacts
  <2>4. StateAfterPass = state
    <3>1. StateAfterPass \in [Task -> State]
      BY <1>1, PassFacts
    <3>2. QED
      BY <1>1, <2>3, <3>1
  <2>5. QED
    BY <1>1, <1>6, <2>1, <2>4 DEF IInv, RunningIsCurrent
<1>8. Schedule(state, next, start, end)
  BY <1>1, <1>6, <1>7, PassFacts DEF PitTick, StartAfter, EndAfter, NextAfter
<1>9. start' = next[start] /\ SwitchTo(start, state, next, end)
  BY <1>5, <1>8 DEF Schedule, Switches
<1>10. /\ next' = [next EXCEPT ![end] = currentPCB] /\ end' = currentPCB
       /\ currentPCB' = start
       /\ state' = StateSwitched(currentPCB, start, state)
  BY <1>7, <1>9 DEF SwitchTo
<1>11. /\ pc' = [pc EXCEPT ![start] = Resumed(start)]
       /\ UNCHANGED <<is_first, mine>>
  BY <1>10 DEF PitTick, locals
<1>12. /\ pc'[start] = Resumed(start) /\ start # currentPCB
       /\ \A i \in Task : i # start => pc'[i] = pc[i]
  BY <1>1, <1>5, <1>11 DEF TypeOK, Waits
<1>13. /\ pc'[currentPCB] = pc[currentPCB]
       /\ pc[currentPCB] \notin {"unused", "gone", "raw", "fresh"}
                                  \cup Terminating \cup Creation
  BY <1>1, <1>2, <1>6, <1>12 DEF IInv, Started, Creator
<1>14. /\ pc'[Main] \notin Creation
       /\ \A i \in Task : Waits(i)' <=> i # start /\ (Waits(i) \/ i = currentPCB)
  BY <1>2, <1>4, <1>10, <1>11, <1>12, <1>13, SwitchWaits
<1>15. PICK c \in Task : c = currentPCB
  BY <1>1
<1>16. PICK r : r = Append(Tail(q), c)
  OBVIOUS
<1>17. /\ Tail(q) \in Seq(Task) /\ Chain(Tail(q), start', end, next)
       /\ \A i \in Task : In(i, Tail(q)) <=> i # q[1] /\ In(i, q)
  BY <1>4, <1>5, <1>9, HeadOff DEF Chained
<1>18. /\ r \in Seq(Task) /\ Chain(r, start', c, [next EXCEPT ![end] = c])
       /\ \A i \in Task : In(i, r) <=> i = c \/ In(i, Tail(q))
  <2>1. ~In(c, Tail(q))
    <3>1. ~Waits(c)
      BY <1>15 DEF Waits
    <3>2. QED
      BY <1>4, <1>17, <3>1 DEF Lists
  <2>2. PICK t, s, e, nx : t = Tail(q) /\ s = start' /\ e = end /\ nx = next
    OBVIOUS
  <2>3. /\ t \in Seq(Task) /\ nx \in [Task -> Task \cup {Null}]
        /\ Chain(t, s, e, nx) /\ ~In(c, t)
    BY <1>1, <1>17, <2>1, <2>2
  <2>4. /\ Append(t, c) \in Seq(Task) /\ Chain(Append(t, c), s, c, [nx EXCEPT ![e] = c])
        /\ \A i \in Task : In(i, Append(t, c)) <=> i = c \/ In(i, t)
    BY <2>3, TailOn
  <2>5. QED
    BY <1>16, <2>2, <2>4
<1>19. Chained(r)' /\ Lists(r)'
  <2>1. Chained(r)'
    BY <1>10, <1>15, <1>18 DEF Chained
  <2>2. ASSUME NEW i \in Task PROVE Waits(i)' <=> In(i, r)
    BY <1>4, <1>5, <1>12, <1>14, <1>15, <1>17, <1>18 DEF Lists
  <2>3. QED
    BY <2>1, <2>2 DEF Lists
<1>20. Ended'
  <2>1. \A i \in Task : state'[i] = "TERMINATED" => state[i] = "TERMINATED" /\ i # start
    BY <1>1, <1>5, <1>10 DEF StateSwitched
  <2>2. QED
    BY <1>12, <2>1 DEF QueueInv, Ended
<1>21. Alone' /\ NoneYet'
  BY <1>3, <1>11, <1>14 DEF Alone, NoneYet, Creation
<1>22. QueueInv'
  BY <1>1, <1>18, <1>19, <1>20, <1>21 DEF QueueInv
<1>23. ReadyQueue = q /\ ReadyQueue' = r
  BY <1>1, <1>3, <1>4, <1>11, <1>18, <1>19, QueueHere, QueueThere DEF QueueFact, IInv
<1>24. Ideal!Preempt
  <2>1. q # <<>> /\ Head(q) = q[1]
    BY <1>4, TailFacts
  <2>2. QED
    BY <1>5, <1>10, <1>15, <1>16, <1>23, <2>1 DEF Ideal!Preempt
<1>25. QED
  BY <1>22, <1>24

(* The last unlock_task of terminate_task runs the head of the queue.      *)
LEMMA UnlockLeaves ==
  ASSUME QueueInv, ThreeLeft, UnlockSwitch \/ UnlockReturn
  PROVE  QueueInv' /\ Ideal!Exit
<1> USE SchedulerAssumption
<1>1. /\ TypeOK /\ currentPCB \in Task /\ Main \in Task /\ pc[currentPCB] = "unlock"
      /\ state \in [Task -> State] /\ state[currentPCB] = "TERMINATED"
      /\ Schedule(state, next, start, end)
      /\ UNCHANGED <<is_first, mine>>
  <2>1. IInv /\ TypeOK /\ Main \in Task
    BY DEF QueueInv, IInv, Main, Task
  <2>2. QED
    BY <2>1, UnlockFacts DEF TypeOK, locals
<1>2. pc[Main] \notin Creation
  BY <1>1 DEF QueueInv, Alone, Creation
<1>3. ~is_first
  BY <1>2, Enough
<1>4. PICK q \in Seq(Task) : Chained(q) /\ Lists(q) /\ Len(q) >= 2
  BY <1>2, Enough
<1>5. /\ start = q[1] /\ start \in Task /\ Waits(start) /\ Switches(state, start)
      /\ Resumed(start) \notin {"unused", "gone", "raw", "fresh"}
                                 \cup Terminating \cup Creation
  BY <1>2, <1>4, HeadRuns
(* The schedule() of unlock_task never returns.                            *)
<1>6. UnlockSwitch /\ IInv'
  <2>1. UnlockSwitch
    BY <1>5 DEF UnlockReturn
  <2>2. QED
    BY <2>1, UnlockSwitchInv DEF QueueInv
<1>7. /\ start' = next[start] /\ next' = next /\ end' = end /\ currentPCB' = start
      /\ state' = StateSwitched(currentPCB, start, state)
  <2>1. start' = next[start] /\ SwitchTo(start, state, next, end)
    BY <1>1, <1>5 DEF Schedule, Switches
  <2>2. QED
    BY <1>1, <2>1 DEF SwitchTo
<1>8. /\ pc'[currentPCB] = "gone" /\ pc'[start] = Resumed(start)
      /\ start # currentPCB
      /\ \A i \in Task : i # start /\ i # currentPCB => pc'[i] = pc[i]
  BY <1>1, <1>5, <1>6 DEF UnlockSwitch, TypeOK, Waits
<1>9. /\ pc'[Main] \notin Creation
      /\ \A i \in Task : Waits(i)' <=> i # start /\ Waits(i)
  <2>1. /\ pc'[Main] \notin Creation
        /\ \A i \in Task :
             Waits(i)' <=> /\ i # start
                           /\ Waits(i) \/ (i = currentPCB /\ pc'[i] # "gone")
    BY <1>1, <1>2, <1>4, <1>7, <1>8, SwitchWaits DEF Terminating, Creation
  <2>2. QED
    BY <1>8, <2>1
<1>10. PICK r : r = Tail(q)
  OBVIOUS
<1>11. /\ r \in Seq(Task) /\ Chain(r, start', end, next)
       /\ \A i \in Task : In(i, r) <=> i # q[1] /\ In(i, q)
  BY <1>4, <1>5, <1>7, <1>10, HeadOff DEF Chained
<1>12. Chained(r)' /\ Lists(r)'
  <2>1. Chained(r)'
    BY <1>7, <1>11 DEF Chained
  <2>2. ASSUME NEW i \in Task PROVE Waits(i)' <=> In(i, r)
    BY <1>4, <1>5, <1>9, <1>11 DEF Lists
  <2>3. QED
    BY <2>1, <2>2 DEF Lists
<1>13. Ended'
  <2>1. \A i \in Task : state'[i] = "TERMINATED" => state[i] = "TERMINATED" /\ i # start
    BY <1>1, <1>5, <1>7 DEF StateSwitched
  <2>2. QED
    BY <1>8, <2>1 DEF QueueInv, Ended
<1>14. Alone' /\ NoneYet'
  BY <1>1, <1>3, <1>9 DEF Alone, NoneYet, Creation
<1>15. QueueInv'
  BY <1>6, <1>11, <1>12, <1>13, <1>14 DEF QueueInv
<1>16. ReadyQueue = q /\ ReadyQueue' = r
  BY <1>1, <1>3, <1>4, <1>6, <1>11, <1>12, QueueHere, QueueThere DEF QueueFact, IInv
<1>17. Ideal!Exit
  <2>1. q # <<>> /\ Head(q) = q[1]
    BY <1>4, TailFacts
  <2>2. QED
    BY <1>5, <1>7, <1>10, <1>16, <2>1 DEF Ideal!Exit
<1>18. QED
  BY <1>15, <1>17
-----------------------------------------------------------------------------
(* Task 0 admits the process it creates: the first when it puts it in its  *)
(* own place, the others when it makes them the list's end.                *)
(* What task 0 finds while it creates a process.                           *)
LEMMA CreatingQueue ==
  ASSUME QueueInv, pc[currentPCB] \in Creation
  PROVE  /\ TypeOK /\ IInv /\ currentPCB = Main /\ Main \in Task
         /\ state[Main] # "TERMINATED"
         /\ pc[Main] # "claim" => /\ mine \in Task /\ mine # Main /\ pc[mine] = "raw"
                                  /\ state[mine] # "TERMINATED"
<1>1. IInv /\ TypeOK
  BY DEF QueueInv, IInv
<1>2. currentPCB = Main /\ Main \in Task /\ (pc[Main] # "claim" => mine \in Task)
  BY <1>1, CreatorFacts
<1>3. pc[Main] # "claim" => pc[mine] = "raw"
  BY <1>2 DEF QueueInv, Alone
<1>4. \A i \in Task : pc[i] \in Creation \cup {"raw"} => state[i] # "TERMINATED"
  BY DEF QueueInv, Ended, Creation
<1>5. QED
  BY <1>1, <1>2, <1>3, <1>4 DEF Creation

(* A PCB that is claimed is in no list yet.                                *)
LEMMA ClaimQueue ==
  ASSUME QueueInv, Claim
  PROVE  QueueInv' /\ UNCHANGED <<currentPCB, ReadyQueue>>
<1>1. pc[currentPCB] = "claim" /\ IInv'
  BY ClaimInv DEF Claim, QueueInv
<1>2. TypeOK /\ IInv /\ currentPCB = Main /\ Main \in Task /\ used[Main]
      /\ \A i \in Task : pc[i] \notin Terminating
  BY <1>1, CreatingQueue, CreatorFacts DEF Creation
<1>3. PICK n \in Unused :
        /\ pc' = [pc EXCEPT ![currentPCB] = "first", ![n] = "raw"]
        /\ next' = [next EXCEPT ![n] = Main]
        /\ state' = [state EXCEPT ![n] = "READY"]
        /\ mine' = n
        /\ UNCHANGED <<currentPCB, start, end, is_first>>
  BY DEF Claim
<1>4. n \in Task /\ n # Main /\ pc[n] \in {"unused", "gone"}
  <2>1. n \in Task /\ ~used[n]
    BY DEF Unused
  <2>2. QED
    BY <1>2, <2>1 DEF IInv, FreedBeforeGone, Started, Terminating
<1>5. /\ pc'[Main] = "first" /\ pc'[n] = "raw"
      /\ \A i \in Task : i # Main /\ i # n => pc'[i] = pc[i]
      /\ state'[n] = "READY"
      /\ \A i \in Task : i # n => state'[i] = state[i] /\ next'[i] = next[i]
  BY <1>2, <1>3, <1>4 DEF TypeOK
<1>6. ASSUME ~is_first
      PROVE  end # n /\ \A i \in Task : /\ Waits(i)' <=> Waits(i)
                                        /\ Waits(i) /\ i # end => next'[i] = next[i]
  <2>1. end # n
    <3>1. PICK q \in Seq(Task) : Chained(q) /\ Lists(q)
      BY <1>6 DEF QueueInv
    <3>2. Len(q) \in Nat /\ Len(q) >= 1
      BY <3>1 DEF Chained, Chain
    <3>3. Len(q) \in 1 .. Len(q)
      <4>1. \A l \in Nat : l >= 1 => l \in 1 .. l
        OBVIOUS
      <4>2. QED
        BY <3>2, <4>1
    <3>4. end \in Task /\ Waits(end)
      BY <1>2, <3>1, <3>3 DEF Lists, In, Chained, Chain, TypeOK
    <3>5. QED
      BY <1>4, <3>4 DEF Waits
  <2>2. \A i \in Task : Waits(i)' <=> Waits(i)
    BY <1>1, <1>2, <1>3, <1>4, <1>5, <2>1 DEF Waits, Joining
  <2>3. \A i \in Task : Waits(i) => i # n
    BY <1>4 DEF Waits
  <2>4. QED
    BY <1>5, <2>1, <2>2, <2>3
<1>7. /\ ReadyQueue' = ReadyQueue
      /\ is_first' \/ \E q \in Seq(Task) : Chained(q)' /\ Lists(q)'
  BY <1>1, <1>3, <1>6, ListStays
<1>8. Ended'
  <2>1. state[Main] # "TERMINATED"
    BY <1>1, CreatingQueue DEF Creation
  <2>2. \A i \in Task : i # Main /\ i # n /\ state'[i] = "TERMINATED" =>
          pc'[i] \in {"clean", "unlock", "gone", "wild"}
    BY <1>5 DEF QueueInv, Ended
  <2>3. state'[Main] # "TERMINATED" /\ state'[n] # "TERMINATED"
    BY <1>2, <1>4, <1>5, <2>1
  <2>4. QED
    BY <2>2, <2>3 DEF Ended
<1>9. Alone' /\ NoneYet'
  <2>1. Alone'
    BY <1>2, <1>3, <1>5 DEF Alone, Creation
  <2>2. is_first' = is_first /\ mine' = n
    BY <1>3
  <2>3. is_first => \A i \in Task \ {Main} : pc[i] = "unused"
    BY <1>1, <1>2 DEF QueueInv, NoneYet
  <2>4. ASSUME is_first', NEW i \in Task \ {Main}
        PROVE  pc'[i] = "unused" \/ (pc'[Main] = "first" /\ i = mine')
    <3>1. CASE i = n
      BY <1>5, <2>2, <3>1
    <3>2. CASE i # n
      <4>1. pc[i] = "unused"
        BY <2>2, <2>3, <2>4
      <4>2. pc'[i] = pc[i]
        BY <1>5, <3>2
      <4>3. QED
        BY <4>1, <4>2
    <3>3. QED
      BY <3>1, <3>2
  <2>5. NoneYet'
    BY <1>5, <2>4 DEF NoneYet
  <2>6. QED
    BY <2>1, <2>5
<1>10. QED
  BY <1>1, <1>3, <1>7, <1>8, <1>9 DEF QueueInv

(* The first process is the queue from now on.                             *)
LEMMA FirstQueue ==
  ASSUME QueueInv, First
  PROVE  QueueInv' /\ (Ideal!Admit(mine) \/ UNCHANGED <<currentPCB, ReadyQueue>>)
<1>1. pc[currentPCB] = "first" /\ IInv' /\ UNCHANGED <<next, state, currentPCB, mine>>
  BY LinkingInv DEF First, Moves, QueueInv, pcbs, locals
<1>2. /\ TypeOK /\ currentPCB = Main /\ Main \in Task
      /\ mine \in Task /\ mine # Main /\ pc[mine] = "raw"
      /\ state[Main] # "TERMINATED"
  BY <1>1, CreatingQueue DEF Creation
<1>3. pc'[Main] = "link" /\ \A i \in Task : i # Main => pc'[i] = pc[i]
  BY <1>2 DEF First, Moves, TypeOK
<1>4. Ended' /\ Alone'
  BY <1>1, <1>2, <1>3 DEF QueueInv, Ended, Alone, Creation
<1>5. CASE is_first
  <2>1. start' = mine /\ end' = mine /\ is_first' = FALSE
    BY <1>5 DEF First
  <2>2. PICK m \in Task : m = mine
    BY <1>2
  <2>3. PICK r : r = <<m>>
    OBVIOUS
  <2>4. r \in Seq(Task) /\ Len(r) = 1 /\ r[1] = m /\ r = Append(<<>>, m)
    BY <2>3
  <2>5. \A i \in Task : In(i, r) <=> i = m
    BY <2>4 DEF In
  <2>6. Chained(r)'
    BY <2>1, <2>2, <2>4 DEF Chained, Chain
  <2>7. \A i \in Task : Waits(i)' <=> i = m
    BY <1>1, <1>2, <1>3, <1>5, <2>1, <2>2 DEF QueueInv, NoneYet, Waits, Joining
  <2>8. Lists(r)'
    BY <2>5, <2>7 DEF Lists
  <2>9. QueueInv'
    BY <1>1, <1>4, <2>1, <2>4, <2>6, <2>8 DEF QueueInv, NoneYet
  <2>10. ReadyQueue = <<>> /\ ReadyQueue' = r
    BY <1>1, <1>5, <2>1, <2>4, <2>6, QueueHere, QueueThere DEF QueueFact, IInv
  <2>11. Ideal!Admit(mine)
    BY <1>1, <1>2, <2>2, <2>4, <2>10 DEF Ideal!Admit, Ideal!Waiting
  <2>12. QED
    BY <2>9, <2>11
<1>6. CASE ~is_first
  <2>1. UNCHANGED <<start, end, is_first>>
    BY <1>6 DEF First
  <2>2. \A i \in Task : Waits(i)' <=> Waits(i)
    BY <1>1, <1>2, <1>3, <2>1 DEF Waits, Joining
  <2>3. /\ ReadyQueue' = ReadyQueue
        /\ is_first' \/ \E q \in Seq(Task) : Chained(q)' /\ Lists(q)'
    BY <1>1, <2>1, <2>2, ListStays
  <2>4. QED
    BY <1>1, <1>4, <1>6, <2>1, <2>3 DEF QueueInv, NoneYet
<1>7. QED
  BY <1>5, <1>6

(* The link is followed only when the end has moved.                       *)
LEMMA LinkQueue ==
  ASSUME QueueInv, Link
  PROVE  QueueInv' /\ UNCHANGED <<currentPCB, ReadyQueue>>
<1>1. /\ pc[currentPCB] = "link" /\ IInv'
      /\ UNCHANGED <<start, end, is_first, state, currentPCB, mine>>
      /\ next' = [next EXCEPT ![end] = mine]
  BY LinkingInv DEF Link, LinkAt, Moves, QueueInv, pcbs, locals
<1>2. /\ TypeOK /\ currentPCB = Main /\ Main \in Task
      /\ mine \in Task /\ mine # Main /\ pc[mine] = "raw"
      /\ state[Main] # "TERMINATED"
  BY <1>1, CreatingQueue DEF Creation
<1>3. pc'[Main] = "advance" /\ \A i \in Task : i # Main => pc'[i] = pc[i]
  BY <1>2 DEF Link, Moves, TypeOK
<1>4. next'[end] = mine /\ \A i \in Task : i # end => next'[i] = next[i]
  BY <1>1, <1>2 DEF TypeOK
<1>5. ~is_first
  BY <1>1, <1>2 DEF QueueInv, NoneYet
<1>6. Ended' /\ Alone' /\ NoneYet'
  BY <1>1, <1>2, <1>3, <1>4, <1>5 DEF QueueInv, Ended, Alone, NoneYet, Creation
<1>7. \A i \in Task : Waits(i)' <=> Waits(i)
  BY <1>1, <1>2, <1>3 DEF Waits, Joining
<1>8. /\ ReadyQueue' = ReadyQueue
      /\ is_first' \/ \E q \in Seq(Task) : Chained(q)' /\ Lists(q)'
  BY <1>1, <1>4, <1>7, ListStays
<1>9. QED
  BY <1>1, <1>6, <1>8 DEF QueueInv

(* It moves: the new process is the last in the queue.                     *)
LEMMA AdvanceQueue ==
  ASSUME QueueInv, Advance
  PROVE  QueueInv' /\ (Ideal!Admit(mine) \/ UNCHANGED <<currentPCB, ReadyQueue>>)
<1>1. /\ pc[currentPCB] = "advance" /\ IInv' /\ end' = mine
      /\ UNCHANGED <<start, is_first, next, state, currentPCB, mine>>
  BY LinkingInv DEF Advance, Moves, QueueInv, pcbs, locals
<1>2. /\ TypeOK /\ currentPCB = Main /\ Main \in Task
      /\ mine \in Task /\ mine # Main /\ pc[mine] = "raw"
      /\ state[Main] # "TERMINATED"
  BY <1>1, CreatingQueue DEF Creation
<1>3. pc'[Main] = "stack" /\ \A i \in Task : i # Main => pc'[i] = pc[i]
  BY <1>2 DEF Advance, Moves, TypeOK
<1>4. ~is_first
  BY <1>1, <1>2 DEF QueueInv, NoneYet
<1>5. Ended' /\ Alone' /\ NoneYet'
  BY <1>1, <1>2, <1>3, <1>4 DEF QueueInv, Ended, Alone, NoneYet, Creation
<1>6. CASE end = mine
  <2>1. \A i \in Task : Waits(i)' <=> Waits(i)
    BY <1>1, <1>2, <1>3, <1>6 DEF Waits, Joining
  <2>2. /\ ReadyQueue' = ReadyQueue
        /\ is_first' \/ \E q \in Seq(Task) : Chained(q)' /\ Lists(q)'
    BY <1>1, <1>6, <2>1, ListStays
  <2>3. QED
    BY <1>1, <1>5, <2>2 DEF QueueInv
<1>7. CASE end # mine
  <2>1. PICK m \in Task : m = mine
    BY <1>2
  <2>2. PICK q \in Seq(Task) : Chained(q) /\ Lists(q)
    BY <1>4 DEF QueueInv
  <2>3. /\ next[end] = m /\ next \in [Task -> Task \cup {Null}] /\ end \in Task
        /\ Chain(q, start, end, next)
        /\ [next EXCEPT ![end] = m] = next
    BY <1>1, <1>2, <1>7, <2>1, <2>2 DEF QueueInv, Alone, TypeOK, Chained
  <2>4. ~Waits(m) /\ ~In(m, q)
    <3>1. ~Waits(m)
      BY <1>1, <1>2, <1>7, <2>1 DEF Waits, Joining
    <3>2. QED
      BY <2>2, <3>1 DEF Lists
  <2>5. PICK r : r = Append(q, m)
    OBVIOUS
  <2>6. /\ r \in Seq(Task) /\ Chain(r, start, m, next)
        /\ \A i \in Task : In(i, r) <=> i = m \/ In(i, q)
    <3>1. PICK s, e, nx : s = start /\ e = end /\ nx = next
      OBVIOUS
    <3>2. /\ nx \in [Task -> Task \cup {Null}] /\ Chain(q, s, e, nx)
          /\ [nx EXCEPT ![e] = m] = nx
      BY <2>3, <3>1
    <3>3. /\ Append(q, m) \in Seq(Task)
          /\ Chain(Append(q, m), s, m, [nx EXCEPT ![e] = m])
          /\ \A i \in Task : In(i, Append(q, m)) <=> i = m \/ In(i, q)
      BY <2>4, <3>2, TailOn
    <3>4. QED
      BY <2>5, <3>1, <3>2, <3>3
  <2>7. Chained(r)'
    BY <1>1, <2>1, <2>6 DEF Chained
  <2>8. \A i \in Task : Waits(i)' <=> i = m \/ Waits(i)
    BY <1>1, <1>2, <1>3, <2>1 DEF Waits, Joining
  <2>9. Lists(r)'
    BY <2>2, <2>6, <2>8 DEF Lists
  <2>10. QueueInv'
    BY <1>1, <1>5, <2>6, <2>7, <2>9 DEF QueueInv
  <2>11. ReadyQueue = q /\ ReadyQueue' = r
    BY <1>1, <1>2, <1>4, <2>2, <2>6, <2>7, QueueHere, QueueThere DEF QueueFact, IInv
  <2>12. m \notin {q[k] : k \in DOMAIN q} \cup {currentPCB}
    <3>1. m # currentPCB
      BY <1>2, <2>1
    <3>2. QED
      BY <2>4, <3>1 DEF In
  <2>13. Ideal!Admit(mine)
    BY <1>1, <2>1, <2>5, <2>11, <2>12 DEF Ideal!Admit, Ideal!Waiting
  <2>14. QED
    BY <2>10, <2>13
<1>8. QED
  BY <1>6, <1>7

(* The rest of process_create leaves the list alone.                       *)
LEMMA CreatedQueue ==
  ASSUME QueueInv, ClaimFail \/ Stack
  PROVE  QueueInv' /\ UNCHANGED <<currentPCB, ReadyQueue>>
<1>1. /\ pc[currentPCB] \in {"claim", "stack"} /\ IInv'
      /\ UNCHANGED <<start, end, is_first, next, state, currentPCB>>
  BY LinkingInv, StackInv DEF ClaimFail, Stack, Moves, QueueInv, pcbs, list
<1>2. /\ TypeOK /\ currentPCB = Main /\ Main \in Task
      /\ state[Main] # "TERMINATED" /\ AfterCreate \in {"claim", "waitstart"}
      /\ pc[Main] = "stack" => mine \in Task /\ mine # Main /\ pc[mine] = "raw"
  BY <1>1, CreatingQueue DEF Creation, AfterCreate
<1>3. /\ pc'[Main] = AfterCreate
      /\ \A i \in Task : i # Main => \/ pc'[i] = pc[i]
                                     \/ /\ pc[i] = "raw" /\ pc'[i] = "fresh"
                                        /\ pc[Main] = "stack"
  BY <1>1, <1>2 DEF ClaimFail, Stack, Moves, TypeOK
<1>4. Ended' /\ Alone'
  BY <1>1, <1>2, <1>3 DEF QueueInv, Ended, Alone, Creation
<1>5. NoneYet'
  BY <1>1, <1>2, <1>3 DEF QueueInv, NoneYet
<1>6. \A i \in Task : Waits(i)' <=> Waits(i)
  BY <1>1, <1>2, <1>3 DEF Waits, Joining
<1>7. /\ ReadyQueue' = ReadyQueue
      /\ is_first' \/ \E q \in Seq(Task) : Chained(q)' /\ Lists(q)'
  BY <1>1, <1>6, ListStays
<1>8. QED
  BY <1>1, <1>4, <1>5, <1>7 DEF QueueInv
-----------------------------------------------------------------------------
(* What a task does on its own, up to its last unlock_task, is nothing to  *)
(* those that wait.                                                        *)
LEMMA OwnQueue ==
  ASSUME QueueInv, ThreeLeft, IInv', NEW p, NEW q, pc[currentPCB] = p,
         pc' = [pc EXCEPT ![currentPCB] = q],
         {p, q} \cap (Creation \cup {"unused", "gone", "raw", "fresh"}) = {},
         UNCHANGED <<start, end, is_first, currentPCB, mine>>,
         \A i \in Task : i # currentPCB => next'[i] = next[i] /\ state'[i] = state[i],
         state'[currentPCB] = "TERMINATED" => q \in {"clean", "unlock"}
  PROVE  QueueInv' /\ UNCHANGED <<currentPCB, ReadyQueue>>
<1>1. TypeOK /\ currentPCB \in Task /\ Main \in Task
  <2>1. TypeOK /\ Main \in Task
    BY SchedulerAssumption DEF QueueInv, IInv, Main, Task
  <2>2. QED
    BY <2>1 DEF TypeOK
<1>2. /\ pc'[currentPCB] = q
      /\ \A i \in Task : i # currentPCB => pc'[i] = pc[i]
  BY <1>1 DEF TypeOK
<1>3. pc[Main] \notin Creation /\ pc'[Main] \notin Creation
  BY <1>1, <1>2 DEF QueueInv, Alone
<1>4. ~is_first
  BY <1>3, Enough
<1>5. Ended'
  BY <1>2 DEF QueueInv, Ended
<1>6. Alone' /\ NoneYet'
  BY <1>3, <1>4 DEF Alone, NoneYet, Creation
<1>7. \A i \in Task : /\ Waits(i)' <=> Waits(i)
                      /\ Waits(i) => next'[i] = next[i]
  BY <1>2, <1>3 DEF Waits, Joining, Creation
<1>8. /\ ReadyQueue' = ReadyQueue
      /\ is_first' \/ \E r \in Seq(Task) : Chained(r)' /\ Lists(r)'
  BY <1>7, ListStays
<1>9. QED
  BY <1>5, <1>6, <1>8 DEF QueueInv

(* So do the steps of test_scheduler and of Process, ...                   *)
LEMMA PlainQueue ==
  ASSUME QueueInv, ThreeLeft,
         \/ WaitStart \/ WaitEnd \/ End \/ MainAwake
         \/ LoadInc \/ StoreInc \/ PrintChar \/ ProcessAwake
         \/ LoadDec \/ StoreDec
  PROVE  QueueInv' /\ UNCHANGED <<currentPCB, ReadyQueue>>
<1>1. IInv'
  BY PlainInv DEF QueueInv
<1>2. UNCHANGED <<start, end, is_first, next, state, currentPCB, mine>>
  BY DEF WaitStart, WaitEnd, End, MainAwake, LoadInc, StoreInc, PrintChar,
     ProcessAwake, LoadDec, StoreDec, list, pcbs, locals
<1>3. PICK p, q \in Plain : Moves(p, q)
  BY DEF WaitStart, WaitEnd, End, MainAwake, LoadInc, StoreInc, PrintChar,
     ProcessAwake, LoadDec, StoreDec, Plain, AfterSleep
<1>4. pc[currentPCB] = p /\ pc' = [pc EXCEPT ![currentPCB] = q]
  BY <1>3 DEF Moves
<1>5. {p, q} \cap (Creation \cup {"unused", "gone", "raw", "fresh"}) = {}
  BY DEF Plain, Creation
<1>6. state'[currentPCB] # "TERMINATED"
  BY <1>2, <1>4 DEF QueueInv, IInv, TypeOK, Ended, Plain
<1>7. QED
  BY <1>1, <1>2, <1>4, <1>5, <1>6, OwnQueue

(* ... and terminate_task, until it switches.                              *)
LEMMA EndingQueue ==
  ASSUME QueueInv, ThreeLeft, Terminate \/ Block \/ Clean \/ CleanDone
  PROVE  QueueInv' /\ UNCHANGED <<currentPCB, ReadyQueue>>
<1>1. IInv'
  BY TerminateInv, BlockInv, CleanInv DEF QueueInv
<1>2. TypeOK /\ currentPCB \in Task
  BY DEF QueueInv, IInv, TypeOK
<1>3. UNCHANGED <<start, end, is_first, currentPCB, mine>>
  BY DEF Terminate, Block, Clean, CleanDone, list, pcbs, locals
<1>4. \A i \in Task : i # currentPCB => next'[i] = next[i] /\ state'[i] = state[i]
  BY <1>2 DEF Terminate, Block, Clean, CleanDone, list, pcbs, TypeOK
<1>5. PICK p, q \in {"exit", "block", "clean", "unlock"} :
        /\ pc[currentPCB] = p /\ pc' = [pc EXCEPT ![currentPCB] = q]
        /\ q \in {"clean", "unlock"} \/ (p = "exit" /\ state' = state)
  <2>1. Clean => pc' = [pc EXCEPT ![currentPCB] = "clean"] /\ pc[currentPCB] = "clean"
    BY <1>2 DEF Clean, TypeOK
  <2>2. QED
    BY <2>1 DEF Terminate, Block, CleanDone, Moves, pcbs
<1>6. {p, q} \cap (Creation \cup {"unused", "gone", "raw", "fresh"}) = {}
  BY DEF Creation
<1>7. state'[currentPCB] = "TERMINATED" => q \in {"clean", "unlock"}
  BY <1>2, <1>5 DEF QueueInv, Ended
<1>8. QED
  BY <1>1, <1>3, <1>4, <1>5, <1>6, <1>7, OwnQueue

(* And if nothing happens, nothing changes.                                *)
LEMMA StutterQueue ==
  ASSUME QueueInv, UNCHANGED vars
  PROVE  QueueInv' /\ UNCHANGED <<currentPCB, ReadyQueue>>
<1>1. UNCHANGED <<start, end, is_first, next, state, currentPCB, mine, pc>> /\ IInv'
  BY StutterInv DEF vars, list, pcbs, locals, QueueInv
<1>2. Ended' /\ Alone' /\ NoneYet'
  BY <1>1 DEF QueueInv, Ended, Alone, NoneYet
<1>3. \A i \in Task : Waits(i)' <=> Waits(i)
  BY <1>1 DEF Waits, Joining
<1>4. /\ ReadyQueue' = ReadyQueue
      /\ is_first' \/ \E q \in Seq(Task) : Chained(q)' /\ Lists(q)'
  BY <1>1, <1>3, ListStays
<1>5. QED
  BY <1>1, <1>2, <1>4 DEF QueueInv

(* The scheduler implements the round robin of one queue: its linked list, *)
(* full of stale links, is that queue as long as three tasks are left and  *)
(* no task's time is up, when no tick arrives within process_create.       *)
THEOREM ListIsQueue ==
  ASSUME Creation \subseteq Calm
  PROVE  Spec /\ []ThreeLeft /\ []InTime => IsRoundRobin
<1>1. Init => QueueInv /\ Ideal!Init
  <2>1. SUFFICES ASSUME Init PROVE QueueInv /\ Ideal!Init
    OBVIOUS
  <2>2. IInv
    BY <2>1, InitInv
  <2>3. is_first /\ currentPCB = Main
    BY <2>1 DEF Init
  <2>4. /\ pc[Main] = "claim"
        /\ \A i \in Task : state[i] # "TERMINATED"
        /\ \A i \in Task \ {Main} : pc[i] = "unused"
    <3>1. Main \in Task
      BY SchedulerAssumption DEF Main, Task
    <3>2. QED
      BY <2>1, <3>1 DEF Init
  <2>5. Ended /\ Alone /\ NoneYet
    BY <2>3, <2>4 DEF Ended, Alone, NoneYet
  <2>6. ReadyQueue = <<>>
    BY <2>3, QueueHere DEF QueueFact
  <2>7. QED
    BY <2>2, <2>3, <2>5, <2>6 DEF QueueInv, Ideal!Init
<1>2. QueueInv /\ ThreeLeft /\ InTime' /\ [Next]_vars =>
        QueueInv' /\ [Ideal!Next]_(Ideal!vars)
  <2>1. SUFFICES ASSUME QueueInv, ThreeLeft, InTime', [Next]_vars
                 PROVE  QueueInv' /\ [Ideal!Next]_(Ideal!vars)
    OBVIOUS
  <2>2. CASE PitTick
    BY <2>1, <2>2, TickRotates DEF Ideal!Next
  <2>3. CASE UnlockSwitch \/ UnlockReturn
    BY <2>1, <2>3, UnlockLeaves DEF Ideal!Next
  <2>4. CASE First \/ Advance
    <3>1. QueueInv' /\ (Ideal!Admit(mine) \/ UNCHANGED <<currentPCB, ReadyQueue>>)
      BY <2>1, <2>4, FirstQueue, AdvanceQueue
    <3>2. mine \in Task
      BY <2>1, <2>4, CreatingQueue DEF First, Advance, Moves, Creation
    <3>3. QED
      BY <3>1, <3>2 DEF Ideal!Next, Ideal!vars
  <2>5. CASE Claim \/ ClaimFail \/ Link \/ Stack
    <3>1. QueueInv' /\ UNCHANGED <<currentPCB, ReadyQueue>>
      BY <2>1, <2>5, ClaimQueue, CreatedQueue, LinkQueue
    <3>2. QED
      BY <3>1 DEF Ideal!vars
  <2>6. CASE \/ WaitStart \/ WaitEnd \/ End \/ MainAwake
             \/ LoadInc \/ StoreInc \/ PrintChar \/ ProcessAwake
             \/ LoadDec \/ StoreDec
    BY <2>1, <2>6, PlainQueue DEF Ideal!vars
  <2>7. CASE Terminate \/ Block \/ Clean \/ CleanDone
    BY <2>1, <2>7, EndingQueue DEF Ideal!vars
  <2>8. CASE UNCHANGED vars
    BY <2>1, <2>8, StutterQueue DEF Ideal!vars
  <2>9. QED
    BY <2>1, <2>2, <2>3, <2>4, <2>5, <2>6, <2>7, <2>8
    DEF Next, TaskStep, Creating
<1>3. QED
  BY <1>1, <1>2, PTL DEF Spec, IsRoundRobin, Ideal!Spec
-----------------------------------------------------------------------------
(* One more or one less of a subset of the tasks.                          *)
LEMMA OneMore ==
  ASSUME NEW S \in SUBSET Task, NEW x \in Task
  PROVE  /\ Cardinality(S) \in Nat
         /\ x \notin S => Cardinality(S \cup {x}) = Cardinality(S) + 1
         /\ x \in S => Cardinality(S \ {x}) = Cardinality(S) - 1
<1>1. IsFiniteSet(S)
  BY TasksFinite, FS_Subset
<1>2. Cardinality(S) \in Nat
  BY <1>1, FS_CardinalityType
<1>3. x \notin S => Cardinality(S \cup {x}) = Cardinality(S) + 1
  BY <1>1, FS_AddElement
<1>4. x \in S => Cardinality(S \ {x}) = Cardinality(S) - 1
  BY <1>1, FS_RemoveElement
<1>5. QED
  BY <1>2, <1>3, <1>4

(* The processes that have been counted and not yet discounted.            *)
Counting == {"print", "sleep", "dec", "decstore"}

Counted == {i \in Task \ {Main} : pc[i] \in Counting}

(* Task 0 does not run Process; who is within ++ or -- has the processor   *)
(* and the value.                                                          *)
CountInv ==
  /\ IInv
  /\ pc[Main] \in Creation \cup {"waitstart", "waitend", "sleep", "ended"}
  /\ \A i \in Task \ {Main} : pc[i] \notin {"waitstart", "waitend"}
  /\ \A i \in Task : pc[i] \in {"inc", "decstore"} =>
                       i = currentPCB /\ reg[i] = process_count
  /\ process_count = Cardinality(Counted)

(* A step that neither counts nor is within a count.                       *)
LEMMA CountKept ==
  ASSUME CountInv, IInv', process_count' = process_count,
         pc'[Main] \in Creation \cup {"waitstart", "waitend", "sleep", "ended"},
         \A i \in Task \ {Main} : /\ pc'[i] \in Counting <=> pc[i] \in Counting
                                  /\ pc'[i] \notin {"waitstart", "waitend"},
         \A i \in Task : pc'[i] \in {"inc", "decstore"} =>
                           i = currentPCB' /\ reg'[i] = process_count
  PROVE  CountInv'
<1>1. Counted' = Counted
  BY DEF Counted
<1>2. QED
  BY <1>1 DEF CountInv

(* A tick, or the end of a task, leaves every other where it is.           *)
LEMMA SwitchCounts ==
  ASSUME CountInv, IInv', UNCHANGED <<process_count, reg>>,
         pc[currentPCB] \notin {"inc", "decstore"},
         \A i \in Task : \/ pc'[i] = pc[i]
                         \/ pc[i] \in {"fresh", "raw"} /\ pc'[i] \in {"start", "wild", "fresh"}
                         \/ pc[i] = "unlock" /\ pc'[i] \in {"gone", "wild"}
  PROVE  CountInv'
<1>1. Main \in Task
  BY SchedulerAssumption DEF Main, Task
<1>2. pc'[Main] = pc[Main]
  BY <1>1 DEF CountInv, Creation
<1>3. \A i \in Task \ {Main} : /\ pc'[i] \in Counting <=> pc[i] \in Counting
                               /\ pc'[i] \notin {"waitstart", "waitend"}
  BY DEF Counting, CountInv
<1>4. \A i \in Task : pc'[i] \notin {"inc", "decstore"}
  BY DEF CountInv
<1>5. QED
  BY <1>2, <1>3, <1>4, CountKept DEF CountInv

(* What the current task does on its own, ++ and -- excepted.              *)
LEMMA OwnCounts ==
  ASSUME CountInv, IInv', UNCHANGED <<process_count, currentPCB>>,
         NEW p, NEW q, pc[currentPCB] = p, pc' = [pc EXCEPT ![currentPCB] = q],
         currentPCB # Main => /\ p \in Counting <=> q \in Counting
                              /\ q \notin {"waitstart", "waitend"},
         p \notin {"inc", "decstore"},
         q \in {"inc", "decstore"} => reg'[currentPCB] = process_count,
         currentPCB = Main => q \in Creation \cup {"waitstart", "waitend", "sleep", "ended"}
  PROVE  CountInv'
<1>1. TypeOK /\ Main \in Task
  BY SchedulerAssumption DEF CountInv, IInv, Main, Task
<1>2. /\ pc'[currentPCB] = q
      /\ \A i \in Task : i # currentPCB => pc'[i] = pc[i]
  BY <1>1 DEF TypeOK
<1>3. pc'[Main] \in Creation \cup {"waitstart", "waitend", "sleep", "ended"}
  BY <1>1, <1>2 DEF CountInv
<1>4. \A i \in Task \ {Main} : /\ pc'[i] \in Counting <=> pc[i] \in Counting
                               /\ pc'[i] \notin {"waitstart", "waitend"}
  BY <1>2 DEF CountInv
<1>5. \A i \in Task : pc'[i] \in {"inc", "decstore"} =>
                        i = currentPCB' /\ reg'[i] = process_count
  BY <1>2 DEF CountInv
<1>6. QED
  BY <1>3, <1>4, <1>5, CountKept

(* The load of ++ or -- leaves the count in the register.                  *)
LEMMA PlainCounts ==
  ASSUME CountInv,
         \/ WaitStart \/ WaitEnd \/ End \/ MainAwake
         \/ LoadInc \/ PrintChar \/ ProcessAwake \/ LoadDec
  PROVE  CountInv'
<1>1. IInv' /\ UNCHANGED <<process_count, currentPCB>>
  BY PlainInv DEF CountInv, WaitStart, WaitEnd, End, MainAwake, LoadInc, PrintChar,
     ProcessAwake, LoadDec, pcbs
<1>2. currentPCB \in Task /\ reg \in [Task -> Int]
  BY DEF CountInv, IInv, TypeOK
<1>3. PICK p, q :
        /\ Moves(p, q)
        /\ <<p, q>> \in {<<"waitstart", "waitend">>, <<"waitend", "sleep">>,
                         <<"waitend", "ended">>, <<"sleep", "waitend">>,
                         <<"start", "inc">>, <<"print", "sleep">>,
                         <<"sleep", "dec">>, <<"sleep", "print">>, <<"dec", "decstore">>}
        /\ q \in {"inc", "decstore"} => reg' = [reg EXCEPT ![currentPCB] = process_count]
        /\ <<p, q>> \in {<<"sleep", "dec">>, <<"sleep", "print">>} => currentPCB # Main
        /\ <<p, q>> = <<"sleep", "waitend">> => currentPCB = Main
  BY DEF WaitStart, WaitEnd, End, MainAwake, LoadInc, PrintChar, ProcessAwake, LoadDec,
     AfterSleep
<1>4. pc[currentPCB] = p /\ pc' = [pc EXCEPT ![currentPCB] = q]
  BY <1>3 DEF Moves
<1>5. /\ currentPCB # Main => /\ p \in Counting <=> q \in Counting
                              /\ q \notin {"waitstart", "waitend"}
      /\ p \notin {"inc", "decstore"}
  BY <1>2, <1>3, <1>4 DEF Counting, CountInv
<1>6. q \in {"inc", "decstore"} => reg'[currentPCB] = process_count
  BY <1>2, <1>3
<1>7. currentPCB = Main => q \in Creation \cup {"waitstart", "waitend", "sleep", "ended"}
  BY <1>3, <1>4 DEF CountInv, Creation
<1>8. QED
  BY <1>1, <1>4, <1>5, <1>6, <1>7, OwnCounts

(* The store makes up for the process that is counted or discounted.       *)
LEMMA StoreCounts ==
  ASSUME CountInv, StoreInc \/ StoreDec
  PROVE  CountInv'
<1>1. IInv' /\ UNCHANGED <<currentPCB, reg>>
  BY PlainInv DEF CountInv, StoreInc, StoreDec, pcbs, locals
<1>2. /\ TypeOK /\ currentPCB \in Task /\ process_count \in Int /\ Main \in Task
      /\ pc[currentPCB] \in {"inc", "decstore"}
      /\ currentPCB # Main /\ reg[currentPCB] = process_count
  <2>1. TypeOK /\ Main \in Task
    BY SchedulerAssumption DEF CountInv, IInv, Main, Task
  <2>2. currentPCB \in Task /\ process_count \in Int
    BY <2>1 DEF TypeOK
  <2>3. pc[currentPCB] \in {"inc", "decstore"}
    BY DEF StoreInc, StoreDec, Moves
  <2>4. QED
    BY <2>1, <2>2, <2>3 DEF CountInv, Creation
<1>3. PICK c \in Task : c = currentPCB
  BY <1>2
<1>4. Counted \in SUBSET Task /\ process_count = Cardinality(Counted)
  BY DEF Counted, CountInv
<1>5. /\ \A i \in Task : i # c => pc'[i] = pc[i]
      /\ \A i \in Task : i # c => pc[i] \notin {"inc", "decstore"}
  BY <1>2, <1>3 DEF StoreInc, StoreDec, Moves, TypeOK, CountInv
<1>6. CASE StoreInc
  <2>1. pc[c] = "inc" /\ pc'[c] = "print" /\ process_count' = process_count + 1
    BY <1>2, <1>3, <1>6 DEF StoreInc, Moves, TypeOK
  <2>2. c \notin Counted /\ Counted' = Counted \cup {c}
    BY <1>2, <1>3, <1>5, <2>1 DEF Counted, Counting
  <2>3. process_count' = Cardinality(Counted')
    BY <1>4, <2>1, <2>2, OneMore
  <2>4. QED
    BY <1>1, <1>2, <1>3, <1>5, <2>1, <2>3 DEF CountInv
<1>7. CASE StoreDec
  <2>1. pc[c] = "decstore" /\ pc'[c] = "exit" /\ process_count' = process_count - 1
    BY <1>2, <1>3, <1>7 DEF StoreDec, Moves, TypeOK
  <2>2. c \in Counted /\ Counted' = Counted \ {c}
    BY <1>2, <1>3, <1>5, <2>1 DEF Counted, Counting
  <2>3. process_count' = Cardinality(Counted')
    BY <1>4, <2>1, <2>2, OneMore
  <2>4. QED
    BY <1>1, <1>2, <1>3, <1>5, <2>1, <2>3 DEF CountInv
<1>8. QED
  BY <1>6, <1>7

(* Who creates counts nobody.                                              *)
LEMMA CreatingCounts ==
  ASSUME CountInv, Creating
  PROVE  CountInv'
<1>1. IInv' /\ UNCHANGED <<process_count, reg, currentPCB>>
  BY ClaimInv, LinkingInv, StackInv
  DEF CountInv, Creating, Claim, ClaimFail, First, Link, Advance, Stack, pcbs, locals
<1>2. /\ TypeOK /\ currentPCB = Main /\ Main \in Task /\ used[Main]
      /\ pc[currentPCB] \in Creation /\ \A i \in Task : pc[i] \notin Terminating
      /\ AfterCreate \in {"waitstart", "claim"}
  <2>1. pc[currentPCB] \in Creation
    BY DEF Creating, Claim, ClaimFail, First, Link, Advance, Stack, Moves, Creation
  <2>2. QED
    BY <2>1, CreatorFacts DEF CountInv, IInv
<1>3. pc'[Main] \in Creation \cup {"waitstart"}
  <2>1. CASE Claim
    <3>1. PICK n \in Unused : pc' = [pc EXCEPT ![currentPCB] = "first", ![n] = "raw"]
      BY <2>1 DEF Claim
    <3>2. n \in Task /\ n # Main
      BY <1>2 DEF Unused
    <3>3. QED
      BY <1>2, <3>1, <3>2 DEF TypeOK, Creation
  <2>2. CASE ClaimFail \/ First \/ Link \/ Advance
    BY <1>2, <2>2 DEF ClaimFail, First, Link, Advance, Moves, TypeOK, Creation
  <2>3. CASE Stack
    BY <1>2, <2>3 DEF Stack, TypeOK, Creation
  <2>4. QED
    BY <2>1, <2>2, <2>3 DEF Creating
<1>4. ASSUME NEW i \in Task \ {Main}
      PROVE  pc'[i] = pc[i] \/ {pc[i], pc'[i]} \cap (Counting \cup {"inc", "waitstart", "waitend"}) = {}
  <2>1. CASE Claim
    <3>1. PICK n \in Unused : pc' = [pc EXCEPT ![currentPCB] = "first", ![n] = "raw"]
      BY <2>1 DEF Claim
    <3>2. n \in Task /\ ~used[n]
      BY DEF Unused
    <3>3. pc[n] \in {"unused", "gone", "wild"}
      BY <1>2, <3>2 DEF CountInv, IInv, FreedBeforeGone, Terminating
    <3>4. QED
      BY <1>2, <3>1, <3>2, <3>3 DEF TypeOK, Counting
  <2>2. CASE ClaimFail \/ First \/ Link \/ Advance
    BY <1>2, <2>2 DEF ClaimFail, First, Link, Advance, Moves, TypeOK
  <2>3. CASE Stack
    BY <1>2, <2>3 DEF Stack, TypeOK, Counting
  <2>4. QED
    BY <2>1, <2>2, <2>3 DEF Creating
<1>5. \A i \in Task \ {Main} : /\ pc'[i] \in Counting <=> pc[i] \in Counting
                               /\ pc'[i] \notin {"waitstart", "waitend"}
  BY <1>4 DEF CountInv
<1>6. \A i \in Task : pc'[i] \notin {"inc", "decstore"}
  <2>1. \A i \in Task : pc[i] \notin {"inc", "decstore"}
    BY <1>2 DEF CountInv, Creation
  <2>2. QED
    BY <1>3, <1>4, <2>1 DEF Creation, Counting
<1>7. QED
  BY <1>1, <1>3, <1>5, <1>6, CountKept

(* Who ends has been discounted before.                                    *)
LEMMA EndingCounts ==
  ASSUME CountInv, Terminate \/ Block \/ Clean \/ CleanDone
  PROVE  CountInv'
<1>1. IInv' /\ UNCHANGED <<process_count, currentPCB>>
  BY TerminateInv, BlockInv, CleanInv DEF CountInv, Terminate, Block, Clean, CleanDone,
     pcbs
<1>2. currentPCB \in Task /\ pc \in [Task -> Point]
  BY DEF CountInv, IInv, TypeOK
<1>3. PICK p, q \in {"exit", "block", "clean", "unlock"} :
        pc[currentPCB] = p /\ pc' = [pc EXCEPT ![currentPCB] = q]
  <2>1. Clean => pc' = [pc EXCEPT ![currentPCB] = "clean"] /\ pc[currentPCB] = "clean"
    BY <1>2 DEF Clean
  <2>2. QED
    BY <2>1 DEF Terminate, Block, CleanDone, Moves
<1>4. /\ p \in Counting <=> q \in Counting
      /\ {p, q} \cap {"inc", "decstore", "waitstart", "waitend"} = {}
  BY DEF Counting
<1>5. currentPCB # Main
  BY <1>3 DEF CountInv, Creation
<1>6. QED
  BY <1>1, <1>3, <1>4, <1>5, OwnCounts

(* Nobody is switched away from within ++ or --.                           *)
LEMMA SwitchingCounts ==
  ASSUME CountInv, {"inc", "decstore"} \subseteq Calm,
         PitTick \/ UnlockSwitch \/ UnlockReturn
  PROVE  CountInv'
<1>1. IInv' /\ UNCHANGED <<process_count, reg>>
  BY PitTickInv, UnlockSwitchInv, UnlockReturnInv
  DEF CountInv, PitTick, UnlockSwitch, UnlockReturn, locals
<1>2. currentPCB \in Task /\ pc \in [Task -> Point]
  BY DEF CountInv, IInv, TypeOK
<1>3. pc[currentPCB] \notin {"inc", "decstore"}
  BY DEF PitTick, Idle, UnlockSwitch, UnlockReturn
<1>4. ASSUME NEW i \in Task
      PROVE  \/ pc'[i] = pc[i]
             \/ pc[i] \in {"fresh", "raw"} /\ pc'[i] \in {"start", "wild", "fresh"}
             \/ pc[i] = "unlock" /\ pc'[i] \in {"gone", "wild"}
  <2>1. CASE PitTick
    BY <1>2, <2>1 DEF PitTick, Resumed
  <2>2. CASE UnlockSwitch
    BY <1>2, <2>2 DEF UnlockSwitch, Resumed
  <2>3. CASE UnlockReturn
    BY <1>2, <2>3 DEF UnlockReturn
  <2>4. QED
    BY <2>1, <2>2, <2>3
<1>5. QED
  BY <1>1, <1>3, <1>4, SwitchCounts

(* process_count is exact when no tick falls between its load and its      *)
(* store: the only thing that makes Process's ++ and -- inexact.           *)
THEOREM CountsExactly ==
  ASSUME {"inc", "decstore"} \subseteq Calm
  PROVE  Spec => []CountExact
<1>1. Init => CountInv
  <2>1. SUFFICES ASSUME Init PROVE CountInv
    OBVIOUS
  <2>2. IInv
    BY <2>1, InitInv
  <2>3. pc[Main] = "claim" /\ \A i \in Task : pc[i] \in {"claim", "unused"}
    BY <2>1, SchedulerAssumption DEF Init, Main, Task
  <2>4. Counted = {} /\ process_count = 0
    BY <2>1, <2>3 DEF Counted, Counting, Init
  <2>5. process_count = Cardinality(Counted)
    BY <2>4, FS_EmptySet
  <2>6. QED
    BY <2>2, <2>3, <2>5 DEF CountInv, Creation
<1>2. CountInv /\ [Next]_vars => CountInv'
  <2>1. SUFFICES ASSUME CountInv, [Next]_vars PROVE CountInv'
    OBVIOUS
  <2>2. CASE PitTick \/ UnlockSwitch \/ UnlockReturn
    BY <2>1, <2>2, SwitchingCounts
  <2>3. CASE StoreInc \/ StoreDec
    BY <2>1, <2>3, StoreCounts
  <2>4. CASE \/ WaitStart \/ WaitEnd \/ End \/ MainAwake
             \/ LoadInc \/ PrintChar \/ ProcessAwake \/ LoadDec
    BY <2>1, <2>4, PlainCounts
  <2>5. CASE Creating
    BY <2>1, <2>5, CreatingCounts
  <2>6. CASE Terminate \/ Block \/ Clean \/ CleanDone
    BY <2>1, <2>6, EndingCounts
  <2>7. CASE UNCHANGED vars
    <3>1. IInv' /\ UNCHANGED <<pc, process_count, reg, currentPCB>>
      BY <2>1, <2>7, StutterInv DEF CountInv, vars, pcbs, locals
    <3>2. QED
      BY <2>1, <3>1, CountKept DEF CountInv
  <2>8. QED
    BY <2>1, <2>2, <2>3, <2>4, <2>5, <2>6, <2>7 DEF Next, TaskStep
<1>3. CountInv => CountExact
  BY DEF CountInv, CountExact, Counted, Counting
<1>4. QED
  BY <1>1, <1>2, <1>3, PTL DEF Spec
-----------------------------------------------------------------------------
(* Every process is created before the first one ends: in test_scheduler   *)
(* each sleeps for seconds first.                                          *)
CreatedFirst == IRQ_disable_counter > 0 => pc[Main] \notin Creation

(* The tasks that have taken an IRQ lock and not given it back.            *)
Holding == {i \in Task : pc[i] \in Terminating \cup {"gone"}}

LockInv == IInv /\ IRQ_disable_counter = Cardinality(Holding)

(* A step by which nobody enters or leaves terminate_task.                 *)
LEMMA LockKept ==
  ASSUME LockInv, IInv', UNCHANGED IRQ_disable_counter,
         \A i \in Task : pc'[i] \in Terminating \cup {"gone"} <=>
                         pc[i] \in Terminating \cup {"gone"}
  PROVE  LockInv'
<1>1. Holding' = Holding
  BY DEF Holding
<1>2. QED
  BY <1>1 DEF LockInv

(* The lock is taken there, and given back only by returning.              *)
LEMMA LockStep ==
  ASSUME LockInv, CreatedFirst, [Next]_vars
  PROVE  LockInv'
<1>1. IInv /\ TypeOK /\ currentPCB \in Task /\ pc \in [Task -> Point]
  <2>1. IInv /\ TypeOK
    BY DEF LockInv, IInv
  <2>2. QED
    BY <2>1 DEF TypeOK
<1>2. CASE PitTick
  <2>1. IInv' /\ UNCHANGED IRQ_disable_counter
    BY <1>1, <1>2, PitTickInv DEF PitTick
  <2>2. ASSUME NEW i \in Task
        PROVE  pc'[i] = pc[i] \/ (pc[i] \in {"fresh", "raw"} /\ pc'[i] \in {"start", "wild"})
    BY <1>1, <1>2 DEF PitTick, Resumed
  <2>3. QED
    BY <2>1, <2>2, LockKept DEF Terminating
<1>3. CASE UnlockSwitch
  <2>1. IInv' /\ UNCHANGED IRQ_disable_counter
    BY <1>1, <1>3, UnlockSwitchInv DEF UnlockSwitch
  <2>2. ASSUME NEW i \in Task
        PROVE  \/ pc'[i] = pc[i]
               \/ pc[i] \in {"fresh", "raw"} /\ pc'[i] \in {"start", "wild"}
               \/ pc[i] = "unlock" /\ pc'[i] = "gone"
    <3>1. /\ pc[currentPCB] = "unlock" /\ start # currentPCB
          /\ pc' = [pc EXCEPT ![currentPCB] = "gone", ![start] = Resumed(start)]
      BY <1>1, <1>3 DEF UnlockSwitch, Switches, Runnable, IInv, Started
    <3>2. QED
      BY <1>1, <3>1 DEF Resumed
  <2>3. QED
    BY <2>1, <2>2, LockKept DEF Terminating
<1>4. CASE UnlockReturn \/ Terminate
  <2>1. IInv'
    BY <1>1, <1>4, UnlockReturnInv, TerminateInv
  <2>2. PICK c \in Task : c = currentPCB
    BY <1>1
  <2>3. Holding \in SUBSET Task /\ IRQ_disable_counter = Cardinality(Holding)
    BY DEF Holding, LockInv
  <2>4. CASE UnlockReturn
    <3>1. /\ pc[c] = "unlock" /\ pc' = [pc EXCEPT ![c] = "wild"]
          /\ IRQ_disable_counter' = IRQ_disable_counter - 1
      BY <1>1, <2>2, <2>4 DEF UnlockReturn
    <3>2. c \in Holding /\ Holding' = Holding \ {c}
      BY <1>1, <3>1 DEF Holding, Terminating
    <3>3. QED
      BY <2>1, <2>3, <3>1, <3>2, OneMore DEF LockInv
  <2>5. CASE Terminate
    <3>1. /\ pc[c] = "exit" /\ pc' = [pc EXCEPT ![c] = "block"]
          /\ IRQ_disable_counter' = IRQ_disable_counter + 1
      BY <1>1, <2>2, <2>5 DEF Terminate, Moves, TerminateLocks
    <3>2. c \notin Holding /\ Holding' = Holding \cup {c}
      BY <1>1, <3>1 DEF Holding, Terminating
    <3>3. QED
      BY <2>1, <2>3, <3>1, <3>2, OneMore DEF LockInv
  <2>6. QED
    BY <1>4, <2>4, <2>5
<1>5. CASE Block \/ Clean \/ CleanDone
  <2>1. IInv' /\ UNCHANGED IRQ_disable_counter
    BY <1>1, <1>5, BlockInv, CleanInv DEF Block, Clean, CleanDone, locks
  <2>2. \A i \in Task : pc'[i] = pc[i] \/ {pc[i], pc'[i]} \subseteq Terminating
    BY <1>1, <1>5 DEF Block, Clean, CleanDone, Moves, Terminating
  <2>3. QED
    BY <2>1, <2>2, LockKept
<1>6. CASE Claim
  <2>1. IInv' /\ UNCHANGED IRQ_disable_counter /\ pc[currentPCB] = "claim"
    BY <1>1, <1>6, ClaimInv DEF Claim, locks
  <2>2. PICK n \in Unused : pc' = [pc EXCEPT ![currentPCB] = "first", ![n] = "raw"]
    BY <1>6 DEF Claim
  <2>3. Holding = {}
    <3>1. currentPCB = Main
      BY <1>1, <2>1, CreatorFacts DEF Creation
    <3>2. IRQ_disable_counter \in Nat /\ ~(IRQ_disable_counter > 0)
      BY <1>1, <2>1, <3>1 DEF CreatedFirst, Creation, TypeOK
    <3>3. Cardinality(Holding) = 0
      BY <3>2 DEF LockInv
    <3>4. IsFiniteSet(Holding)
      <4>1. Holding \subseteq Task
        BY DEF Holding
      <4>2. QED
        BY <4>1, TasksFinite, FS_Subset
    <3>5. QED
      BY <3>3, <3>4, FS_EmptySet
  <2>4. \A i \in Task : pc[i] \notin Terminating \cup {"gone"}
    BY <2>3 DEF Holding
  <2>5. \A i \in Task : pc'[i] \notin Terminating \cup {"gone"}
    BY <1>1, <2>2, <2>4 DEF Terminating, Unused
  <2>6. QED
    BY <2>1, <2>4, <2>5, LockKept
<1>7. CASE ClaimFail \/ First \/ Link \/ Advance \/ Stack
  <2>1. IInv' /\ UNCHANGED IRQ_disable_counter
    BY <1>1, <1>7, LinkingInv, StackInv DEF ClaimFail, First, Link, Advance, Stack, locks
  <2>2. ASSUME NEW i \in Task
        PROVE  \/ pc'[i] = pc[i]
               \/ {pc[i], pc'[i]} \subseteq Creation \cup {"waitstart", "raw", "fresh"}
    BY <1>1, <1>7 DEF ClaimFail, First, Link, Advance, Stack, Moves, AfterCreate, Creation
  <2>3. QED
    BY <2>1, <2>2, LockKept DEF Terminating, Creation
<1>8. CASE \/ WaitStart \/ WaitEnd \/ End \/ MainAwake
           \/ LoadInc \/ StoreInc \/ PrintChar \/ ProcessAwake
           \/ LoadDec \/ StoreDec
  <2>1. IInv' /\ UNCHANGED IRQ_disable_counter
    BY <1>1, <1>8, PlainInv DEF WaitStart, WaitEnd, End, MainAwake, LoadInc, StoreInc,
       PrintChar, ProcessAwake, LoadDec, StoreDec, locks
  <2>2. PICK p, q \in Plain : Moves(p, q)
    BY <1>8 DEF WaitStart, WaitEnd, End, MainAwake, LoadInc, StoreInc, PrintChar,
       ProcessAwake, LoadDec, StoreDec, Plain, AfterSleep
  <2>3. \A i \in Task : pc'[i] = pc[i] \/ {pc[i], pc'[i]} \subseteq Plain
    BY <1>1, <2>2 DEF Moves
  <2>4. QED
    BY <2>1, <2>3, LockKept DEF Terminating, Plain
<1>9. CASE UNCHANGED vars
  BY <1>1, <1>9, StutterInv, LockKept DEF vars, locks
<1>10. QED
  BY <1>2, <1>3, <1>4, <1>5, <1>6, <1>7, <1>8, <1>9 DEF Next, TaskStep, Creating

(* Each task that ends leaves one IRQ lock behind, for good.  (A PCB that  *)
(* is reused would be counted once for two tasks.)                         *)
THEOREM LocksLeak == Spec /\ []CreatedFirst => []LocksAccounted
<1>1. Init => LockInv
  <2>1. SUFFICES ASSUME Init PROVE LockInv
    OBVIOUS
  <2>2. \A i \in Task : pc[i] \in {"claim", "unused"}
    BY <2>1 DEF Init
  <2>3. Holding = {} /\ IRQ_disable_counter = 0
    BY <2>1, <2>2 DEF Holding, Terminating, Init
  <2>4. QED
    BY <2>1, <2>3, InitInv, FS_EmptySet DEF LockInv
<1>2. LockInv /\ CreatedFirst /\ [Next]_vars => LockInv'
  BY LockStep
<1>3. LockInv => LocksAccounted
  <2>1. SUFFICES ASSUME LockInv PROVE LocksAccounted
    OBVIOUS
  <2>2. IInv /\ IRQ_disable_counter = Cardinality(Holding) /\ currentPCB \in Task
    BY <2>1 DEF LockInv, IInv, TypeOK
  <2>3. PICK S : S = {i \in Task : pc[i] \in Terminating}
    OBVIOUS
  <2>4. postponed = Cardinality(S)
    <3>1. CASE pc[currentPCB] \in Terminating
      <4>1. S = {currentPCB} /\ postponed = 1
        BY <2>2, <2>3, <3>1 DEF IInv, LocksHeld
      <4>2. QED
        BY <4>1, FS_Singleton
    <3>2. CASE pc[currentPCB] \notin Terminating
      <4>1. S = {} /\ postponed = 0
        BY <2>2, <2>3, <3>2 DEF IInv, LocksHeld
      <4>2. QED
        BY <4>1, FS_EmptySet
    <3>3. QED
      BY <3>1, <3>2
  <2>5. postponed > 0 => ~intr /\ pc[currentPCB] \in Terminating
    BY <2>2 DEF IInv, LocksHeld
  <2>6. QED
    BY <2>2, <2>3, <2>4, <2>5 DEF LocksAccounted, Holding
<1>4. QED
  BY <1>1, <1>2, <1>3, PTL DEF Spec
=============================================================================
