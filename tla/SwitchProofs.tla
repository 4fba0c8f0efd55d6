---------------------------- MODULE SwitchProofs ----------------------------
(***************************************************************************)
(* For any number of tasks and any depth of nesting: ticks that arrive     *)
(* before a handler reads the head of the list, right after it has moved   *)
(* the head on, or when it is about to return do no harm.                  *)
(***************************************************************************)
EXTENDS Switch, TLAPS

Harmless == {"enter", "held", "return"}

(* While a handler hands over the processor nobody is marked as running.   *)
Handing == {"ready", "linked", "queued", "current", "loaded"}
Leaves == {"saved", "ready", "linked", "queued", "current"}

(* Interrupted handlers were interrupted at harmless places, and a task    *)
(* that does not run is inside switch_to_task, with its stack's top saved. *)
Stacks ==
  /\ \A i \in Task : \A k \in 1 .. (Len(stack[i]) - 1) : stack[i][k].at \in Harmless
  /\ \A i \in Task : i # rsp => Intact(i)
  /\ stack[rsp] # <<>> => Top.at # "out"
  /\ \A i \in Task : \A k \in DOMAIN stack[i] :
       stack[i][k].at \in Holding => stack[i][k].task \in Task

(* What the innermost handler knows is true.                               *)
Handler ==
  /\ running = IF \E p \in Handing : At(p) THEN {} ELSE {rsp}
  /\ ~At("current") => currentPCB = rsp
  /\ At("current") => currentPCB = Top.task
  /\ At("taken") => Top.task = start
  /\ At("linked") => next[end] = rsp
  /\ At("loaded") => Top.task = rsp
  /\ \A p \in Leaves : At(p) => Top.from = rsp /\ tos[rsp] = Len(stack[rsp])

(* The list is long enough to take a task off it.                          *)
Enough ==
  /\ Len(queue) >= 1
  /\ Len(queue) >= 2 \/ (\E p \in Holding : At(p) /\ ~Leaving)

EndIsMine == Leaving => Last(queue) = rsp

IInv == TypeOK /\ Stacks /\ Handler /\ Enough /\ EndIsMine /\ EachOnce

(* EachOnce in parts.                                                      *)
Distinct == \A j, k \in DOMAIN queue : queue[j] = queue[k] => j = k
Somewhere == \A i \in Task : i \in InQueue \/ i \in Held \/ i = rsp
Apart == Held \cap InQueue = {} /\ rsp \notin Held
Ends == rsp \in InQueue <=> Leaving
OneHolder ==
  \A t, i, j \in Task : \A k \in DOMAIN stack[i], l \in DOMAIN stack[j] :
    Holds(i, k, t) /\ Holds(j, l, t) => i = j /\ k = l

LEMMA EachOnceParts ==
  EachOnce <=> ListIsQueue /\ Distinct /\ Somewhere /\ Apart /\ Ends /\ OneHolder
BY DEF EachOnce, Distinct, Somewhere, Apart, Ends, OneHolder

LEMMA EachOnceParts1 ==
  EachOnce' <=> ListIsQueue' /\ Distinct' /\ Somewhere' /\ Apart' /\ Ends' /\ OneHolder'
BY DEF EachOnce, Distinct, Somewhere, Apart, Ends, OneHolder

(* The innermost frame.                                                    *)
LEMMA TopFrame ==
  ASSUME TypeOK, NEW p, At(p)
  PROVE  /\ stack[rsp] \in Seq(Frame) /\ Len(stack[rsp]) \in Nat \ {0}
         /\ DOMAIN stack[rsp] = 1 .. Len(stack[rsp])
         /\ Top = stack[rsp][Len(stack[rsp])] /\ Top \in Frame /\ Top.at = p
BY DEF TypeOK, At, Top, Last

(* Goes changes the innermost frame and nothing else.                      *)
LEMMA GoesStack ==
  ASSUME TypeOK, NEW p, NEW f \in Frame, Goes(p, f), rsp' = rsp
  PROVE  /\ stack' \in [Task -> Seq(Frame)]
         /\ \A i \in Task : i # rsp => stack'[i] = stack[i]
         /\ Len(stack'[rsp]) = Len(stack[rsp])
         /\ \A k \in 1 .. (Len(stack[rsp]) - 1) : stack'[rsp][k] = stack[rsp][k]
         /\ stack'[rsp][Len(stack[rsp])] = f
         /\ Top' = f
         /\ \A q : At(q)' <=> f.at = q
<1>1. stack[rsp] \in Seq(Frame) /\ Len(stack[rsp]) \in Nat \ {0} /\ rsp \in Task
  BY TopFrame DEF Goes, TypeOK
<1>2. stack' = [stack EXCEPT ![rsp] = [stack[rsp] EXCEPT ![Len(stack[rsp])] = f]]
  BY DEF Goes, Put
<1>3. stack'[rsp] = [stack[rsp] EXCEPT ![Len(stack[rsp])] = f]
  BY <1>1, <1>2 DEF TypeOK
<1>4. stack'[rsp] \in Seq(Frame) /\ Len(stack'[rsp]) = Len(stack[rsp])
  BY <1>1, <1>3
<1>5. stack' \in [Task -> Seq(Frame)]
  BY <1>1, <1>2, <1>3, <1>4 DEF TypeOK
<1>6. stack'[rsp] # <<>> /\ stack'[rsp][Len(stack[rsp])] = f
  BY <1>1, <1>3, <1>4
<1>7. Top' = f
  BY <1>4, <1>6 DEF Top, Last
<1> QED
  BY <1>1, <1>2, <1>3, <1>4, <1>5, <1>6, <1>7 DEF TypeOK, At

(* What a frame that neither takes nor gives up a task holds.              *)
SameHold(p, f) ==
  \/ p \notin Holding /\ f.at \notin Holding
  \/ p \in Holding /\ f.at \in Holding /\ f.task = Top.task

LEMMA GoesHolds ==
  ASSUME TypeOK, NEW p, NEW f \in Frame, Goes(p, f), rsp' = rsp, SameHold(p, f)
  PROVE  /\ \A i, t \in Task : \A k : Holds(i, k, t)' <=> Holds(i, k, t)
         /\ \A i \in Task : DOMAIN stack'[i] = DOMAIN stack[i]
         /\ Held' = Held
<1>1. At(p)
  BY DEF Goes
<1>2. /\ stack[rsp] \in Seq(Frame) /\ Len(stack[rsp]) \in Nat \ {0}
      /\ Top = stack[rsp][Len(stack[rsp])] /\ Top.at = p
  BY <1>1, TopFrame
<1>3. /\ stack'[rsp] \in Seq(Frame) /\ rsp \in Task
      /\ \A i \in Task : i # rsp => stack'[i] = stack[i]
      /\ Len(stack'[rsp]) = Len(stack[rsp])
      /\ \A k \in 1 .. (Len(stack[rsp]) - 1) : stack'[rsp][k] = stack[rsp][k]
      /\ stack'[rsp][Len(stack[rsp])] = f
  BY GoesStack DEF TypeOK
<1>4. \A i \in Task : DOMAIN stack'[i] = DOMAIN stack[i]
  BY <1>2, <1>3
<1>5. ASSUME NEW i \in Task, NEW t \in Task, NEW k
      PROVE  Holds(i, k, t)' <=> Holds(i, k, t)
  <2>1. CASE i # rsp
    BY <2>1, <1>3 DEF Holds
  <2>2. CASE i = rsp /\ k \in 1 .. (Len(stack[rsp]) - 1)
    BY <2>2, <1>2, <1>3 DEF Holds
  <2>3. CASE i = rsp /\ k = Len(stack[rsp])
    BY <2>3, <1>2, <1>3, <1>4 DEF Holds, SameHold
  <2>4. CASE i = rsp /\ k \notin DOMAIN stack[rsp]
    BY <2>4, <1>4 DEF Holds
  <2> QED
    BY <1>2, <2>1, <2>2, <2>3, <2>4
<1> QED
  BY <1>4, <1>5 DEF Held

(* A step of the innermost handler that changes neither the list's head    *)
(* nor its end: the tasks stay where they are.                             *)
LEMMA GoesOn ==
  ASSUME IInv, NEW p, NEW f \in Frame, Goes(p, f), rsp' = rsp, SameHold(p, f),
         f.at # "out", queue' = queue,
         p \in {"queued", "current"} <=> f.at \in {"queued", "current"},
         \A i \in Task : i # rsp => tos'[i] = tos[i]
  PROVE  /\ Distinct' /\ Somewhere' /\ Apart' /\ Ends' /\ OneHolder'
         /\ Stacks' /\ Enough' /\ EndIsMine'
<1> USE DEF IInv
<1>1. /\ \A i, t \in Task : \A k : Holds(i, k, t)' <=> Holds(i, k, t)
      /\ \A i \in Task : DOMAIN stack'[i] = DOMAIN stack[i]
      /\ Held' = Held
  BY GoesHolds
<1>2. At(p) /\ Top.at = p /\ stack[rsp] # <<>> /\ Len(stack[rsp]) \in Nat \ {0}
  BY TopFrame DEF Goes, At
<1>3. /\ \A i \in Task : i # rsp => stack'[i] = stack[i]
      /\ Len(stack'[rsp]) = Len(stack[rsp])
      /\ \A k \in 1 .. (Len(stack[rsp]) - 1) : stack'[rsp][k] = stack[rsp][k]
      /\ Top' = f
      /\ \A q : At(q)' <=> f.at = q
  BY GoesStack
<1>4. InQueue' = InQueue
  BY DEF InQueue
<1>5. Leaving' <=> Leaving
  BY <1>2, <1>3 DEF Leaving, At
<1>6. Distinct' /\ Somewhere' /\ Apart' /\ Ends'
  BY <1>1, <1>4, <1>5, EachOnceParts DEF Distinct, Somewhere, Apart, Ends
<1>7. OneHolder'
  BY <1>1, EachOnceParts DEF OneHolder
<1>8. Stacks'
  <2>1. \A i \in Task : \A k \in 1 .. (Len(stack'[i]) - 1) : stack'[i][k].at \in Harmless
    BY <1>3 DEF Stacks
  <2>2. \A i \in Task : i # rsp => Intact(i)'
    BY <1>3 DEF Stacks, Intact
  <2>3. \A i \in Task : \A k \in DOMAIN stack'[i] :
          stack'[i][k].at \in Holding => stack'[i][k].task \in Task
    <3> SUFFICES ASSUME NEW i \in Task, NEW k \in DOMAIN stack'[i], stack'[i][k].at \in Holding
                 PROVE  stack'[i][k].task \in Task
      OBVIOUS
    <3>1. k \in DOMAIN stack[i]
      BY <1>1
    <3>2. CASE i = rsp /\ k = Len(stack[rsp])
      BY <3>1, <3>2, <1>2, <1>3, GoesStack, TopFrame DEF Stacks, SameHold
    <3>3. CASE ~(i = rsp /\ k = Len(stack[rsp]))
      BY <3>1, <3>3, <1>2, <1>3, TopFrame DEF Stacks
    <3> QED
      BY <3>2, <3>3
  <2> QED
    BY <1>3, <2>1, <2>2, <2>3 DEF Stacks
<1>9. Enough'
  <2>1. (\E q \in Holding : At(q) /\ ~Leaving) => (\E q \in Holding : At(q)' /\ ~Leaving')
    BY <1>2, <1>3, <1>5 DEF SameHold, At
  <2> QED
    BY <2>1 DEF Enough
<1>10. EndIsMine'
  BY <1>5 DEF EndIsMine
<1> QED
  BY <1>6, <1>7, <1>8, <1>9, <1>10

(* The list, when neither it nor the queue changes.                        *)
LEMMA ListKept ==
  ASSUME IInv, UNCHANGED <<list, queue>>
  PROVE  ListIsQueue'
BY EachOnceParts DEF IInv, ListIsQueue, list, Last

(* The list has a head, which is a task.                                   *)
LEMMA HeadIsTask ==
  ASSUME IInv
  PROVE  start \in Task /\ start # Null /\ queue # <<>> /\ start = queue[1]
BY EachOnceParts, SwitchAssumption DEF IInv, ListIsQueue, TypeOK, Task, Null

LEMMA TakeStep ==
  ASSUME IInv, Take
  PROVE  IInv'
<1> DEFINE f == [Top EXCEPT !.at = "taken", !.task = start]
<1>1. At("enter") /\ Goes("enter", f) /\ f.at = "taken" /\ f.task = start
  BY HeadIsTask, TopFrame DEF Take, Goes, IInv, Frame
<1>2. f \in Frame /\ SameHold("enter", f)
  BY <1>1, HeadIsTask, TopFrame DEF IInv, Frame, Point, Holding, SameHold
<1>3. UNCHANGED <<list, currentPCB, running, tos, rsp, queue>>
  BY DEF Take
<1> HIDE DEF f
<1>4. /\ stack' \in [Task -> Seq(Frame)]
      /\ Top' = f /\ \A q : At(q)' <=> f.at = q
  BY <1>1, <1>2, <1>3, GoesStack DEF IInv
<1>5. TypeOK'
  BY <1>3, <1>4 DEF IInv, TypeOK, list
<1>6. /\ Distinct' /\ Somewhere' /\ Apart' /\ Ends' /\ OneHolder'
      /\ Stacks' /\ Enough' /\ EndIsMine'
  BY <1>1, <1>2, <1>3, GoesOn
<1>7. Handler'
  BY <1>1, <1>3, <1>4, TopFrame DEF IInv, Handler, Handing, Leaves, list, At
<1> QED
  BY <1>3, <1>5, <1>6, <1>7, ListKept, EachOnceParts1 DEF IInv, list

LEMMA SaveStep ==
  ASSUME IInv, Save
  PROVE  IInv'
<1> DEFINE f == [Top EXCEPT !.at = "saved", !.from = currentPCB]
<1>1. At("held") /\ Goes("held", f) /\ Top.at = "held"
  BY TopFrame DEF Save, Goes, IInv
<1>2. currentPCB = rsp /\ rsp \in Task
  BY <1>1 DEF IInv, Handler, At, TypeOK
<1>3. /\ f \in Frame /\ f.at = "saved" /\ f.from = rsp /\ f.task = Top.task
      /\ SameHold("held", f)
  BY <1>1, <1>2, TopFrame DEF IInv, Frame, Point, Holding, SameHold
<1>4. /\ UNCHANGED <<list, currentPCB, running, rsp, queue>>
      /\ tos' = [tos EXCEPT ![rsp] = Len(stack[rsp])]
  BY <1>2 DEF Save, Saved
<1> HIDE DEF f
<1>5. /\ stack' \in [Task -> Seq(Frame)] /\ Len(stack'[rsp]) = Len(stack[rsp])
      /\ Top' = f /\ \A q : At(q)' <=> f.at = q
  BY <1>1, <1>3, <1>4, GoesStack DEF IInv
<1>6. TypeOK'
  BY <1>1, <1>4, <1>5, TopFrame DEF IInv, TypeOK, list
<1>7. /\ Distinct' /\ Somewhere' /\ Apart' /\ Ends' /\ OneHolder'
      /\ Stacks' /\ Enough' /\ EndIsMine'
  <2>1. \A i \in Task : i # rsp => tos'[i] = tos[i]
    BY <1>2, <1>4 DEF IInv, TypeOK
  <2> QED
    BY <1>1, <1>3, <1>4, <2>1, GoesOn
<1>8. Handler'
  <2>1. running = {rsp} /\ tos'[rsp] = Len(stack'[rsp])
    BY <1>1, <1>2, <1>4, <1>5 DEF IInv, Handler, Handing, At, TypeOK
  <2> QED
    BY <1>1, <1>2, <1>3, <1>4, <1>5, <2>1 DEF IInv, Handler, Handing, Leaves, list, At
<1> QED
  BY <1>4, <1>6, <1>7, <1>8, ListKept, EachOnceParts1 DEF IInv, list

LEMMA MarkReadyStep ==
  ASSUME IInv, MarkReady
  PROVE  IInv'
<1> DEFINE f == [Top EXCEPT !.at = "ready"]
<1>1. At("saved") /\ Top.at = "saved" /\ Top \in Frame
  BY TopFrame DEF MarkReady, Goes, IInv
<1>2. /\ Top.from = rsp /\ running = {rsp} /\ currentPCB = rsp
      /\ tos[rsp] = Len(stack[rsp])
  BY <1>1 DEF IInv, Handler, Handing, Leaves, At
<1>3. Goes("saved", f) /\ running' = {}
  BY <1>2 DEF MarkReady
<1>4. /\ f \in Frame /\ f.at = "ready" /\ f.from = rsp /\ f.task = Top.task
      /\ SameHold("saved", f)
  BY <1>1, <1>2 DEF Frame, Point, Holding, SameHold
<1>5. UNCHANGED <<list, currentPCB, tos, rsp, queue>>
  BY DEF MarkReady
<1> HIDE DEF f
<1>6. /\ stack' \in [Task -> Seq(Frame)] /\ Len(stack'[rsp]) = Len(stack[rsp])
      /\ Top' = f /\ \A q : At(q)' <=> f.at = q
  BY <1>3, <1>4, <1>5, GoesStack DEF IInv
<1>7. TypeOK'
  BY <1>3, <1>5, <1>6 DEF IInv, TypeOK, list
<1>8. /\ Distinct' /\ Somewhere' /\ Apart' /\ Ends' /\ OneHolder'
      /\ Stacks' /\ Enough' /\ EndIsMine'
  BY <1>3, <1>4, <1>5, GoesOn
<1>9. Handler'
  BY <1>2, <1>3, <1>4, <1>5, <1>6 DEF Handler, Handing, Leaves, list
<1> QED
  BY <1>5, <1>7, <1>8, <1>9, ListKept, EachOnceParts1 DEF IInv, list

LEMMA MakeCurrentStep ==
  ASSUME IInv, MakeCurrent
  PROVE  IInv'
<1> DEFINE f == [Top EXCEPT !.at = "current"]
<1>1. At("queued") /\ Top.at = "queued" /\ Top \in Frame /\ Goes("queued", f)
  BY TopFrame DEF MakeCurrent, Goes, IInv
<1>2. Top.from = rsp /\ tos[rsp] = Len(stack[rsp]) /\ Top.task \in Task
  <2>1. Top = stack[rsp][Len(stack[rsp])] /\ Len(stack[rsp]) \in DOMAIN stack[rsp] /\ rsp \in Task
    BY <1>1, TopFrame DEF IInv, TypeOK
  <2> QED
    BY <1>1, <2>1 DEF IInv, Handler, Leaves, Stacks, Holding
<1>3. /\ f \in Frame /\ f.at = "current" /\ f.from = rsp /\ f.task = Top.task
      /\ SameHold("queued", f)
  BY <1>1, <1>2 DEF Frame, Point, Holding, SameHold
<1>4. UNCHANGED <<list, running, tos, rsp, queue>> /\ currentPCB' = Top.task
  BY DEF MakeCurrent
<1> HIDE DEF f
<1>5. /\ stack' \in [Task -> Seq(Frame)] /\ Len(stack'[rsp]) = Len(stack[rsp])
      /\ Top' = f /\ \A q : At(q)' <=> f.at = q
  BY <1>1, <1>3, <1>4, GoesStack DEF IInv
<1>6. TypeOK'
  BY <1>2, <1>4, <1>5 DEF IInv, TypeOK, list
<1>7. /\ Distinct' /\ Somewhere' /\ Apart' /\ Ends' /\ OneHolder'
      /\ Stacks' /\ Enough' /\ EndIsMine'
  BY <1>1, <1>3, <1>4, GoesOn
<1>8. Handler'
  BY <1>1, <1>2, <1>3, <1>4, <1>5 DEF IInv, Handler, Handing, Leaves, list, At
<1> QED
  BY <1>4, <1>6, <1>7, <1>8, ListKept, EachOnceParts1 DEF IInv, list

LEMMA MarkRunningStep ==
  ASSUME IInv, MarkRunning
  PROVE  IInv'
<1> DEFINE f == [Top EXCEPT !.at = "return"]
<1>1. At("loaded") /\ Top.at = "loaded" /\ Top \in Frame /\ Goes("loaded", f)
  BY TopFrame DEF MarkRunning, Goes, IInv
<1>2. Top.task = rsp /\ currentPCB = rsp /\ rsp \in Task
  BY <1>1 DEF IInv, Handler, At, TypeOK
<1>3. f \in Frame /\ f.at = "return" /\ SameHold("loaded", f)
  BY <1>1 DEF Frame, Point, Holding, SameHold
<1>4. UNCHANGED <<list, currentPCB, tos, rsp, queue>> /\ running' = running \cup {rsp}
  BY <1>2 DEF MarkRunning, Marked
<1> HIDE DEF f
<1>5. /\ stack' \in [Task -> Seq(Frame)]
      /\ Top' = f /\ \A q : At(q)' <=> f.at = q
  BY <1>1, <1>3, <1>4, GoesStack DEF IInv
<1>6. TypeOK'
  BY <1>2, <1>4, <1>5 DEF IInv, TypeOK, list
<1>7. /\ Distinct' /\ Somewhere' /\ Apart' /\ Ends' /\ OneHolder'
      /\ Stacks' /\ Enough' /\ EndIsMine'
  BY <1>1, <1>3, <1>4, GoesOn
<1>8. Handler'
  BY <1>2, <1>3, <1>4, <1>5 DEF IInv, Handler, Handing, Leaves, list
<1> QED
  BY <1>4, <1>6, <1>7, <1>8, ListKept, EachOnceParts1 DEF IInv, list

LEMMA LinkLastStep ==
  ASSUME IInv, LinkLast
  PROVE  IInv'
<1> DEFINE f == [Top EXCEPT !.at = "linked"]
<1>1. At("ready") /\ Top.at = "ready" /\ Top \in Frame /\ Goes("ready", f)
  BY TopFrame DEF LinkLast, Goes, IInv
<1>2. /\ Top.from = rsp /\ tos[rsp] = Len(stack[rsp]) /\ running = {} /\ currentPCB = rsp
      /\ rsp \in Task
  BY <1>1 DEF IInv, Handler, Handing, Leaves, At, TypeOK
<1>3. /\ f \in Frame /\ f.at = "linked" /\ f.from = rsp /\ f.task = Top.task
      /\ SameHold("ready", f)
  BY <1>1, <1>2 DEF Frame, Point, Holding, SameHold
<1>4. /\ UNCHANGED <<start, end, currentPCB, running, tos, rsp, queue>>
      /\ next' = [next EXCEPT ![end] = rsp]
  BY <1>2 DEF LinkLast, Linked
<1> HIDE DEF f
<1>5. /\ stack' \in [Task -> Seq(Frame)] /\ Len(stack'[rsp]) = Len(stack[rsp])
      /\ Top' = f /\ \A q : At(q)' <=> f.at = q
  BY <1>1, <1>3, <1>4, GoesStack DEF IInv
<1>6. TypeOK' /\ next'[end] = rsp
  BY <1>2, <1>4, <1>5 DEF IInv, TypeOK
<1>7. /\ Distinct' /\ Somewhere' /\ Apart' /\ Ends' /\ OneHolder'
      /\ Stacks' /\ Enough' /\ EndIsMine'
  BY <1>1, <1>3, <1>4, GoesOn
<1>8. Handler'
  BY <1>2, <1>3, <1>4, <1>5, <1>6 DEF Handler, Handing, Leaves
<1>9. ListIsQueue'
  <2>1. ListIsQueue /\ Distinct /\ queue \in Seq(Task)
    BY EachOnceParts DEF IInv, TypeOK
  <2>2. ASSUME NEW k \in 1 .. (Len(queue) - 1)
        PROVE  queue[k] # end /\ queue[k] \in Task /\ next[queue[k]] = queue[k + 1]
    BY <2>1 DEF ListIsQueue, Distinct, Last
  <2>3. ASSUME NEW k \in 1 .. (Len(queue) - 1)
        PROVE  next'[queue[k]] = queue[k + 1]
    BY <1>4, <2>2 DEF IInv, TypeOK
  <2> QED
    BY <1>4, <2>1, <2>3 DEF ListIsQueue, Last
<1> QED
  BY <1>6, <1>7, <1>8, <1>9, EachOnceParts1 DEF IInv

(* The head leaves the list for the innermost handler.                     *)
LEMMA AdvanceStep ==
  ASSUME IInv, Advance
  PROVE  IInv'
<1> DEFINE f == [Top EXCEPT !.at = "held"]
           n == Len(stack[rsp])
<1>1. At("taken") /\ Top.at = "taken" /\ Top \in Frame /\ Goes("taken", f)
  BY TopFrame DEF Advance, Goes, IInv
<1>2. start \in Task /\ start = queue[1] /\ Top.task = start /\ rsp \in Task /\ ~Leaving
  BY <1>1, HeadIsTask DEF IInv, Handler, Leaving, At, TypeOK
<1>3. f \in Frame /\ f.at = "held" /\ f.task = start
  BY <1>1, <1>2 DEF Frame, Point, Holding
<1>4. /\ UNCHANGED <<end, next, currentPCB, running, tos, rsp>>
      /\ start' = next[start] /\ queue' = Tail(queue)
  BY DEF Advance
<1>5. queue \in Seq(Task) /\ Len(queue) >= 2
  BY <1>1, <1>2 DEF IInv, Enough, TypeOK, Holding, At
<1>6. /\ stack[rsp] \in Seq(Frame) /\ n \in Nat \ {0} /\ DOMAIN stack[rsp] = 1 .. n
      /\ stack[rsp][n] = Top
  BY <1>1, TopFrame DEF IInv
<1> HIDE DEF f
<1>7. /\ stack' \in [Task -> Seq(Frame)] /\ Len(stack'[rsp]) = n
      /\ \A i \in Task : i # rsp => stack'[i] = stack[i]
      /\ \A k \in 1 .. (n - 1) : stack'[rsp][k] = stack[rsp][k]
      /\ stack'[rsp][n] = f
      /\ Top' = f /\ \A q : At(q)' <=> f.at = q
  BY <1>1, <1>3, <1>4, GoesStack DEF IInv
<1> HIDE DEF n
<1>8. /\ queue' \in Seq(Task) /\ Len(queue') = Len(queue) - 1
      /\ \A k \in 1 .. (Len(queue) - 1) : queue'[k] = queue[k + 1]
  BY <1>4, <1>5
<1>9. \A i \in Task : DOMAIN stack'[i] = DOMAIN stack[i]
  BY <1>6, <1>7
<1>10. ASSUME NEW i \in Task, NEW k, NEW t \in Task
       PROVE  Holds(i, k, t)' <=> Holds(i, k, t) \/ (i = rsp /\ k = n /\ t = start)
  <2>1. CASE i # rsp
    BY <2>1, <1>7 DEF Holds
  <2>2. CASE i = rsp /\ k \in 1 .. (n - 1)
    BY <2>2, <1>6, <1>7, <1>9 DEF Holds
  <2>3. CASE i = rsp /\ k = n
    BY <2>3, <1>1, <1>3, <1>6, <1>7, <1>9 DEF Holds, Holding
  <2>4. CASE i = rsp /\ k \notin 1 .. n
    BY <2>4, <1>6, <1>9 DEF Holds
  <2> QED
    BY <1>6, <2>1, <2>2, <2>3, <2>4
<1>11. Held' = Held \cup {start}
  <2>1. n \in DOMAIN stack'[rsp]
    BY <1>6, <1>7
  <2> QED
    BY <1>2, <1>6, <1>9, <1>10, <2>1 DEF Held
<1>12. ListIsQueue /\ Distinct /\ Somewhere /\ Apart /\ Ends /\ OneHolder
  BY EachOnceParts DEF IInv
<1>13. InQueue' = InQueue \ {start}
  <2>1. \A x : x \in InQueue' <=> \E k \in 1 .. (Len(queue) - 1) : x = queue[k + 1]
    BY <1>8 DEF InQueue
  <2>2. \A x : x \in InQueue <=> \E k \in 1 .. Len(queue) : x = queue[k]
    BY <1>5 DEF InQueue
  <2>3. \A k \in 2 .. Len(queue) : k - 1 \in 1 .. (Len(queue) - 1) /\ (k - 1) + 1 = k
    BY <1>5
  <2>4. \A k \in 1 .. (Len(queue) - 1) : queue[k + 1] # start /\ k + 1 \in 1 .. Len(queue)
    BY <1>2, <1>5, <1>12 DEF Distinct
  <2>5. ASSUME NEW x \in InQueue, x # start
        PROVE  x \in InQueue'
    <3>1. PICK k \in 1 .. Len(queue) : x = queue[k]
      BY <2>2, <2>5
    <3>2. k \in 2 .. Len(queue)
      BY <1>2, <1>5, <2>5, <3>1
    <3> QED
      BY <2>1, <2>3, <3>1, <3>2
  <2>6. ASSUME NEW x \in InQueue'
        PROVE  x \in InQueue \ {start}
    BY <2>1, <2>2, <2>4
  <2> QED
    BY <2>5, <2>6
<1>14. TypeOK'
  <2>1. next[start] \in Task \cup {Null}
    BY <1>2 DEF IInv, TypeOK
  <2> QED
    BY <1>4, <1>7, <1>8, <2>1 DEF IInv, TypeOK
<1>15. ListIsQueue'
  <2>1. start' = queue'[1]
    BY <1>2, <1>4, <1>5, <1>8, <1>12 DEF ListIsQueue
  <2>2. end' = Last(queue)'
    <3>1. queue'[Len(queue) - 1] = queue[Len(queue)]
      BY <1>5, <1>8
    <3> QED
      BY <1>4, <1>8, <1>12, <3>1 DEF ListIsQueue, Last
  <2>3. \A k \in 1 .. (Len(queue') - 1) : next'[queue'[k]] = queue'[k + 1]
    BY <1>4, <1>5, <1>8, <1>12 DEF ListIsQueue
  <2> QED
    BY <1>5, <1>8, <2>1, <2>2, <2>3 DEF ListIsQueue
<1>16. ~Leaving'
  BY <1>3, <1>7 DEF Leaving
<1>17. Distinct'
  <2> SUFFICES ASSUME NEW j \in DOMAIN queue', NEW k \in DOMAIN queue',
                      queue'[j] = queue'[k]
               PROVE  j = k
    BY DEF Distinct
  <2>1. /\ j \in 1 .. (Len(queue) - 1) /\ k \in 1 .. (Len(queue) - 1)
        /\ j + 1 \in DOMAIN queue /\ k + 1 \in DOMAIN queue
    BY <1>5, <1>8
  <2>2. queue[j + 1] = queue[k + 1]
    BY <1>8, <2>1
  <2>3. j + 1 = k + 1
    BY <1>12, <2>1, <2>2 DEF Distinct
  <2> QED
    BY <2>1, <2>3
<1>18. start \in InQueue
  BY <1>2, <1>5 DEF InQueue
<1>19. Somewhere' /\ Apart' /\ Ends'
  BY <1>2, <1>4, <1>11, <1>12, <1>13, <1>16, <1>18 DEF Somewhere, Apart, Ends
<1>20. OneHolder'
  <2> SUFFICES ASSUME NEW t \in Task, NEW i \in Task, NEW j \in Task,
                      NEW k \in DOMAIN stack[i], NEW l \in DOMAIN stack[j],
                      Holds(i, k, t)', Holds(j, l, t)'
               PROVE  i = j /\ k = l
    BY <1>9 DEF OneHolder
  <2>1. t = start => ~Holds(i, k, t) /\ ~Holds(j, l, t)
    BY <1>12, <1>18 DEF Apart, Held
  <2> QED
    BY <1>10, <1>12, <2>1 DEF OneHolder
<1>21. Stacks'
  <2>1. Stacks
    BY DEF IInv
  <2>2. \A i \in Task : \A k \in 1 .. (Len(stack'[i]) - 1) : stack'[i][k].at \in Harmless
    BY <1>7, <2>1 DEF Stacks, n
  <2>3. \A i \in Task : i # rsp' => Intact(i)'
    BY <1>4, <1>7, <2>1 DEF Stacks, Intact
  <2>4. \A i \in Task : \A k \in DOMAIN stack'[i] :
          stack'[i][k].at \in Holding => stack'[i][k].task \in Task
    BY <1>2, <1>3, <1>6, <1>7, <1>9, <2>1 DEF Stacks
  <2> QED
    BY <1>3, <1>7, <2>2, <2>3, <2>4 DEF Stacks
<1>22. Handler'
  BY <1>1, <1>3, <1>4, <1>7 DEF IInv, Handler, Handing, Leaves, At
<1>23. Enough' /\ EndIsMine'
  BY <1>3, <1>5, <1>7, <1>8, <1>16 DEF Enough, EndIsMine, Holding
<1> QED
  BY <1>14, <1>15, <1>17, <1>19, <1>20, <1>21, <1>22, <1>23, EachOnceParts1 DEF IInv

(* The task that leaves becomes the list's end.                            *)
LEMMA MoveEndStep ==
  ASSUME IInv, MoveEnd
  PROVE  IInv'
<1> DEFINE f == [Top EXCEPT !.at = "queued"]
           n == Len(queue)
<1>1. At("linked") /\ Top.at = "linked" /\ Top \in Frame /\ Goes("linked", f)
  BY TopFrame DEF MoveEnd, Goes, IInv
<1>2. /\ Top.from = rsp /\ tos[rsp] = Len(stack[rsp]) /\ running = {} /\ currentPCB = rsp
      /\ rsp \in Task /\ next[end] = rsp /\ ~Leaving
  BY <1>1 DEF IInv, Handler, Handing, Leaves, Leaving, At, TypeOK
<1>3. /\ f \in Frame /\ f.at = "queued" /\ f.from = rsp /\ f.task = Top.task
      /\ SameHold("linked", f)
  BY <1>1, <1>2 DEF Frame, Point, Holding, SameHold
<1>4. /\ UNCHANGED <<start, next, currentPCB, running, tos, rsp>>
      /\ end' = rsp /\ queue' = Append(queue, rsp)
  BY <1>2 DEF MoveEnd
<1> HIDE DEF f
<1>5. /\ stack' \in [Task -> Seq(Frame)] /\ Len(stack'[rsp]) = Len(stack[rsp])
      /\ \A i \in Task : i # rsp => stack'[i] = stack[i]
      /\ \A k \in 1 .. (Len(stack[rsp]) - 1) : stack'[rsp][k] = stack[rsp][k]
      /\ stack'[rsp][Len(stack[rsp])] = f
      /\ Top' = f /\ \A q : At(q)' <=> f.at = q
  BY <1>1, <1>3, <1>4, GoesStack DEF IInv
<1>6. /\ queue \in Seq(Task) /\ n \in Nat /\ n >= 1
      /\ queue' \in Seq(Task) /\ Len(queue') = n + 1
      /\ \A k \in 1 .. n : queue'[k] = queue[k]
      /\ queue'[n + 1] = rsp
  BY <1>2, <1>4 DEF IInv, TypeOK, Enough
<1> HIDE DEF n
<1>7. /\ \A i, t \in Task : \A k : Holds(i, k, t)' <=> Holds(i, k, t)
      /\ \A i \in Task : DOMAIN stack'[i] = DOMAIN stack[i]
      /\ Held' = Held
  BY <1>1, <1>3, <1>4, GoesHolds DEF IInv
<1>8. ListIsQueue /\ Distinct /\ Somewhere /\ Apart /\ Ends /\ OneHolder
  BY EachOnceParts DEF IInv
<1>9. InQueue' = InQueue \cup {rsp} /\ rsp \notin InQueue
  <2>1. \A x : x \in InQueue <=> \E k \in 1 .. n : x = queue[k]
    BY <1>6 DEF InQueue, n
  <2>2. \A x : x \in InQueue' <=> \E k \in 1 .. (n + 1) : x = queue'[k]
    BY <1>6 DEF InQueue
  <2>3. 1 .. (n + 1) = (1 .. n) \cup {n + 1}
    BY <1>6
  <2> QED
    BY <1>2, <1>6, <1>8, <2>1, <2>2, <2>3 DEF Ends
<1>10. Leaving'
  BY <1>3, <1>5 DEF Leaving
<1>11. TypeOK'
  BY <1>2, <1>4, <1>5, <1>6 DEF IInv, TypeOK
<1>12. ListIsQueue'
  <2>1. end = queue[n] /\ start = queue[1]
    BY <1>8 DEF ListIsQueue, Last, n
  <2>2. ASSUME NEW k \in 1 .. n
        PROVE  next[queue'[k]] = queue'[k + 1]
    <3>1. CASE k = n
      BY <1>2, <1>6, <2>1, <3>1
    <3>2. CASE k # n
      BY <1>6, <1>8, <3>2 DEF ListIsQueue, n
    <3> QED
      BY <3>1, <3>2
  <2> QED
    BY <1>4, <1>6, <2>1, <2>2 DEF ListIsQueue, Last
<1>13. Distinct'
  <2>1. \A k \in 1 .. n : queue[k] \in InQueue
    BY <1>6 DEF InQueue, n
  <2> QED
    BY <1>6, <1>8, <1>9, <2>1 DEF Distinct, n
<1>14. Somewhere' /\ Apart' /\ Ends'
  BY <1>4, <1>7, <1>8, <1>9, <1>10 DEF Somewhere, Apart, Ends
<1>15. OneHolder'
  BY <1>7, <1>8 DEF OneHolder
<1>16. Stacks'
  <2>1. Stacks /\ Len(stack[rsp]) \in Nat \ {0} /\ DOMAIN stack[rsp] = 1 .. Len(stack[rsp])
        /\ Top = stack[rsp][Len(stack[rsp])]
    BY <1>1, TopFrame DEF IInv
  <2>2. \A i \in Task : \A k \in 1 .. (Len(stack'[i]) - 1) : stack'[i][k].at \in Harmless
    BY <1>5, <2>1 DEF Stacks
  <2>3. \A i \in Task : i # rsp' => Intact(i)'
    BY <1>4, <1>5, <2>1 DEF Stacks, Intact
  <2>4. \A i \in Task : \A k \in DOMAIN stack'[i] :
          stack'[i][k].at \in Holding => stack'[i][k].task \in Task
    <3>1. Top.task \in Task
      BY <1>1, <1>2, <2>1 DEF Stacks, Holding
    <3> QED
      BY <1>3, <1>5, <1>7, <2>1, <3>1 DEF Stacks
  <2> QED
    BY <1>3, <1>5, <2>2, <2>3, <2>4 DEF Stacks
<1>17. Handler'
  BY <1>2, <1>3, <1>4, <1>5 DEF Handler, Handing, Leaves
<1>18. Enough' /\ EndIsMine'
  BY <1>4, <1>6 DEF Enough, EndIsMine, Last
<1> QED
  BY <1>11, <1>12, <1>13, <1>14, <1>15, <1>16, <1>17, <1>18, EachOnceParts1 DEF IInv

(* The other stack.                                                        *)
LEMMA LoadStep ==
  ASSUME IInv, Load
  PROVE  IInv'
<1> DEFINE t == Top.task
           f == [at |-> "loaded", task |-> t, from |-> Null]
           n == Len(stack[rsp])
           m == Len(stack[t])
<1>1. At("current") /\ Top.at = "current" /\ Top \in Frame
      /\ stack[rsp] \in Seq(Frame) /\ n \in Nat \ {0} /\ DOMAIN stack[rsp] = 1 .. n
      /\ stack[rsp][n] = Top
  BY TopFrame DEF Load, IInv
<1>2. t \in Task /\ rsp \in Task /\ currentPCB = t /\ running = {} /\ Leaving
      /\ tos[rsp] = n
  BY <1>1 DEF IInv, Stacks, Handler, Handing, Leaves, Holding, Leaving, At, TypeOK
<1>3. ListIsQueue /\ Distinct /\ Somewhere /\ Apart /\ Ends /\ OneHolder
  BY EachOnceParts DEF IInv
<1>4. Holds(rsp, n, t) /\ t \in Held /\ t # rsp /\ t \notin InQueue /\ rsp \in InQueue
  <2>1. Holds(rsp, n, t)
    BY <1>1 DEF Holds, Holding
  <2> QED
    BY <1>1, <1>2, <1>3, <2>1 DEF Held, Apart, Ends
<1>5. /\ stack[t] \in Seq(Frame) /\ m \in Nat \ {0} /\ DOMAIN stack[t] = 1 .. m
      /\ stack[t][m].at = "out"
  BY <1>2, <1>4 DEF IInv, Stacks, Intact, TypeOK, Last
<1>6. /\ stack' = [stack EXCEPT ![rsp] = [stack[rsp] EXCEPT ![n] = Suspended],
                                ![t] = [stack[t] EXCEPT ![m] = f]]
      /\ UNCHANGED <<list, currentPCB, running, tos, queue>> /\ rsp' = t
  BY <1>4 DEF Load, Put, IInv, TypeOK
<1>7. f \in Frame /\ Suspended \in Frame
  BY <1>2 DEF Frame, Point, Suspended
<1>8. f.at = "loaded" /\ f.task = t /\ Suspended.at = "out"
  BY DEF Suspended
<1> HIDE DEF f, n, m, t
<1>9. /\ stack'[rsp] = [stack[rsp] EXCEPT ![n] = Suspended]
      /\ stack'[t] = [stack[t] EXCEPT ![m] = f]
      /\ \A i \in Task : i # rsp /\ i # t => stack'[i] = stack[i]
  BY <1>2, <1>4, <1>6 DEF IInv, TypeOK
<1>10. /\ stack'[rsp] \in Seq(Frame) /\ Len(stack'[rsp]) = n /\ DOMAIN stack'[rsp] = 1 .. n
       /\ stack'[rsp][n] = Suspended
       /\ \A k \in 1 .. (n - 1) : stack'[rsp][k] = stack[rsp][k]
  BY <1>1, <1>7, <1>9 DEF n
<1>11. /\ stack'[t] \in Seq(Frame) /\ Len(stack'[t]) = m /\ DOMAIN stack'[t] = 1 .. m
       /\ stack'[t][m] = f
       /\ \A k \in 1 .. (m - 1) : stack'[t][k] = stack[t][k]
  BY <1>5, <1>7, <1>9 DEF m
<1>12. \A i \in Task : DOMAIN stack'[i] = DOMAIN stack[i]
  BY <1>1, <1>5, <1>9, <1>10, <1>11
<1>13. ASSUME NEW i \in Task, NEW k, NEW u \in Task
       PROVE  Holds(i, k, u)' <=> Holds(i, k, u) /\ ~(i = rsp /\ k = n)
  <2>1. CASE i # rsp /\ i # t
    BY <2>1, <1>9 DEF Holds
  <2>2. CASE i = rsp /\ k = n
    BY <2>2, <1>8, <1>10 DEF Holds, Holding
  <2>3. CASE i = t /\ k = m
    BY <2>3, <1>4, <1>5, <1>8, <1>11 DEF Holds, Holding
  <2>4. CASE i = rsp /\ k # n
    BY <2>4, <1>1, <1>10 DEF Holds
  <2>5. CASE i = t /\ k # m
    BY <2>5, <1>4, <1>5, <1>11 DEF Holds
  <2> QED
    BY <2>1, <2>2, <2>3, <2>4, <2>5
<1>14. Held' = Held \ {t}
  <2>1. \A i \in Task : \A k \in DOMAIN stack[i] : Holds(i, k, t) => i = rsp /\ k = n
    BY <1>1, <1>2, <1>3, <1>4 DEF OneHolder
  <2>2. \A u \in Task : Holds(rsp, n, u) => u = t
    BY <1>4 DEF Holds
  <2> QED
    BY <1>12, <1>13, <2>1, <2>2 DEF Held
<1>15. InQueue' = InQueue
  BY <1>6 DEF InQueue
<1>16. Top' = f /\ \A q : At(q)' <=> f.at = q
  <2>1. stack'[rsp'] = stack'[t] /\ stack'[t] # <<>>
    BY <1>5, <1>6, <1>11
  <2>2. Top' = f
    BY <1>11, <2>1 DEF Top, Last
  <2> QED
    BY <2>1, <2>2 DEF At
<1>17. ~Leaving'
  BY <1>8, <1>16 DEF Leaving
<1>18. TypeOK'
  <2>1. stack' \in [Task -> Seq(Frame)]
    BY <1>6, <1>9, <1>10, <1>11 DEF IInv, TypeOK
  <2> QED
    BY <1>2, <1>6, <2>1 DEF IInv, TypeOK, list
<1>19. Distinct' /\ Somewhere' /\ Apart' /\ Ends'
  BY <1>3, <1>4, <1>6, <1>14, <1>15, <1>17 DEF Distinct, Somewhere, Apart, Ends
<1>20. OneHolder'
  BY <1>3, <1>12, <1>13 DEF OneHolder
<1>21. Stacks'
  <2>1. Stacks
    BY DEF IInv
  <2>2. \A i \in Task : \A k \in 1 .. (Len(stack'[i]) - 1) : stack'[i][k].at \in Harmless
    BY <1>9, <1>10, <1>11, <2>1 DEF Stacks, n, m
  <2>3. \A i \in Task : i # rsp' => Intact(i)'
    <3> SUFFICES ASSUME NEW i \in Task, i # t
                 PROVE  Intact(i)'
      BY <1>6
    <3>1. CASE i = rsp
      BY <3>1, <1>1, <1>2, <1>6, <1>8, <1>10 DEF Intact, Last
    <3>2. CASE i # rsp
      BY <3>2, <1>6, <1>9, <2>1 DEF Stacks, Intact
    <3> QED
      BY <3>1, <3>2
  <2>4. \A i \in Task : \A k \in DOMAIN stack'[i] :
          stack'[i][k].at \in Holding => stack'[i][k].task \in Task
    <3> SUFFICES ASSUME NEW i \in Task, NEW k \in DOMAIN stack[i],
                        stack'[i][k].at \in Holding
                 PROVE  stack'[i][k].task \in Task
      BY <1>12
    <3>1. ~(i = rsp /\ k = n) /\ ~(i = t /\ k = m)
      BY <1>8, <1>10, <1>11 DEF Holding
    <3>2. stack'[i][k] = stack[i][k]
      BY <1>1, <1>5, <1>9, <1>10, <1>11, <3>1
    <3> QED
      BY <2>1, <3>2 DEF Stacks
  <2> QED
    BY <1>8, <1>16, <2>2, <2>3, <2>4 DEF Stacks
<1>22. Handler'
  BY <1>2, <1>6, <1>8, <1>16 DEF Handler, Handing, Leaves, list
<1>23. Enough' /\ EndIsMine'
  BY <1>2, <1>6, <1>17 DEF IInv, Enough, EndIsMine
<1> QED
  BY <1>6, <1>18, <1>19, <1>20, <1>21, <1>22, <1>23, ListKept, EachOnceParts1 DEF IInv

(* A tick, and the end of a handler: the frames below are at harmless      *)
(* places, and the new or the old one holds no task.                       *)
LEMMA TickStep ==
  ASSUME IInv, Tick, Windows \subseteq Harmless
  PROVE  IInv'
<1> DEFINE f == [at |-> "enter", task |-> Null, from |-> Null]
           n == Len(stack[rsp])
<1>1. /\ stack[rsp] # <<>> => Top.at \in Harmless
      /\ At("held") => Len(queue) >= 2
      /\ stack' = [stack EXCEPT ![rsp] = Append(stack[rsp], f)]
      /\ UNCHANGED <<list, currentPCB, running, tos, rsp, queue>>
  BY DEF Tick
<1>2. rsp \in Task /\ stack[rsp] \in Seq(Frame) /\ n \in Nat /\ DOMAIN stack[rsp] = 1 .. n
  BY DEF IInv, TypeOK
<1>3. f \in Frame /\ f.at = "enter"
  BY DEF Frame, Point
<1> HIDE DEF f, n
<1>4. /\ stack'[rsp] = Append(stack[rsp], f)
      /\ \A i \in Task : i # rsp => stack'[i] = stack[i]
  BY <1>1, <1>2 DEF IInv, TypeOK
<1>5. /\ stack'[rsp] \in Seq(Frame) /\ Len(stack'[rsp]) = n + 1
      /\ DOMAIN stack'[rsp] = 1 .. (n + 1)
      /\ stack'[rsp][n + 1] = f
      /\ \A k \in 1 .. n : stack'[rsp][k] = stack[rsp][k]
  BY <1>2, <1>3, <1>4 DEF n
<1>6. Top' = f /\ \A q : At(q)' <=> f.at = q
  <2>1. rsp' = rsp /\ stack'[rsp] # <<>>
    BY <1>1, <1>2, <1>5
  <2>2. Top' = f
    BY <1>5, <2>1 DEF Top, Last
  <2> QED
    BY <2>1, <2>2 DEF At
<1>7. ~Leaving' /\ ~Leaving
  BY <1>1, <1>3, <1>6 DEF Leaving, At, Harmless
<1>8. ASSUME NEW i \in Task, NEW k, NEW t \in Task
      PROVE  Holds(i, k, t)' <=> Holds(i, k, t)
  <2>1. CASE i # rsp
    BY <2>1, <1>4 DEF Holds
  <2>2. CASE i = rsp /\ k \in 1 .. n
    BY <2>2, <1>2, <1>5 DEF Holds
  <2>3. CASE i = rsp /\ k = n + 1
    BY <2>3, <1>2, <1>3, <1>5 DEF Holds, Holding
  <2>4. CASE i = rsp /\ k \notin 1 .. (n + 1)
    BY <2>4, <1>2, <1>5 DEF Holds
  <2> QED
    BY <1>2, <2>1, <2>2, <2>3, <2>4
<1>9. Held' = Held
  BY <1>8 DEF Held, Holds
<1>10. ListIsQueue /\ Distinct /\ Somewhere /\ Apart /\ Ends /\ OneHolder
  BY EachOnceParts DEF IInv
<1>11. InQueue' = InQueue
  BY <1>1 DEF InQueue
<1>12. Distinct' /\ Somewhere' /\ Apart' /\ Ends'
  BY <1>1, <1>7, <1>9, <1>10, <1>11 DEF Distinct, Somewhere, Apart, Ends
<1>13. OneHolder'
  BY <1>8, <1>10 DEF OneHolder, Holds
<1>14. TypeOK'
  BY <1>1, <1>2, <1>4, <1>5 DEF IInv, TypeOK, list
<1>15. Stacks'
  <2>1. Stacks
    BY DEF IInv
  <2>2. \A i \in Task : \A k \in 1 .. (Len(stack'[i]) - 1) : stack'[i][k].at \in Harmless
    <3>1. \A k \in 1 .. n : stack[rsp][k].at \in Harmless
      BY <1>1, <1>2, <2>1 DEF Stacks, Top, Last, n
    <3>2. \A k \in 1 .. (Len(stack'[rsp]) - 1) : stack'[rsp][k].at \in Harmless
      BY <1>2, <1>5, <3>1
    <3>3. ASSUME NEW i \in Task, i # rsp
          PROVE  \A k \in 1 .. (Len(stack'[i]) - 1) : stack'[i][k].at \in Harmless
      <4>1. stack'[i] = stack[i]
        BY <1>4, <3>3
      <4> QED
        BY <2>1, <4>1 DEF Stacks
    <3> QED
      BY <3>2, <3>3
  <2>3. \A i \in Task : i # rsp' => Intact(i)'
    BY <1>1, <1>4, <2>1 DEF Stacks, Intact
  <2>4. \A i \in Task : \A k \in DOMAIN stack'[i] :
          stack'[i][k].at \in Holding => stack'[i][k].task \in Task
    BY <1>2, <1>3, <1>4, <1>5, <2>1 DEF Stacks, Holding
  <2> QED
    BY <1>3, <1>6, <2>2, <2>3, <2>4 DEF Stacks
<1>16. Handler'
  BY <1>1, <1>3, <1>6 DEF IInv, Handler, Handing, Leaves, list, At, Harmless
<1>17. Enough' /\ EndIsMine'
  BY <1>1, <1>7 DEF IInv, Enough, EndIsMine, Holding, Harmless, At
<1> QED
  BY <1>1, <1>12, <1>13, <1>14, <1>15, <1>16, <1>17, ListKept, EachOnceParts1 DEF IInv

LEMMA ReturnStep ==
  ASSUME IInv, Return
  PROVE  IInv'
<1> DEFINE n == Len(stack[rsp])
<1>1. /\ At("return") /\ Top.at = "return" /\ stack[rsp][n] = Top
      /\ stack[rsp] \in Seq(Frame) /\ n \in Nat \ {0} /\ DOMAIN stack[rsp] = 1 .. n
      /\ stack' = [stack EXCEPT ![rsp] = SubSeq(stack[rsp], 1, n - 1)]
      /\ UNCHANGED <<list, currentPCB, running, tos, rsp, queue>>
      /\ rsp \in Task
  BY TopFrame DEF Return, IInv, TypeOK
<1> HIDE DEF n
<1>2. /\ stack'[rsp] = SubSeq(stack[rsp], 1, n - 1)
      /\ \A i \in Task : i # rsp => stack'[i] = stack[i]
  BY <1>1 DEF IInv, TypeOK
<1>3. /\ stack'[rsp] \in Seq(Frame) /\ Len(stack'[rsp]) = n - 1
      /\ DOMAIN stack'[rsp] = 1 .. (n - 1)
      /\ \A k \in 1 .. (n - 1) : stack'[rsp][k] = stack[rsp][k]
  BY <1>1, <1>2 DEF n
<1>4. \A q : At(q)' => q \in Harmless
  <2>1. \A k \in 1 .. (n - 1) : stack[rsp][k].at \in Harmless
    BY <1>1 DEF IInv, Stacks, n
  <2>2. stack'[rsp] # <<>> => n - 1 \in 1 .. (n - 1) /\ Top' = stack'[rsp][n - 1]
    BY <1>1, <1>3 DEF Top, Last
  <2> QED
    BY <1>1, <1>3, <2>1, <2>2 DEF At
<1>5. ~Leaving' /\ ~Leaving
  BY <1>1, <1>4 DEF Leaving, At, Harmless
<1>6. ASSUME NEW i \in Task, NEW k, NEW t \in Task
      PROVE  Holds(i, k, t)' <=> Holds(i, k, t)
  <2>1. CASE i # rsp
    BY <2>1, <1>2 DEF Holds
  <2>2. CASE i = rsp /\ k \in 1 .. (n - 1)
    BY <2>2, <1>1, <1>3 DEF Holds
  <2>3. CASE i = rsp /\ k = n
    BY <2>3, <1>1, <1>3 DEF Holds, Holding
  <2>4. CASE i = rsp /\ k \notin 1 .. n
    BY <2>4, <1>1, <1>3 DEF Holds
  <2> QED
    BY <1>1, <2>1, <2>2, <2>3, <2>4
<1>7. Held' = Held
  <2>1. \A i, t \in Task : \A k : Holds(i, k, t) => k \in DOMAIN stack[i]
    BY DEF Holds
  <2>2. \A i, t \in Task : \A k : Holds(i, k, t)' => k \in DOMAIN stack'[i]
    BY DEF Holds
  <2> QED
    BY <1>6, <2>1, <2>2 DEF Held
<1>8. ListIsQueue /\ Distinct /\ Somewhere /\ Apart /\ Ends /\ OneHolder
  BY EachOnceParts DEF IInv
<1>9. InQueue' = InQueue
  BY <1>1 DEF InQueue
<1>10. Distinct' /\ Somewhere' /\ Apart' /\ Ends'
  BY <1>1, <1>5, <1>7, <1>8, <1>9 DEF Distinct, Somewhere, Apart, Ends
<1>11. OneHolder'
  BY <1>6, <1>8 DEF OneHolder, Holds
<1>12. TypeOK'
  BY <1>1, <1>2, <1>3 DEF IInv, TypeOK, list
<1>13. Stacks'
  <2>1. Stacks
    BY DEF IInv
  <2>2. \A i \in Task : \A k \in 1 .. (Len(stack'[i]) - 1) : stack'[i][k].at \in Harmless
    BY <1>1, <1>2, <1>3, <2>1 DEF Stacks, n
  <2>3. \A i \in Task : i # rsp' => Intact(i)'
    BY <1>1, <1>2, <2>1 DEF Stacks, Intact
  <2>4. \A i \in Task : \A k \in DOMAIN stack'[i] :
          stack'[i][k].at \in Holding => stack'[i][k].task \in Task
    BY <1>1, <1>2, <1>3, <2>1 DEF Stacks
  <2>5. stack'[rsp'] # <<>> => Top'.at # "out"
    BY <1>1, <1>4 DEF At, Harmless
  <2> QED
    BY <2>2, <2>3, <2>4, <2>5 DEF Stacks
<1>14. Handler'
  <2>1. running = {rsp} /\ currentPCB = rsp
    BY <1>1 DEF IInv, Handler, Handing, At
  <2> QED
    BY <1>1, <1>4, <2>1 DEF Handler, Handing, Leaves, Harmless, list
<1>15. Enough' /\ EndIsMine'
  BY <1>1, <1>5 DEF IInv, Enough, EndIsMine, Holding, At
<1> QED
  BY <1>1, <1>10, <1>11, <1>12, <1>13, <1>14, <1>15, ListKept, EachOnceParts1 DEF IInv
-----------------------------------------------------------------------------
LEMMA InitInvariant ==
  ASSUME Init
  PROVE  IInv
<1>1. N \in Nat /\ N >= 3
  BY SwitchAssumption
<1>2. /\ queue \in Seq(Task) /\ Len(queue) = N - 1 /\ DOMAIN queue = 1 .. (N - 1)
      /\ \A k \in 1 .. (N - 1) : queue[k] = k
  BY <1>1 DEF Init, Task
<1>3. rsp = 0 /\ rsp \in Task /\ stack[rsp] = <<>> /\ \A p : ~At(p)
  <2>1. rsp = 0 /\ 0 \in Task
    BY <1>1 DEF Init, Task, Main
  <2>2. stack[0] = <<>>
    BY <2>1 DEF Init, Main
  <2> QED
    BY <2>1, <2>2 DEF At
<1>4. Suspended \in Frame /\ Suspended.at = "out"
  BY DEF Suspended, Frame, Point
<1>5. \A i \in Task : i # 0 => stack[i] = <<Suspended>> /\ tos[i] = 1
  BY DEF Init, Main
<1>6. TypeOK
  <2>1. <<Suspended>> \in Seq(Frame) /\ <<>> \in Seq(Frame)
    BY <1>4
  <2>2. stack \in [Task -> Seq(Frame)] /\ tos \in [Task -> Nat]
    BY <2>1 DEF Init
  <2>3. next \in [Task -> Task \cup {Null}]
    BY <1>1 DEF Init, Task, Main
  <2>4. start \in Task /\ end \in Task /\ currentPCB \in Task /\ running \subseteq Task
    BY <1>1 DEF Init, Task, Main
  <2> QED
    BY <1>2, <1>3, <2>2, <2>3, <2>4 DEF TypeOK
<1>7. Stacks
  <2> DEFINE one == <<Suspended>>
  <2>1. Len(one) = 1 /\ one # <<>> /\ one[1] = Suspended
    OBVIOUS
  <2>2. \A i \in Task : stack[i] = <<>> \/ stack[i] = one
    BY <1>3, <1>5
  <2>5. \A i \in Task : i # rsp => Intact(i)
    <3> SUFFICES ASSUME NEW i \in Task, i # 0
                 PROVE  Intact(i)
      BY <1>3
    <3>1. stack[i] = one /\ tos[i] = 1
      BY <1>5
    <3> HIDE DEF one
    <3> QED
      BY <1>4, <2>1, <3>1 DEF Intact, Last
  <2>3. \A i \in Task : \A k \in 1 .. (Len(stack[i]) - 1) : stack[i][k].at \in Harmless
    <3>1. Len(<<>>) = 0
      OBVIOUS
    <3>2. \A i \in Task : Len(stack[i]) = 0 \/ Len(stack[i]) = 1
      BY <2>1, <2>2, <3>1
    <3>3. 1 .. (0 - 1) = {} /\ 1 .. (1 - 1) = {}
      OBVIOUS
    <3>4. \A i \in Task : 1 .. (Len(stack[i]) - 1) = {}
      BY <3>2, <3>3
    <3> QED
      BY <3>4
  <2>4. \A i \in Task : \A k \in DOMAIN stack[i] : stack[i][k].at \notin Holding
    BY <1>4, <2>2 DEF Holding
  <2> QED
    BY <1>3, <2>3, <2>4, <2>5 DEF Stacks
<1>8. Handler
  BY <1>3 DEF Init, Handler, Main
<1>9. Enough /\ EndIsMine
  BY <1>1, <1>2, <1>3 DEF Enough, EndIsMine, Leaving
<1>10. Held = {}
  <2>1. \A i \in Task : stack[i] = <<>> \/ stack[i] = <<Suspended>>
    BY <1>3, <1>5
  <2>2. \A i \in Task : \A k \in DOMAIN stack[i] : stack[i][k].at \notin Holding
    BY <1>4, <2>1 DEF Holding
  <2> QED
    BY <2>2 DEF Held, Holds
<1>11. InQueue = 1 .. (N - 1)
  BY <1>2 DEF InQueue
<1>12. ListIsQueue
  <2>1. start = 1 /\ end = N - 1
    BY DEF Init
  <2>2. \A k \in 1 .. (N - 2) : next[k] = k + 1
    BY <1>1 DEF Init, Task, Main
  <2> QED
    BY <1>1, <1>2, <2>1, <2>2 DEF ListIsQueue, Last
<1>13. Distinct
  BY <1>2 DEF Distinct
<1>14. Somewhere /\ Apart /\ Ends
  BY <1>1, <1>3, <1>10, <1>11 DEF Somewhere, Apart, Ends, Leaving, Task
<1>15. OneHolder
  BY <1>10 DEF OneHolder, Held, Holds
<1> QED
  BY <1>6, <1>7, <1>8, <1>9, <1>12, <1>13, <1>14, <1>15, EachOnceParts DEF IInv

LEMMA StepInvariant ==
  ASSUME Windows \subseteq Harmless, IInv, [Next]_vars
  PROVE  IInv'
<1>1. CASE Tick
  BY <1>1, TickStep
<1>2. CASE Handle
  BY <1>2, TakeStep, AdvanceStep, SaveStep, MarkReadyStep, LinkLastStep, MoveEndStep,
     MakeCurrentStep, LoadStep, MarkRunningStep, ReturnStep DEF Handle
<1>3. CASE UNCHANGED vars
  <2>1. TypeOK' /\ Stacks' /\ Handler' /\ Enough' /\ EndIsMine'
    BY <1>3 DEF vars, list, IInv, TypeOK, Stacks, Intact, Handler, Enough, EndIsMine,
       Leaving, At, Top, Last
  <2>2. EachOnce'
    <3>1. /\ \A i, t : \A k : Holds(i, k, t)' <=> Holds(i, k, t)
          /\ Held' = Held /\ InQueue' = InQueue /\ Leaving' = Leaving
      BY <1>3 DEF vars, Holds, Held, InQueue, Leaving, At, Top, Last
    <3>2. ListIsQueue'
      BY <1>3, ListKept DEF vars
    <3> QED
      BY <1>3, <3>1, <3>2 DEF vars, IInv, EachOnce
  <2> QED
    BY <2>1, <2>2 DEF IInv
<1> QED
  BY <1>1, <1>2, <1>3 DEF Next

LEMMA InductiveInvariant ==
  ASSUME Windows \subseteq Harmless
  PROVE  Spec => []IInv
BY InitInvariant, StepInvariant, PTL DEF Spec

(* Ticks at harmless places lose no task, double none and leave the list   *)
(* as it should be, however many tasks there are and however deep handlers *)
(* nest.                                                                   *)
THEOREM NothingIsLost ==
  ASSUME Windows \subseteq Harmless
  PROVE  Spec => []EachOnce
<1>1. IInv => EachOnce
  BY DEF IInv
<1> QED
  BY <1>1, InductiveInvariant, PTL

(* And switch_to_task always finds the other task's stack as it was left.  *)
THEOREM StacksAreKept ==
  ASSUME Windows \subseteq Harmless
  PROVE  Spec => []ContextKept
<1>1. IInv => ContextKept
  <2> SUFFICES ASSUME IInv, At("current")
               PROVE  Intact(Top.task)
    BY DEF ContextKept
  <2>1. /\ Top = stack[rsp][Len(stack[rsp])] /\ Len(stack[rsp]) \in DOMAIN stack[rsp]
        /\ Top.at = "current" /\ rsp \in Task
    BY TopFrame DEF IInv, TypeOK
  <2>2. Top.task \in Task
    BY <2>1 DEF IInv, Stacks, Holding
  <2>3. Holds(rsp, Len(stack[rsp]), Top.task)
    BY <2>1 DEF Holds, Holding
  <2>4. Top.task # rsp
    BY <2>1, <2>2, <2>3 DEF IInv, EachOnce, Held
  <2> QED
    BY <2>2, <2>4 DEF IInv, Stacks
<1> QED
  BY <1>1, InductiveInvariant, PTL

LEMMA GoesTop ==
  ASSUME TypeOK, NEW p, NEW f, Goes(p, f), rsp' = rsp
  PROVE  Top' = f /\ \A q : At(q)' <=> f.at = q
<1>1. stack[rsp] \in Seq(Frame \cup {f}) /\ Len(stack[rsp]) \in Nat \ {0} /\ rsp \in Task
  BY TopFrame DEF Goes, TypeOK
<1>2. stack'[rsp] = [stack[rsp] EXCEPT ![Len(stack[rsp])] = f]
  BY <1>1 DEF Goes, Put, TypeOK
<1>3. Len(stack'[rsp]) = Len(stack[rsp]) /\ stack'[rsp][Len(stack[rsp])] = f
      /\ stack'[rsp] # <<>>
  BY <1>1, <1>2
<1>4. Top' = f
  BY <1>3 DEF Top, Last
<1> QED
  BY <1>3, <1>4 DEF At

Hold == \E p \in Holding : At(p)

(* Waiting without its IFs.                                                *)
LEMMA WaitingIs ==
  /\ ~Hold => Waiting = queue
  /\ Hold /\ ~Leaving => Waiting = <<Top.task>> \o queue
  /\ Hold /\ Leaving => Waiting = <<Top.task>> \o SubSeq(queue, 1, Len(queue) - 1)
BY DEF Waiting, Hold

LEMMA WaitingIs1 ==
  /\ ~Hold' => Waiting' = queue'
  /\ Hold' /\ ~Leaving' => Waiting' = <<Top'.task>> \o queue'
  /\ Hold' /\ Leaving' => Waiting' = <<Top'.task>> \o SubSeq(queue', 1, Len(queue') - 1)
BY DEF Waiting, Hold

(* A step at which the innermost handler neither takes nor gives up a task *)
(* leaves the abstract queue alone.                                        *)
LEMMA Stutters ==
  ASSUME IInv, NEW p, NEW f, Goes(p, f), rsp' = rsp, queue' = queue,
         \/ p \notin Holding /\ f.at \notin Holding
         \/ p \in Holding /\ f.at \in Holding /\ f.task = Top.task,
         p \in {"queued", "current"} <=> f.at \in {"queued", "current"}
  PROVE  UNCHANGED Ideal!vars
<1>1. At(p) /\ (\A q : At(q) <=> p = q)
  BY DEF Goes, At
<1>2. Top' = f /\ \A q : At(q)' <=> f.at = q
  BY GoesTop DEF IInv
<1>3. (Hold' <=> Hold) /\ (Leaving' <=> Leaving) /\ (Hold => Top'.task = Top.task)
  BY <1>1, <1>2 DEF Hold, Leaving
<1>4. Waiting' = Waiting
  BY <1>3, WaitingIs, WaitingIs1
<1> QED
  BY <1>4 DEF Ideal!vars

(* A whole handler, seen from outside, is one rotation.                    *)
LEMMA StepRotates ==
  ASSUME IInv, Next, Windows \subseteq Harmless, Orderly, Orderly'
  PROVE  Ideal!Preempt \/ UNCHANGED Ideal!vars
<1> USE DEF IInv
<1>1. CASE Take
  <2> DEFINE f == [Top EXCEPT !.at = "taken", !.task = start]
  <2>1. Goes("enter", f) /\ f.at = "taken" /\ rsp' = rsp /\ queue' = queue
    BY <1>1, HeadIsTask, TopFrame DEF Take, Goes, Frame
  <2> HIDE DEF f
  <2> QED
    BY <2>1, Stutters DEF Holding
<1>2. CASE Advance
  <2> DEFINE f == [Top EXCEPT !.at = "held"]
  <2>1. /\ Goes("taken", f) /\ At("taken") /\ Top.at = "taken" /\ f.at = "held" /\ f.task = Top.task
        /\ rsp' = rsp /\ queue' = Tail(queue)
    BY <1>2, TopFrame DEF Advance, Goes, Frame
  <2> HIDE DEF f
  <2>2. Top' = f /\ \A q : At(q)' <=> f.at = q
    BY <2>1, GoesTop
  <2>3. ~Hold /\ Hold' /\ ~Leaving'
    BY <2>1, <2>2 DEF Hold, Holding, Leaving, At
  <2>4. Waiting = queue /\ Waiting' = <<start>> \o Tail(queue)
    BY <2>1, <2>2, <2>3, WaitingIs, WaitingIs1 DEF Handler
  <2>5. <<start>> \o Tail(queue) = queue
    BY HeadIsTask DEF TypeOK
  <2> QED
    BY <2>1, <2>4, <2>5 DEF Ideal!vars
<1>3. CASE Save
  <2> DEFINE f == [Top EXCEPT !.at = "saved", !.from = currentPCB]
  <2>1. Goes("held", f) /\ f.at = "saved" /\ f.task = Top.task /\ rsp' = rsp /\ queue' = queue
    BY <1>3, TopFrame DEF Save, Goes, Frame
  <2> HIDE DEF f
  <2> QED
    BY <2>1, Stutters DEF Holding
<1>4. CASE MarkReady
  <2> DEFINE f == [Top EXCEPT !.at = "ready"]
  <2>1. At("saved") /\ Top.from \in running /\ Top \in Frame
    BY <1>4, TopFrame DEF MarkReady, Goes, Handler, Handing, Leaves, At
  <2>2. Goes("saved", f) /\ f.at = "ready" /\ f.task = Top.task /\ rsp' = rsp /\ queue' = queue
    BY <1>4, <2>1 DEF MarkReady, Frame
  <2> HIDE DEF f
  <2> QED
    BY <2>2, Stutters DEF Holding
<1>5. CASE LinkLast
  <2> DEFINE f == [Top EXCEPT !.at = "linked"]
  <2>1. Goes("ready", f) /\ f.at = "linked" /\ f.task = Top.task /\ rsp' = rsp /\ queue' = queue
    BY <1>5, TopFrame DEF LinkLast, Goes, Frame
  <2> HIDE DEF f
  <2> QED
    BY <2>1, Stutters DEF Holding
<1>6. CASE MoveEnd
  <2> DEFINE f == [Top EXCEPT !.at = "queued"]
  <2>1. /\ Goes("linked", f) /\ At("linked") /\ Top.at = "linked" /\ f.at = "queued" /\ f.task = Top.task
        /\ rsp' = rsp /\ queue' = Append(queue, Top.from)
    BY <1>6, TopFrame DEF MoveEnd, Goes, Frame
  <2> HIDE DEF f
  <2>2. Top' = f /\ \A q : At(q)' <=> f.at = q
    BY <2>1, GoesTop
  <2>3. Hold /\ ~Leaving /\ Hold' /\ Leaving'
    BY <2>1, <2>2 DEF Hold, Holding, Leaving, At
  <2>4. SubSeq(queue', 1, Len(queue') - 1) = queue
    <3>1. Top.from \in Task /\ queue \in Seq(Task)
      BY <2>1 DEF TypeOK, Handler, Leaves
    <3> QED
      BY <2>1, <3>1
  <2> QED
    BY <2>1, <2>2, <2>3, <2>4, WaitingIs, WaitingIs1 DEF Ideal!vars
<1>7. CASE MakeCurrent
  <2> DEFINE f == [Top EXCEPT !.at = "current"]
  <2>1. Goes("queued", f) /\ f.at = "current" /\ f.task = Top.task /\ rsp' = rsp /\ queue' = queue
    BY <1>7, TopFrame DEF MakeCurrent, Goes, Frame
  <2> HIDE DEF f
  <2> QED
    BY <2>1, Stutters DEF Holding
<1>8. CASE Load
  <2>1. At("current") /\ Leaving /\ Hold /\ rsp' = Top.task /\ queue' = queue /\ Top.task \in Task
    <3>1. /\ Top = stack[rsp][Len(stack[rsp])] /\ Len(stack[rsp]) \in DOMAIN stack[rsp]
          /\ Top.at = "current" /\ rsp \in Task
      BY <1>8, TopFrame DEF Load, TypeOK
    <3> QED
      BY <1>8, <3>1 DEF Load, Leaving, Hold, Holding, Stacks
  <2>2. Waiting = <<Top.task>> \o SubSeq(queue, 1, Len(queue) - 1)
    BY <2>1, WaitingIs
  <2>3. Len(queue) >= 2 /\ queue \in Seq(Task) /\ queue[Len(queue)] = rsp
    BY <2>1 DEF Enough, EndIsMine, Last, TypeOK
  <2>4. Head(Waiting) = Top.task /\ Tail(Waiting) = SubSeq(queue, 1, Len(queue) - 1) /\ Waiting # <<>>
    BY <2>1, <2>2, <2>3
  <2>5. Append(Tail(Waiting), rsp) = queue
    BY <2>3, <2>4
  <2>6. IInv'
    BY <1>8, LoadStep
  <2>7. ~Hold'
    <3> DEFINE t == Top.task
               f == [at |-> "loaded", task |-> t, from |-> Null]
    <3>2. Intact(t) /\ t \in Task /\ stack[t] \in Seq(Frame \cup {f}) /\ t # rsp
      BY <1>8, <2>1 DEF Load, TypeOK, Intact, Top, At
    <3>3. stack' = [stack EXCEPT ![rsp] = Put(@, Suspended), ![t] = Put(@, f)]
      BY <1>8 DEF Load
    <3> HIDE DEF t
    <3>4. stack'[t] = [stack[t] EXCEPT ![Len(stack[t])] = f]
      BY <3>2, <3>3 DEF Put, TypeOK
    <3>5. stack'[t] # <<>> /\ Last(stack'[t]) = f
      BY <3>2, <3>4 DEF Intact, Last
    <3>1. At("loaded")'
      BY <2>1, <3>5 DEF At, Top, t
    <3> QED
      BY <3>1 DEF Hold, Holding, At
  <2>8. Waiting' = queue
    BY <2>1, <2>7, WaitingIs1
  <2> QED
    BY <2>1, <2>4, <2>5, <2>8 DEF Ideal!Preempt
<1>9. CASE MarkRunning
  <2> DEFINE f == [Top EXCEPT !.at = "return"]
  <2>1. Goes("loaded", f) /\ f.at = "return" /\ rsp' = rsp /\ queue' = queue
    BY <1>9, TopFrame DEF MarkRunning, Goes, Frame
  <2> HIDE DEF f
  <2> QED
    BY <2>1, Stutters DEF Holding
<1>10. CASE Tick
  <2> DEFINE f == [at |-> "enter", task |-> Null, from |-> Null]
             n == Len(stack[rsp])
  <2>1. /\ stack[rsp] # <<>> => Top.at \in Harmless
        /\ stack' = [stack EXCEPT ![rsp] = Append(stack[rsp], f)]
        /\ rsp' = rsp /\ queue' = queue
        /\ rsp \in Task /\ stack[rsp] \in Seq(Frame) /\ n \in Nat /\ DOMAIN stack[rsp] = 1 .. n
    BY <1>10 DEF Tick, TypeOK
  <2>6. f \in Frame /\ f.at = "enter"
    BY DEF Frame, Point
  <2> HIDE DEF f, n
  <2>2. stack'[rsp] = Append(stack[rsp], f)
    BY <2>1 DEF TypeOK
  <2>3. /\ Len(stack'[rsp]) = n + 1 /\ DOMAIN stack'[rsp] = 1 .. (n + 1)
        /\ stack'[rsp][n + 1] = f /\ \A k \in 1 .. n : stack'[rsp][k] = stack[rsp][k]
    BY <2>1, <2>2, <2>6 DEF n
  <2>4. ~Hold
    <3> SUFFICES ASSUME Hold
                 PROVE  FALSE
      OBVIOUS
    <3>1. n \in 1 .. n /\ stack[rsp][n].at \in Holding
      BY <2>1 DEF Hold, At, Top, Last, n
    <3> QED
      BY <2>1, <2>3, <3>1 DEF Orderly
  <2>5. ~Hold'
    <3>1. Top' = f
      BY <2>1, <2>3 DEF Top, Last
    <3> QED
      BY <2>6, <3>1 DEF Hold, At, Holding
  <2> QED
    BY <2>1, <2>4, <2>5, WaitingIs, WaitingIs1 DEF Ideal!vars
<1>11. CASE Return
  <2> DEFINE n == Len(stack[rsp])
  <2>1. /\ At("return") /\ Top.at = "return" /\ stack[rsp] \in Seq(Frame) /\ n \in Nat \ {0}
        /\ DOMAIN stack[rsp] = 1 .. n /\ rsp \in Task
        /\ stack' = [stack EXCEPT ![rsp] = SubSeq(stack[rsp], 1, n - 1)]
        /\ rsp' = rsp /\ queue' = queue
    BY <1>11, TopFrame DEF Return, TypeOK
  <2> HIDE DEF n
  <2>2. stack'[rsp] = SubSeq(stack[rsp], 1, n - 1)
    BY <2>1 DEF TypeOK
  <2>3. /\ Len(stack'[rsp]) = n - 1 /\ stack'[rsp] \in Seq(Frame)
        /\ \A k \in 1 .. (n - 1) : stack'[rsp][k] = stack[rsp][k]
    BY <2>1, <2>2 DEF n
  <2>4. ~Hold
    BY <2>1 DEF Hold, At, Holding
  <2>5. ~Hold'
    <3> SUFFICES ASSUME Hold'
                 PROVE  FALSE
      OBVIOUS
    <3>1. stack'[rsp] # <<>> /\ stack'[rsp][n - 1].at \in Holding
      BY <2>1, <2>3 DEF Hold, At, Top, Last
    <3>2. n - 1 \in 1 .. (n - 1)
      BY <2>1, <2>3, <3>1
    <3>3. n - 1 \in DOMAIN stack[rsp] /\ stack[rsp][n - 1].at \in Holding
      BY <2>1, <2>3, <3>1, <3>2
    <3> QED
      BY <2>1, <3>3 DEF Orderly, n
  <2> QED
    BY <2>1, <2>4, <2>5, WaitingIs, WaitingIs1 DEF Ideal!vars
<1> QED
  BY <1>1, <1>2, <1>3, <1>4, <1>5, <1>6, <1>7, <1>8, <1>9, <1>10, <1>11 DEF Next, Handle

(* A handler interrupted at harmless places is one rotation of the queue,  *)
(* as in the abstract round robin.                                         *)
THEOREM HandlerRotates ==
  ASSUME Windows \subseteq Harmless
  PROVE  Spec => RotatesAtOnce
<1>1. IInv /\ [Next]_vars =>
        [Orderly /\ Orderly' => Ideal!Preempt \/ UNCHANGED Ideal!vars]_<<rsp, Waiting>>
  <2> SUFFICES ASSUME IInv, [Next]_vars, ~UNCHANGED <<rsp, Waiting>>, Orderly, Orderly'
               PROVE  Ideal!Preempt \/ UNCHANGED Ideal!vars
    OBVIOUS
  <2>1. CASE Next
    BY <2>1, StepRotates
  <2>2. CASE UNCHANGED vars
    BY <2>2 DEF vars, Waiting, Ideal!vars, Leaving, At, Top, Last
  <2> QED
    BY <2>1, <2>2
<1> QED
  BY <1>1, InductiveInvariant, PTL DEF Spec, RotatesAtOnce
=============================================================================
