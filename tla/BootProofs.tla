----------------------------- MODULE BootProofs -----------------------------
(***************************************************************************)
(* For every memory map, every size of the page tables and every place of  *)
(* the handlers: an interrupt that reaches the processor finds its handler *)
(* at a mapped address; interrupts that arrive before scheduler_init is    *)
(* done damage the heap only between its last two assignments; and the     *)
(* heap is the first region that is available, whichever tags the loader   *)
(* puts before it.                                                         *)
(***************************************************************************)
EXTENDS Boot, FiniteSetTheorems, TLAPS

(* start_of_ready_list is set last but one, and end_of_ready_list right    *)
(* after it, if a tick has not set it before.                              *)
Spared ==
  /\ start # Null => end = Main \/ pc = "end"
  /\ pc \notin {"end", "shell"} => start = Null /\ heap.next = Null

(* Ticks damage the heap's header at most between the two assignments that *)
(* make the ready list.                                                    *)
THEOREM HeaderDamagedOnce == Spec => DamageConfined
<1>1. Init => Spared
  <2>1. Init => heap = NoHeap /\ start = Null
    BY DEF Init
  <2>2. NoHeap.next = Null
    BY DEF NoHeap, Null
  <2> QED
    BY <2>1, <2>2 DEF Spared
<1>2. Spared /\ [Next]_vars => Spared'
  <2> SUFFICES ASSUME Spared, [Next]_vars PROVE Spared'
    OBVIOUS
  <2> USE DEF Spared, ready, memory, machinery, vectors
  <2>1. CASE Detect
    BY <2>1 DEF Detect, Then
  <2>2. CASE SetupPageTables
    BY <2>2 DEF SetupPageTables, Loop
  <2>3. CASE EnablePaging
    BY <2>3 DEF EnablePaging, Then
  <2>4. CASE EnableSSE
    BY <2>4 DEF EnableSSE, Then
  <2>5. CASE IdtSetGate
    BY <2>5 DEF IdtSetGate, Loop
  <2>6. CASE Lidt
    BY <2>6 DEF Lidt, Then
  <2>7. CASE RemapPic
    BY <2>7 DEF RemapPic, Loop
  <2>8. CASE Sti
    BY <2>8 DEF Sti, Then
  <2>9. CASE ExtractEntry
    BY <2>9 DEF ExtractEntry
  <2>10. CASE ExtractTag
    BY <2>10 DEF ExtractTag
  <2>11. CASE InitializeHeap
    <3>1. heap'.next = Null
      BY <2>11 DEF InitializeHeap, HeapOf
    <3> QED
      BY <2>11, <3>1 DEF InitializeHeap, Then
  <2>12. CASE SetNext
    BY <2>12 DEF SetNext, Then
  <2>13. CASE SetCurrent
    BY <2>13 DEF SetCurrent, Then
  <2>14. CASE SetStart
    BY <2>14 DEF SetStart, Then
  <2>15. CASE SetEnd
    BY <2>15 DEF SetEnd, Then
  <2>16. CASE \E n \in Lines : Interrupt(n)
    <3>1. Main # Null
      BY DEF Main, Null
    <3>2. pc' = pc
      BY <2>16 DEF Interrupt
    <3>3. CASE UNCHANGED <<start, next, heap, end>>
      BY <3>2, <3>3
    <3>4. CASE start # Null /\ Linked
      BY <3>1, <3>2, <3>4 DEF Linked
    <3> QED
      BY <2>16, <3>3, <3>4 DEF Interrupt, Schedule
  <2>17. CASE \E n \in Lines : Raise(n)
    BY <2>17 DEF Raise
  <2>18. CASE UNCHANGED vars
    BY <2>18 DEF vars
  <2> QED
    BY <2>1, <2>2, <2>3, <2>4, <2>5, <2>6, <2>7, <2>8, <2>9, <2>10, <2>11, <2>12,
       <2>13, <2>14, <2>15, <2>16, <2>17, <2>18 DEF Next, Step
<1>3. Spared /\ [Next]_vars => [heap'.next # heap.next => pc = "end" /\ heap.addr = 1]_vars
  <2> SUFFICES ASSUME Spared, [Next]_vars, heap'.next # heap.next
               PROVE  pc = "end" /\ heap.addr = 1
    OBVIOUS
  <2>1. heap' # heap
    OBVIOUS
  <2>2. CASE InitializeHeap
    <3>1. heap'.next = Null /\ pc = "extract"
      BY <2>2 DEF InitializeHeap, HeapOf, Then
    <3> QED
      BY <3>1 DEF Spared
  <2>3. CASE \E n \in Lines : Interrupt(n)
    <3>1. start # Null /\ Linked
      BY <2>1, <2>3 DEF Interrupt, Schedule
    <3>2. end = Null /\ heap.addr = 1
      BY <2>1, <3>1 DEF Linked
    <3> QED
      BY <3>1, <3>2 DEF Spared, Main, Null
  <2>4. Step => InitializeHeap
    <3>1. ~ Detect /\ ~ SetupPageTables /\ ~ EnablePaging /\ ~ EnableSSE
      BY <2>1 DEF Detect, SetupPageTables, EnablePaging, EnableSSE, memory
    <3>2. ~ IdtSetGate /\ ~ Lidt /\ ~ RemapPic /\ ~ Sti
      BY <2>1 DEF IdtSetGate, Lidt, RemapPic, Sti, memory
    <3>3. ~ ExtractEntry /\ ~ ExtractTag
      BY <2>1 DEF ExtractEntry, ExtractTag
    <3>4. ~ SetNext /\ ~ SetCurrent /\ ~ SetStart /\ ~ SetEnd
      BY <2>1 DEF SetNext, SetCurrent, SetStart, SetEnd, memory
    <3> QED
      BY <3>1, <3>2, <3>3, <3>4 DEF Step
  <2> QED
    BY <2>1, <2>2, <2>3, <2>4 DEF Next, Raise, vars, memory
<1> QED
  BY <1>1, <1>2, <1>3, PTL DEF Spec, DamageConfined
-------------------------------------------------------------------------------
LEMMA Detected ==
  ASSUME Detect
  PROVE  pc = "detect" /\ pc' \in {"tables", "halted"} /\ i' = 0
BY DEF Detect, Then

LEMMA FourGates ==
  /\ Len(Gates) = 4
  /\ Gates[1] = <<"page_fault", 14>> /\ Gates[2] = <<"zero_division", 0>>
  /\ Gates[3] = <<"key_board", 33>> /\ Gates[4] = <<"PIT_tick", 32>>
BY DEF Gates

LEMMA SixBytes == Len(Bytes[1]) = 6 /\ Len(Bytes[2]) = 6
BY DEF Bytes

(* What has been done when the program is where it is.                     *)
Late == {"extract", "next", "currentPCB", "start", "end", "shell"}
AfterRemap == {"sti"} \cup Late
AfterLidt == {"remap"} \cup AfterRemap
AfterGates == {"lidt"} \cup AfterLidt
AfterSSE == {"gates"} \cup AfterGates
AfterPaging == {"sse"} \cup AfterSSE
AfterTables == {"paging"} \cup AfterPaging
AfterDetect == {"tables"} \cup AfterTables

Places ==
  /\ pc \in {"detect", "halted"} \cup AfterDetect
  /\ machine \in Machines
  /\ pc \in AfterDetect => machine.longmode
  /\ interrupts => pc \in Late

Tables ==
  /\ l2 \in Seq(Nat)
  /\ \A k \in 1 .. Len(l2) : l2[k] = PageSize * (k - 1)
  /\ pc = "detect" => Len(l2) = 0
  /\ pc = "tables" => i = Len(l2) /\ i < Entries
  /\ pc \in AfterTables => Len(l2) = Entries
  /\ pc \in AfterPaging => paging
  /\ pc \in AfterSSE => sse

GateSet(v, h) == v \in DOMAIN idt /\ idt[v] = SetOffset(Address[h])

Vectors ==
  /\ pc = "gates" => i \in 0 .. 3
  /\ (pc = "gates" /\ i > 2) \/ pc \in AfterGates => GateSet(33, "key_board")
  /\ pc \in AfterGates => GateSet(32, "PIT_tick")
  /\ pc \in AfterLidt => idtr = 4095

(* Controller c has been given k bytes.                                    *)
Given(ps, c, k) ==
  /\ ps[c].init = IF k < 4 THEN k ELSE 0
  /\ k >= 2 => ps[c].offset = IF c = 1 THEN 32 ELSE 40
  /\ k >= 6 => ps[c].mask = IF c = 1 THEN 2 .. 7 ELSE 0 .. 7

Controller == [init : 0 .. 3, offset : Nat, mask : SUBSET Nat, service : SUBSET Nat]

Controllers ==
  /\ pics \in [1 .. 2 -> Controller]
  /\ saved[1] \in SUBSET Nat /\ saved[2] \in SUBSET Nat
  /\ pc \notin {"remap"} \cup AfterRemap => Given(pics, 1, 0) /\ Given(pics, 2, 0)
  /\ pc = "remap" => /\ i \in 0 .. 11
                     /\ Given(pics, 1, (i + 1) \div 2)
                     /\ Given(pics, 2, i \div 2)
  /\ pc \in AfterRemap => Given(pics, 1, 6) /\ Given(pics, 2, 6)

BInv == Places /\ Tables /\ Vectors /\ Controllers

USE DEF AfterDetect, AfterTables, AfterPaging, AfterSSE, AfterGates, AfterLidt, AfterRemap, Late

(* The processor puts the offset of a gate together as set_offset took it  *)
(* apart.                                                                  *)
LEMMA OffsetWhole == \A a \in Nat : TargetOf(SetOffset(a)) = a
BY DEF TargetOf, SetOffset

LEMMA PlacesKept == ASSUME BInv, [Next]_vars PROVE Places'
<1> USE DEF BInv, Places
<1>1. CASE Detect
  BY <1>1 DEF Detect, Then, machinery, vectors, memory, ready
<1>2. CASE SetupPageTables
  BY <1>2 DEF SetupPageTables, Loop, machinery, vectors, memory, ready
<1>3. CASE EnablePaging
  BY <1>3 DEF EnablePaging, Then, machinery, vectors, memory, ready
<1>4. CASE EnableSSE
  BY <1>4 DEF EnableSSE, Then, machinery, vectors, memory, ready
<1>5. CASE IdtSetGate
  BY <1>5 DEF IdtSetGate, Loop, machinery, vectors, memory, ready
<1>6. CASE Lidt
  BY <1>6 DEF Lidt, Then, machinery, vectors, memory, ready
<1>7. CASE RemapPic
  BY <1>7 DEF RemapPic, Loop, machinery, vectors, memory, ready
<1>8. CASE Sti
  BY <1>8 DEF Sti, Then, machinery, vectors, memory, ready
<1>9. CASE ExtractEntry
  BY <1>9 DEF ExtractEntry, machinery, vectors, memory, ready
<1>10. CASE ExtractTag
  BY <1>10 DEF ExtractTag, machinery, vectors, memory, ready
<1>11. CASE InitializeHeap
  BY <1>11 DEF InitializeHeap, Then, machinery, vectors, memory, ready
<1>12. CASE SetNext
  BY <1>12 DEF SetNext, Then, machinery, vectors, memory, ready
<1>13. CASE SetCurrent
  BY <1>13 DEF SetCurrent, Then, machinery, vectors, memory, ready
<1>14. CASE SetStart
  BY <1>14 DEF SetStart, Then, machinery, vectors, memory, ready
<1>15. CASE SetEnd
  BY <1>15 DEF SetEnd, Then, machinery, vectors, memory, ready
<1>16. CASE \E n \in Lines : Interrupt(n)
  BY <1>16 DEF Interrupt, machinery, vectors, memory, ready
<1>17. CASE \E n \in Lines : Raise(n)
  BY <1>17 DEF Raise, machinery, vectors, memory, ready
<1>18. CASE UNCHANGED vars
  BY <1>18 DEF vars, machinery, vectors, memory, ready
<1> QED
  BY <1>1, <1>2, <1>3, <1>4, <1>5, <1>6, <1>7, <1>8, <1>9, <1>10, <1>11,
     <1>12, <1>13, <1>14, <1>15, <1>16, <1>17, <1>18 DEF Next, Step

LEMMA Product == ASSUME NEW m \in Nat, NEW n \in Nat PROVE m * n \in Nat
OBVIOUS

LEMMA TablesKept == ASSUME BInv, [Next]_vars PROVE Tables'
<1> USE BootAssumption DEF BInv, Places, Tables
<1>1. CASE Detect
  <2>1. pc' \in {"tables", "halted"} /\ i' = 0 /\ l2' = l2 /\ pc = "detect"
    BY <1>1, Detected DEF Detect
  <2> QED
    BY <2>1
<1>2. CASE SetupPageTables
  <2>1. pc = "tables" /\ i = Len(l2) /\ i \in Nat
    BY <1>2 DEF SetupPageTables, Loop
  <2>2. PageSize * i \in Nat
    BY <2>1, Product
  <2>3. l2' = Append(l2, PageSize * i)
    BY <1>2 DEF SetupPageTables, TableEntry
  <2>4. l2' = Append(l2, PageSize * Len(l2)) /\ PageSize * Len(l2) \in Nat
    BY <2>2, <2>1, <2>3
  <2>5. l2' \in Seq(Nat) /\ Len(l2') = Len(l2) + 1
    BY <2>4
  <2>6. \A k \in 1 .. Len(l2') : l2'[k] = PageSize * (k - 1)
    <3> SUFFICES ASSUME NEW k \in 1 .. (Len(l2) + 1) PROVE l2'[k] = PageSize * (k - 1)
      BY <2>5
    <3>1. CASE k <= Len(l2)
      BY <2>4, <3>1
    <3>2. CASE k = Len(l2) + 1
      <4>1. l2'[k] = PageSize * Len(l2) /\ k - 1 = Len(l2)
        BY <2>4, <3>2
      <4> QED
        BY <4>1
    <3> QED
      BY <3>1, <3>2
  <2>7. IF i + 1 < Entries THEN pc' = "tables" /\ i' = i + 1 ELSE pc' = "paging" /\ i' = 0
    BY <1>2 DEF SetupPageTables, Loop
  <2>8. CASE i + 1 < Entries
    BY <2>5, <2>6, <2>7, <2>1, <2>8
  <2>9. CASE ~(i + 1 < Entries)
    BY <2>5, <2>6, <2>7, <2>1, <2>9
  <2> QED
    BY <2>8, <2>9
<1>3. CASE EnablePaging
  BY <1>3 DEF EnablePaging, Then, machinery, vectors, memory, ready
<1>4. CASE EnableSSE
  BY <1>4 DEF EnableSSE, Then, machinery, vectors, memory, ready
<1>5. CASE IdtSetGate
  BY <1>5 DEF IdtSetGate, Loop, machinery, vectors, memory, ready
<1>6. CASE Lidt
  BY <1>6 DEF Lidt, Then, machinery, vectors, memory, ready
<1>7. CASE RemapPic
  BY <1>7 DEF RemapPic, Loop, machinery, vectors, memory, ready
<1>8. CASE Sti
  BY <1>8 DEF Sti, Then, machinery, vectors, memory, ready
<1>9. CASE ExtractEntry
  BY <1>9 DEF ExtractEntry, machinery, vectors, memory, ready
<1>10. CASE ExtractTag
  BY <1>10 DEF ExtractTag, machinery, vectors, memory, ready
<1>11. CASE InitializeHeap
  BY <1>11 DEF InitializeHeap, Then, machinery, vectors, memory, ready
<1>12. CASE SetNext
  BY <1>12 DEF SetNext, Then, machinery, vectors, memory, ready
<1>13. CASE SetCurrent
  BY <1>13 DEF SetCurrent, Then, machinery, vectors, memory, ready
<1>14. CASE SetStart
  BY <1>14 DEF SetStart, Then, machinery, vectors, memory, ready
<1>15. CASE SetEnd
  BY <1>15 DEF SetEnd, Then, machinery, vectors, memory, ready
<1>16. CASE \E n \in Lines : Interrupt(n)
  BY <1>16 DEF Interrupt, machinery, vectors, memory, ready
<1>17. CASE \E n \in Lines : Raise(n)
  BY <1>17 DEF Raise, machinery, vectors, memory, ready
<1>18. CASE UNCHANGED vars
  BY <1>18 DEF vars, machinery, vectors, memory, ready
<1> QED
  BY <1>1, <1>2, <1>3, <1>4, <1>5, <1>6, <1>7, <1>8, <1>9, <1>10, <1>11,
     <1>12, <1>13, <1>14, <1>15, <1>16, <1>17, <1>18 DEF Next, Step

LEMMA VectorsKept == ASSUME BInv, [Next]_vars PROVE Vectors'
<1> USE DEF BInv, Places, Vectors
<1>1. CASE Detect
  <2>1. pc' \in {"tables", "halted"}
    BY <1>1, Detected
  <2> QED
    BY <2>1
<1>2. CASE SetupPageTables
  BY <1>2 DEF SetupPageTables, Loop, machinery, vectors, memory, ready, GateSet
<1>3. CASE EnablePaging
  BY <1>3 DEF EnablePaging, Then, machinery, vectors, memory, ready, GateSet
<1>4. CASE EnableSSE
  BY <1>4 DEF EnableSSE, Then, machinery, vectors, memory, ready, GateSet
<1>5. CASE IdtSetGate
  <2>1. pc = "gates" /\ i \in 0 .. 3
    BY <1>5 DEF IdtSetGate, Loop
  <2>2. IF i + 1 < 4 THEN pc' = "gates" /\ i' = i + 1 ELSE pc' = "lidt" /\ i' = 0
    BY <1>5, FourGates DEF IdtSetGate, Loop
  <2>3. idt' = [v \in DOMAIN idt \cup {Gates[i + 1][2]} |->
                  IF v = Gates[i + 1][2] THEN SetOffset(Address[Gates[i + 1][1]]) ELSE idt[v]]
    BY <1>5 DEF IdtSetGate
  <2>4. CASE i = 0 \/ i = 1
    BY <2>1, <2>2, <2>4
  <2>5. CASE i = 2
    BY <2>1, <2>2, <2>3, <2>5, FourGates DEF GateSet
  <2>6. CASE i = 3
    <3>1. GateSet(32, "PIT_tick")'
      BY <2>3, <2>6, FourGates DEF GateSet
    <3>2. GateSet(33, "key_board")'
      BY <2>1, <2>3, <2>6, FourGates DEF GateSet
    <3> QED
      BY <2>2, <2>6, <3>1, <3>2
  <2> QED
    BY <2>1, <2>4, <2>5, <2>6
<1>6. CASE Lidt
  BY <1>6 DEF Lidt, Then, machinery, vectors, memory, ready, GateSet
<1>7. CASE RemapPic
  BY <1>7 DEF RemapPic, Loop, machinery, vectors, memory, ready, GateSet
<1>8. CASE Sti
  BY <1>8 DEF Sti, Then, machinery, vectors, memory, ready, GateSet
<1>9. CASE ExtractEntry
  BY <1>9 DEF ExtractEntry, machinery, vectors, memory, ready, GateSet
<1>10. CASE ExtractTag
  BY <1>10 DEF ExtractTag, machinery, vectors, memory, ready, GateSet
<1>11. CASE InitializeHeap
  BY <1>11 DEF InitializeHeap, Then, machinery, vectors, memory, ready, GateSet
<1>12. CASE SetNext
  BY <1>12 DEF SetNext, Then, machinery, vectors, memory, ready, GateSet
<1>13. CASE SetCurrent
  BY <1>13 DEF SetCurrent, Then, machinery, vectors, memory, ready, GateSet
<1>14. CASE SetStart
  BY <1>14 DEF SetStart, Then, machinery, vectors, memory, ready, GateSet
<1>15. CASE SetEnd
  BY <1>15 DEF SetEnd, Then, machinery, vectors, memory, ready, GateSet
<1>16. CASE \E n \in Lines : Interrupt(n)
  BY <1>16 DEF Interrupt, machinery, vectors, memory, ready, GateSet
<1>17. CASE \E n \in Lines : Raise(n)
  BY <1>17 DEF Raise, machinery, vectors, memory, ready, GateSet
<1>18. CASE UNCHANGED vars
  BY <1>18 DEF vars, machinery, vectors, memory, ready, GateSet
<1> QED
  BY <1>1, <1>2, <1>3, <1>4, <1>5, <1>6, <1>7, <1>8, <1>9, <1>10, <1>11,
     <1>12, <1>13, <1>14, <1>15, <1>16, <1>17, <1>18 DEF Next, Step

LEMMA FieldSet ==
  ASSUME NEW ch \in Controller
  PROVE  /\ \A v \in 0 .. 3 : [ch EXCEPT !.init = v] \in Controller
         /\ \A v \in Nat : [ch EXCEPT !.offset = v] \in Controller
         /\ \A v \in SUBSET Nat : [ch EXCEPT !.mask = v] \in Controller
         /\ \A v \in SUBSET Nat : [ch EXCEPT !.service = v] \in Controller
BY DEF Controller

LEMMA Restarted ==
  ASSUME NEW ch \in Controller
  PROVE  [ch EXCEPT !.init = 1, !.mask = {}, !.service = {}] \in Controller
<1> DEFINE a == [ch EXCEPT !.init = 1]
           b == [a EXCEPT !.mask = {}]
           c == [b EXCEPT !.service = {}]
<1>1. a \in Controller
  BY DEF Controller
<1>2. b \in Controller
  <2> HIDE DEF a
  <2> QED
    BY <1>1, FieldSet
<1>3. c \in Controller
  <2> HIDE DEF b
  <2> QED
    BY <1>2, FieldSet
<1>4. c = [ch EXCEPT !.init = 1, !.mask = {}, !.service = {}]
  BY DEF Controller
<1> QED
  BY <1>3, <1>4

LEMMA Moved ==
  ASSUME NEW ch \in Controller, NEW v \in Nat
  PROVE  [ch EXCEPT !.init = 2, !.offset = v] \in Controller
<1> DEFINE a == [ch EXCEPT !.init = 2]
           b == [a EXCEPT !.offset = v]
<1>1. a \in Controller
  BY DEF Controller
<1>2. b \in Controller
  <2> HIDE DEF a
  <2> QED
    BY <1>1, FieldSet
<1>3. b = [ch EXCEPT !.init = 2, !.offset = v]
  BY DEF Controller
<1> QED
  BY <1>2, <1>3

(* The k-th byte takes a controller one step further.                      *)
LEMMA ByteWritten ==
  ASSUME pics \in [1 .. 2 -> Controller], NEW c \in 1 .. 2, NEW k \in 1 .. 6,
         saved[1] \in SUBSET Nat, saved[2] \in SUBSET Nat,
         NEW ps, ps = IF k = 1 THEN Command(pics, c, Bytes[c][k]) ELSE Data(pics, c, Bytes[c][k]),
         Given(pics, c, k - 1)
  PROVE  ps \in [1 .. 2 -> Controller] /\ Given(ps, c, k) /\ ps[3 - c] = pics[3 - c]
<1> DEFINE b == Bytes[c][k]
<1>1. /\ k = 1 => b = 17
      /\ k = 2 => b = IF c = 1 THEN 32 ELSE 40
      /\ k = 5 => b \in SUBSET Nat
      /\ k = 6 => b = IF c = 1 THEN 2 .. 7 ELSE 0 .. 7
  <2>1. CASE c = 1
    BY <2>1 DEF Bytes
  <2>2. CASE c = 2
    BY <2>2 DEF Bytes
  <2> QED
    BY <2>1, <2>2
<1>2. pics[c] \in Controller /\ pics[c].init = IF k <= 4 THEN k - 1 ELSE 0
  BY DEF Given
<1>3. \A new \in Controller : ps = [pics EXCEPT ![c] = new] =>
        ps \in [1 .. 2 -> Controller] /\ ps[c] = new /\ ps[3 - c] = pics[3 - c]
  OBVIOUS
<1> HIDE DEF b
<1>4. CASE k = 1
  <2> DEFINE new == [pics[c] EXCEPT !.init = 1, !.mask = {}, !.service = {}]
  <2>1. ps = [pics EXCEPT ![c] = new]
    <3>1. ps = Command(pics, c, 17)
      BY <1>1, <1>4 DEF b
    <3> QED
      BY <3>1 DEF Command
  <2>2. new \in Controller
    BY <1>2, Restarted
  <2>3. Given(ps, c, 1)
    <3>1. ps[c] = new
      BY <1>3, <2>1, <2>2
    <3>2. new.init = 1
      BY <1>2 DEF Controller
    <3> HIDE DEF new
    <3> QED
      BY <3>1, <3>2 DEF Given
  <2> QED
    BY <1>3, <1>4, <2>1, <2>2, <2>3
<1>5. CASE k = 2
  <2> DEFINE new == [pics[c] EXCEPT !.init = 2, !.offset = b]
  <2>1. ps = [pics EXCEPT ![c] = new]
    BY <1>1, <1>2, <1>5 DEF Data, b
  <2>2. new \in Controller
    <3>1. b \in Nat
      BY <1>1, <1>5
    <3> QED
      BY <1>2, <3>1, Moved
  <2>3. Given(ps, c, 2)
    <3>1. ps[c] = new
      BY <1>3, <2>1, <2>2
    <3>2. new.init = 2 /\ new.offset = IF c = 1 THEN 32 ELSE 40
      BY <1>1, <1>2, <1>5 DEF Controller
    <3> HIDE DEF new
    <3> QED
      BY <3>1, <3>2 DEF Given
  <2> QED
    BY <1>3, <1>5, <2>1, <2>2, <2>3
<1>6. CASE k = 3
  <2> DEFINE new == [pics[c] EXCEPT !.init = 3]
  <2>1. ps = [pics EXCEPT ![c] = new]
    BY <1>1, <1>2, <1>6 DEF Data, b
  <2>2. new \in Controller
    BY <1>1, <1>2, <1>6 DEF Controller
  <2>3. Given(ps, c, 3)
    <3>1. ps[c] = new
      BY <1>3, <2>1, <2>2
    <3> QED
      BY <1>1, <1>2, <1>6, <3>1 DEF Given, Controller
  <2> QED
    BY <1>3, <1>6, <2>1, <2>2, <2>3
<1>7. CASE k = 4
  <2> DEFINE new == [pics[c] EXCEPT !.init = 0]
  <2>1. ps = [pics EXCEPT ![c] = new]
    BY <1>1, <1>2, <1>7 DEF Data, b
  <2>2. new \in Controller
    BY <1>1, <1>2, <1>7 DEF Controller
  <2>3. Given(ps, c, 4)
    <3>1. ps[c] = new
      BY <1>3, <2>1, <2>2
    <3> QED
      BY <1>1, <1>2, <1>7, <3>1 DEF Given, Controller
  <2> QED
    BY <1>3, <1>7, <2>1, <2>2, <2>3
<1>8. CASE k = 5
  <2> DEFINE new == [pics[c] EXCEPT !.mask = b]
  <2>1. ps = [pics EXCEPT ![c] = new]
    BY <1>1, <1>2, <1>8 DEF Data, b
  <2>2. new \in Controller
    BY <1>1, <1>2, <1>8 DEF Controller
  <2>3. Given(ps, c, 5)
    <3>1. ps[c] = new
      BY <1>3, <2>1, <2>2
    <3> QED
      BY <1>1, <1>2, <1>8, <3>1 DEF Given, Controller
  <2> QED
    BY <1>3, <1>8, <2>1, <2>2, <2>3
<1>9. CASE k = 6
  <2> DEFINE new == [pics[c] EXCEPT !.mask = b]
  <2>1. ps = [pics EXCEPT ![c] = new]
    BY <1>1, <1>2, <1>9 DEF Data, b
  <2>2. new \in Controller
    BY <1>1, <1>2, <1>9 DEF Controller
  <2>3. Given(ps, c, 6)
    <3>1. ps[c] = new
      BY <1>3, <2>1, <2>2
    <3> QED
      BY <1>1, <1>2, <1>9, <3>1 DEF Given, Controller
  <2> QED
    BY <1>3, <1>9, <2>1, <2>2, <2>3
<1> QED
  BY <1>4, <1>5, <1>6, <1>7, <1>8, <1>9

LEMMA ControllersKept == ASSUME BInv, [Next]_vars PROVE Controllers'
<1> USE DEF BInv, Places, Controllers
<1>1. CASE Detect
  <2>1. pc' \in {"tables", "halted"} /\ pc = "detect" /\ pics' = pics /\ saved' = saved
    BY <1>1, Detected DEF Detect, vectors
  <2> QED
    BY <2>1 DEF Given
<1>2. CASE SetupPageTables
  BY <1>2 DEF SetupPageTables, Loop, machinery, vectors, memory, ready, Given
<1>3. CASE EnablePaging
  BY <1>3 DEF EnablePaging, Then, machinery, vectors, memory, ready, Given
<1>4. CASE EnableSSE
  BY <1>4 DEF EnableSSE, Then, machinery, vectors, memory, ready, Given
<1>5. CASE IdtSetGate
  BY <1>5 DEF IdtSetGate, Loop, machinery, vectors, memory, ready, Given
<1>6. CASE Lidt
  <2>1. pc = "lidt" /\ pc' = "remap" /\ i' = 0 /\ pics' = pics /\ saved' = <<pics[1].mask, pics[2].mask>>
    BY <1>6 DEF Lidt, Then
  <2>2. saved'[1] \in SUBSET Nat /\ saved'[2] \in SUBSET Nat
    BY <2>1 DEF Controller
  <2> QED
    BY <2>1, <2>2 DEF Given
<1>7. CASE RemapPic
  <2> DEFINE c == (i % 2) + 1
             k == (i \div 2) + 1
  <2>1. pc = "remap" /\ i \in 0 .. 11 /\ saved' = saved
    BY <1>7 DEF RemapPic, Loop
  <2>2. c \in 1 .. 2 /\ k \in 1 .. 6
    BY <2>1
  <2>3. IF i + 1 < 12 THEN pc' = "remap" /\ i' = i + 1 ELSE pc' = "sti" /\ i' = 0
    <3>1. Len(Bytes[c]) = 6
      BY <2>2, SixBytes
    <3> HIDE DEF c
    <3> QED
      BY <1>7, <3>1 DEF RemapPic, Loop, c
  <2>4. pics' = IF k = 1 THEN Command(pics, c, Bytes[c][k]) ELSE Data(pics, c, Bytes[c][k])
    BY <1>7 DEF RemapPic
  <2>5. Given(pics, c, k - 1)
    <3>1. Given(pics, 1, (i + 1) \div 2) /\ Given(pics, 2, i \div 2)
      BY <2>1
    <3>2. (c = 1 /\ k - 1 = (i + 1) \div 2) \/ (c = 2 /\ k - 1 = i \div 2)
      BY <2>1
    <3> QED
      BY <3>1, <3>2
  <2>6. pics' \in [1 .. 2 -> Controller] /\ Given(pics', c, k) /\ pics'[3 - c] = pics[3 - c]
    <3> HIDE DEF c, k
    <3> QED
      BY <2>2, <2>4, <2>5, ByteWritten
  <2>7. Given(pics', 1, (i + 2) \div 2) /\ Given(pics', 2, (i + 1) \div 2)
    <3>1. CASE i % 2 = 0
      <4>1. c = 1 /\ k = (i + 2) \div 2 /\ i \div 2 = (i + 1) \div 2 /\ 3 - c = 2
        BY <2>1, <3>1
      <4>2. Given(pics, 2, (i + 1) \div 2)
        BY <2>1, <4>1
      <4> QED
        BY <2>6, <4>1, <4>2 DEF Given
    <3>2. CASE i % 2 = 1
      <4>1. c = 2 /\ k = (i + 1) \div 2 /\ (i + 1) \div 2 = (i + 2) \div 2 /\ 3 - c = 1
        BY <2>1, <3>2
      <4>2. Given(pics, 1, (i + 2) \div 2)
        BY <2>1, <4>1
      <4> QED
        BY <2>6, <4>1, <4>2 DEF Given
    <3> QED
      BY <2>1, <3>1, <3>2
  <2>8. CASE i + 1 < 12
    BY <2>1, <2>3, <2>6, <2>7, <2>8 DEF Given
  <2>9. CASE i = 11
    BY <2>1, <2>3, <2>6, <2>7, <2>9 DEF Given
  <2> QED
    BY <2>1, <2>8, <2>9
<1>8. CASE Sti
  BY <1>8 DEF Sti, Then, machinery, vectors, memory, ready, Given
<1>9. CASE ExtractEntry
  BY <1>9 DEF ExtractEntry, machinery, vectors, memory, ready, Given
<1>10. CASE ExtractTag
  BY <1>10 DEF ExtractTag, machinery, vectors, memory, ready, Given
<1>11. CASE InitializeHeap
  BY <1>11 DEF InitializeHeap, Then, machinery, vectors, memory, ready, Given
<1>12. CASE SetNext
  BY <1>12 DEF SetNext, Then, machinery, vectors, memory, ready, Given
<1>13. CASE SetCurrent
  BY <1>13 DEF SetCurrent, Then, machinery, vectors, memory, ready, Given
<1>14. CASE SetStart
  BY <1>14 DEF SetStart, Then, machinery, vectors, memory, ready, Given
<1>15. CASE SetEnd
  BY <1>15 DEF SetEnd, Then, machinery, vectors, memory, ready, Given
<1>16. CASE \E n \in Lines : Interrupt(n)
  <2> PICK n \in Lines : Interrupt(n)
    BY <1>16
  <2> DEFINE served == [pics EXCEPT ![1].service = @ \cup {Rank(n)}]
  <2>1. pc \in Late /\ pc' = pc /\ saved' = saved /\ pics' = Ended(served)
    BY DEF Interrupt, Reaches
  <2>2. pics[1] \in Controller /\ Rank(n) \in Nat
    BY DEF Rank, Lines
  <2>3. [pics[1] EXCEPT !.service = @ \cup {Rank(n)}] \in Controller
    BY <2>2 DEF Controller
  <2>4. /\ served \in [1 .. 2 -> Controller] /\ served[2] = pics[2]
        /\ served[1] = [pics[1] EXCEPT !.service = @ \cup {Rank(n)}]
    BY <2>3
  <2>5. served[1].init = pics[1].init /\ served[1].offset = pics[1].offset /\ served[1].mask = pics[1].mask
    BY <2>2, <2>4 DEF Controller
  <2> HIDE DEF served
  <2> DEFINE left == Rest(served[1].service)
  <2>6. pics' = [served EXCEPT ![1] = [served[1] EXCEPT !.service = left]]
    BY <2>1 DEF Ended, Command
  <2>7. served[1] \in Controller /\ left \in SUBSET Nat
    BY <2>4 DEF Controller, Rest
  <2> HIDE DEF left
  <2> DEFINE new == [served[1] EXCEPT !.service = left]
  <2>8. new \in Controller /\ new.init = pics[1].init /\ new.offset = pics[1].offset /\ new.mask = pics[1].mask
    BY <2>5, <2>7 DEF Controller
  <2>9. pics'[1] = new /\ pics'[2] = pics[2] /\ pics' \in [1 .. 2 -> Controller]
    BY <2>4, <2>6, <2>8
  <2> HIDE DEF new
  <2>10. Given(pics, 1, 6) /\ Given(pics, 2, 6)
    BY <2>1
  <2>11. Given(pics', 1, 6) /\ Given(pics', 2, 6)
    BY <2>8, <2>9, <2>10 DEF Given
  <2> QED
    BY <2>1, <2>9, <2>11
<1>17. CASE \E n \in Lines : Raise(n)
  BY <1>17 DEF Raise, machinery, vectors, memory, ready, Given
<1>18. CASE UNCHANGED vars
  BY <1>18 DEF vars, machinery, vectors, memory, ready, Given
<1> QED
  BY <1>1, <1>2, <1>3, <1>4, <1>5, <1>6, <1>7, <1>8, <1>9, <1>10, <1>11,
     <1>12, <1>13, <1>14, <1>15, <1>16, <1>17, <1>18 DEF Next, Step

LEMMA BInvInit == Init => BInv
<1> SUFFICES ASSUME Init PROVE BInv
  OBVIOUS
<1>1. Places
  BY DEF Init, Places
<1>2. Tables
  <2>1. l2 = <<>> /\ pc = "detect"
    BY DEF Init
  <2> QED
    BY <2>1 DEF Tables
<1>3. Vectors
  <2>1. pc = "detect"
    BY DEF Init
  <2> QED
    BY <2>1 DEF Vectors
<1>4. Controllers
  <2>1. pics = Firmware /\ saved = <<{}, {}>> /\ pc = "detect"
    BY DEF Init
  <2>2. Firmware \in [1 .. 2 -> Controller] /\ Firmware[1].init = 0 /\ Firmware[2].init = 0
    BY DEF Firmware, Controller
  <2> QED
    BY <2>1, <2>2 DEF Controllers, Given
<1> QED
  BY <1>1, <1>2, <1>3, <1>4 DEF BInv

LEMMA BInvKept == BInv /\ [Next]_vars => BInv'
BY PlacesKept, TablesKept, VectorsKept, ControllersKept DEF BInv

LEMMA Quotient ==
  ASSUME NEW a \in Nat, NEW p \in Nat \ {0}
  PROVE  a \div p \in Nat /\ a % p \in Nat /\ a = p * (a \div p) + (a % p)
OBVIOUS

LEMMA QuotientBelow ==
  ASSUME NEW q \in Nat, NEW r \in Nat, NEW p \in Nat \ {0}, NEW e \in Nat, p * q + r < e * p
  PROVE  q < e
OBVIOUS

(* With its pages of PageSize bytes the table maps every address to itself. *)
LEMMA Identity ==
  ASSUME BInv, interrupts, NEW a \in 0 .. (Entries * PageSize - 1)
  PROVE  Translate(a) = a
<1> USE BootAssumption DEF BInv, Places, Tables
<1>1. paging /\ Len(l2) = Entries
  OBVIOUS
<1> DEFINE q == a \div PageSize
           r == a % PageSize
<1>2. q \in Nat /\ r \in Nat /\ a = PageSize * q + r
  <2>1. a \in Nat /\ PageSize \in Nat \ {0}
    OBVIOUS
  <2> QED
    BY ONLY <2>1, Quotient
<1>3. q < Entries
  <2>1. PageSize * q + r < Entries * PageSize
    BY <1>2
  <2> HIDE DEF q, r
  <2> QED
    BY <1>2, <2>1, QuotientBelow
<1>4. l2[q + 1] = PageSize * q
  <2>1. q + 1 \in 1 .. Len(l2) /\ (q + 1) - 1 = q
    BY <1>1, <1>2, <1>3
  <2> HIDE DEF q
  <2> QED
    BY <2>1
<1> QED
  BY <1>1, <1>2, <1>3, <1>4 DEF Translate

LEMMA BInvVectored == BInv => Vectored
<1> SUFFICES ASSUME BInv, NEW n \in Lines, Reaches(n)
             PROVE  /\ n \in {Timer, Keyboard}
                    /\ Vector(n) \in DOMAIN idt /\ 16 * Vector(n) + 15 <= idtr
                    /\ TargetOf(idt[Vector(n)]) = Address[IF n = Timer THEN "PIT_tick" ELSE "key_board"]
                    /\ Translate(TargetOf(idt[Vector(n)])) = TargetOf(idt[Vector(n)])
                    /\ sse
  BY DEF Vectored
<1>1. interrupts /\ pc \in Late
  BY DEF Reaches, BInv, Places
<1>2. Given(pics, 1, 6) /\ Given(pics, 2, 6)
  BY <1>1 DEF BInv, Controllers
<1>3. n = 0 \/ n = 1
  <2>1. n # 8
    BY <1>2 DEF Reaches, Passes, Masked, ChipOf, Given
  <2> QED
    BY <2>1 DEF Lines
<1>4. Vector(n) = 32 + n
  BY <1>2, <1>3 DEF Vector, ChipOf, Given
<1> DEFINE h == IF n = Timer THEN "PIT_tick" ELSE "key_board"
<1>5. GateSet(Vector(n), h) /\ idtr = 4095 /\ sse
  BY <1>1, <1>3, <1>4 DEF BInv, Vectors, Tables, Timer
<1>6. Address[h] \in 0 .. (Entries * PageSize - 1) /\ Address[h] \in Nat
  BY BootAssumption
<1>7. TargetOf(idt[Vector(n)]) = Address[h]
  BY <1>5, <1>6, OffsetWhole DEF GateSet
<1>8. Translate(Address[h]) = Address[h]
  BY <1>1, <1>6, Identity
<1> QED
  BY <1>3, <1>4, <1>5, <1>7, <1>8 DEF GateSet, Timer, Keyboard

(* Every interrupt that reaches the processor finds its handler.           *)
THEOREM InterruptsVectored == Spec => []Vectored
BY BInvInit, BInvKept, BInvVectored, PTL DEF Spec
-------------------------------------------------------------------------------
(* extract_mmap: which of the available regions it has come by, and that   *)
(* the first of them is the first it copied.                               *)
Early == {"detect", "halted", "tables", "paging", "sse", "gates", "lidt", "remap", "sti"}

Passed(q) == q[1] < tag \/ (q[1] = tag /\ q[2] <= entry)

First(p) ==
  /\ p \in Available(info)
  /\ \A q \in Available(info) : p[1] < q[1] \/ (p[1] = q[1] /\ p[2] <= q[2])

Extracting ==
  /\ tag \in DOMAIN info /\ entry \in Nat
  /\ IF mmap = <<>> THEN \A q \in Available(info) : ~Passed(q)
     ELSE \E p \in Available(info) : First(p) /\ mmap[1] = info[p[1]].entries[p[2]]

Heaps == [addr : Nat, len : Nat, next : {Null, Main}]

RInv ==
  /\ info \in Infos
  /\ mmap \in Seq(Entry) /\ heap \in Heaps
  /\ pc \in Early => mmap = <<>> /\ heap = NoHeap
  /\ pc = "extract" => heap = NoHeap /\ Extracting
  /\ FirstRegion

LEMMA Tags ==
  ASSUME NEW inf \in Infos
  PROVE  /\ 8 \in DOMAIN inf
         /\ \A a \in DOMAIN inf :
              /\ a \in Nat /\ a >= 8 /\ IsTag(inf[a]) /\ Aligned(inf[a].size) \in Nat
              /\ inf[a].size \in Nat
              /\ inf[a].type # "end" => a + Aligned(inf[a].size) \in DOMAIN inf
              /\ \A b \in DOMAIN inf :
                   b > a => inf[a].type # "end" /\ b >= a + Aligned(inf[a].size)
         /\ Available(inf) # {}
<1>1. /\ 8 \in DOMAIN inf
      /\ \A a \in DOMAIN inf :
           /\ a \in Nat /\ a >= 8 /\ IsTag(inf[a])
           /\ inf[a].type # "end" => a + Aligned(inf[a].size) \in DOMAIN inf
           /\ \A b \in DOMAIN inf :
                b > a => inf[a].type # "end" /\ b >= a + Aligned(inf[a].size)
      /\ Cardinality(Available(inf)) \in 1 .. MapSize
  BY BootAssumption
<1>2. Cardinality(Available(inf)) # 0
  BY <1>1
<1>3. Available(inf) # {}
  BY <1>2, FS_EmptySet
<1>4. \A a \in DOMAIN inf : inf[a].size \in Nat /\ Aligned(inf[a].size) \in Nat
  <2> TAKE a \in DOMAIN inf
  <2>1. inf[a].size \in Nat
    BY <1>1 DEF IsTag
  <2> QED
    BY <2>1 DEF Aligned
<1> QED
  BY <1>1, <1>3, <1>4

LEMMA InAvailable ==
  ASSUME NEW inf \in Infos, NEW q \in Available(inf)
  PROVE  /\ q[1] \in DOMAIN inf /\ q[2] \in DOMAIN inf[q[1]].entries
         /\ inf[q[1]].type = "mmap" /\ q[1] \in Nat /\ q[2] \in Nat /\ q[2] >= 1
         /\ inf[q[1]].size = 16 + inf[q[1]].entry_size * Len(inf[q[1]].entries)
         /\ inf[q[1]].entries \in Seq(Entry) /\ Len(inf[q[1]].entries) \in Nat
         /\ q[2] <= Len(inf[q[1]].entries)
<1>1. PICK a \in DOMAIN inf : q \in {a} \X AvailableIn(inf[a])
  BY DEF Available
<1>2. q[1] = a /\ q[2] \in AvailableIn(inf[a])
  BY <1>1
<1>3. q[2] \in DOMAIN inf[a].entries /\ inf[a].type = "mmap"
  BY <1>2 DEF AvailableIn
<1>4. /\ a \in Nat /\ inf[a].entries \in Seq(Entry)
      /\ inf[a].size = 16 + inf[a].entry_size * Len(inf[a].entries)
  BY <1>3, Tags DEF IsTag
<1>5. DOMAIN inf[a].entries = 1 .. Len(inf[a].entries) /\ Len(inf[a].entries) \in Nat
  BY <1>4
<1> QED
  BY <1>2, <1>3, <1>4, <1>5

LEMMA AvailableIs ==
  ASSUME NEW inf, NEW a \in DOMAIN inf, NEW k \in DOMAIN inf[a].entries,
         inf[a].type = "mmap", inf[a].entries[k].type = "available"
  PROVE  <<a, k>> \in Available(inf)
<1>1. k \in AvailableIn(inf[a])
  BY DEF AvailableIn
<1>2. <<a, k>> \in {a} \X AvailableIn(inf[a])
  BY <1>1
<1> QED
  BY <1>2 DEF Available

LEMMA RInvInit == Init => RInv
<1> SUFFICES ASSUME Init
             PROVE  RInv
  OBVIOUS
<1>1. pc = "detect" /\ info \in Infos /\ mmap = <<>> /\ heap = NoHeap
  BY DEF Init
<1>2. NoHeap \in Heaps /\ NoHeap.addr = 0
  BY DEF NoHeap, Heaps
<1> QED
  BY <1>1, <1>2 DEF RInv, FirstRegion

(* The regions stay as they are when nothing of extract_mmap moves.        *)
LEMMA RegionsKept ==
  ASSUME RInv, info' = info, mmap' = mmap, tag' = tag, entry' = entry, heap' \in Heaps,
         heap'.addr = heap.addr, heap'.len = heap.len,
         heap = NoHeap => heap' = NoHeap,
         pc' = pc \/ (pc \in Early /\ pc' \in Early) \/ pc' \notin Early \cup {"extract"}
  PROVE  RInv'
<1>1. FirstRegion'
  BY DEF RInv, FirstRegion, Available
<1>2. Extracting => Extracting'
  BY DEF Extracting, Passed, First, Available
<1> QED
  BY <1>1, <1>2 DEF RInv, Early

(* The inner loop stops behind the last entry, whatever an entry's size.   *)
LEMMA Multiples ==
  ASSUME NEW s \in Nat, s >= 24, NEW k \in Nat, NEW n \in Nat
  PROVE  16 + s * k < 16 + s * n <=> k < n
<1>1. s * k \in Nat /\ s * n \in Nat
  BY Product
<1>2. k >= n => s * k >= s * n
  OBVIOUS
<1>3. k < n => s * (k + 1) <= s * n /\ s * (k + 1) = s * k + s
  OBVIOUS
<1> QED
  BY <1>1, <1>2, <1>3

LEMMA WithinIs ==
  ASSUME NEW t, IsTag(t), t.type = "mmap", entry \in Nat
  PROVE  Within(t) <=> entry < Len(t.entries)
<1>1. Len(t.entries) \in Nat
  BY DEF IsTag
<1>2. /\ t.entry_size \in Nat /\ t.entry_size >= 24
      /\ t.size = 16 + t.entry_size * Len(t.entries)
  BY DEF IsTag
<1> QED
  BY <1>1, <1>2, Multiples DEF Within

LEMMA EntryExtracted ==
  ASSUME RInv, ExtractEntry
  PROVE  RInv'
<1> DEFINE t == info[tag]
<1>1. /\ pc = "extract" /\ pc' = pc /\ info' = info /\ tag' = tag /\ heap' = heap
      /\ tag \in DOMAIN info /\ t.type = "mmap" /\ Within(t) /\ entry' = entry + 1
      /\ heap = NoHeap
      /\ mmap' = IF t.entries[entry + 1].type = "available"
                 THEN Append(mmap, t.entries[entry + 1]) ELSE mmap
  BY DEF ExtractEntry, RInv, Extracting, TagAt, machinery, vectors
<1>2. PICK m \in Nat : entry = m
  BY <1>1 DEF RInv, Extracting
<1>3. entry + 1 = m + 1
  BY <1>2
<1>4. t.entries \in Seq(Entry) /\ IsTag(t) /\ tag \in Nat
  <2>1. IsTag(t) /\ tag \in Nat
    BY <1>1, Tags DEF RInv
  <2> QED
    BY <1>1, <2>1 DEF IsTag
<1>5. m + 1 \in DOMAIN t.entries /\ Len(t.entries) \in Nat
  <2>1. m < Len(t.entries)
    BY <1>1, <1>2, <1>4, WithinIs
  <2> QED
    BY <1>4, <2>1
<1>6. \A q \in Available(info) :
        Passed(q)' <=> Passed(q) \/ (q[1] = tag /\ q[2] = m + 1)
  <2> TAKE q \in Available(info)
  <2>1. q[1] \in Nat /\ q[2] \in Nat
    BY InAvailable DEF RInv
  <2> QED
    BY <1>1, <1>2, <2>1 DEF Passed
<1>7. entry' \in Nat
  BY <1>1, <1>2
<1> DEFINE e == t.entries[m + 1]
<1>8. e \in Entry
  BY <1>4, <1>5
<1>9. mmap' = IF e.type = "available" THEN Append(mmap, e) ELSE mmap
  BY <1>1, <1>3
<1>10. mmap' \in Seq(Entry)
  BY <1>8, <1>9 DEF RInv
<1> HIDE DEF e
<1>11. Extracting'
  <2>1. CASE mmap # <<>>
    <3>1. PICK p \in Available(info) : First(p) /\ mmap[1] = info[p[1]].entries[p[2]]
      BY <1>1, <2>1 DEF RInv, Extracting
    <3>2. mmap' # <<>> /\ mmap'[1] = mmap[1]
      <4>1. mmap \in Seq(Entry) /\ Len(mmap) >= 1
        BY <2>1 DEF RInv
      <4> QED
        BY <1>8, <1>9, <2>1, <4>1
    <3> QED
      BY <1>1, <1>7, <3>1, <3>2 DEF Extracting, First
  <2>2. CASE mmap = <<>> /\ e.type = "available"
    <3> DEFINE p == <<tag, m + 1>>
    <3>1. p \in Available(info)
      BY <1>1, <1>5, <2>2, AvailableIs DEF e
    <3>2. mmap' # <<>> /\ mmap'[1] = e
      BY <1>9, <2>2
    <3>3. ASSUME NEW q \in Available(info)
          PROVE  p[1] < q[1] \/ (p[1] = q[1] /\ p[2] <= q[2])
      <4>1. ~Passed(q)
        BY <1>1, <2>2 DEF RInv, Extracting
      <4>2. q[1] \in Nat /\ q[2] \in Nat
        BY InAvailable DEF RInv
      <4> QED
        BY <1>2, <1>4, <4>1, <4>2 DEF Passed
    <3>4. First(p)
      BY <3>1, <3>3 DEF First
    <3>5. mmap'[1] = info[p[1]].entries[p[2]]
      BY <3>2 DEF e
    <3> HIDE DEF p
    <3> QED
      BY <1>1, <1>7, <3>1, <3>2, <3>4, <3>5 DEF Extracting, First
  <2>3. CASE mmap = <<>> /\ e.type # "available"
    <3>1. mmap' = <<>>
      BY <1>9, <2>3
    <3>2. ASSUME NEW q \in Available(info)
          PROVE  ~Passed(q)'
      <4>1. ~Passed(q)
        BY <1>1, <2>3 DEF RInv, Extracting
      <4>2. ~(q[1] = tag /\ q[2] = m + 1)
        <5>1. info[q[1]].entries[q[2]].type = "available"
          BY DEF Available, AvailableIn
        <5> QED
          BY <2>3, <5>1 DEF e
      <4> QED
        BY <1>6, <4>1, <4>2
    <3> QED
      BY <1>1, <1>7, <3>1, <3>2 DEF Extracting, Passed
  <2> QED
    BY <2>1, <2>2, <2>3
<1>12. FirstRegion'
  BY <1>1 DEF RInv, FirstRegion, NoHeap
<1> QED
  BY <1>1, <1>10, <1>11, <1>12 DEF RInv, Early

LEMMA TagExtracted ==
  ASSUME RInv, ExtractTag
  PROVE  RInv'
<1> DEFINE t == info[tag]
<1>1. /\ pc = "extract" /\ pc' = pc /\ info' = info /\ mmap' = mmap /\ heap' = heap
      /\ tag \in DOMAIN info /\ t.type # "end" /\ (t.type = "mmap" => ~ Within(t))
      /\ tag' = tag + Aligned(t.size) /\ entry' = 0 /\ heap = NoHeap
  BY DEF ExtractTag, RInv, Extracting, TagAt, NextTag, machinery, vectors
<1>2. entry \in Nat
  BY <1>1 DEF RInv, Extracting
<1>3. /\ tag \in Nat /\ tag' \in DOMAIN info /\ tag' \in Nat
      /\ \A b \in DOMAIN info : b \in Nat /\ (b > tag => b >= tag')
  BY <1>1, Tags DEF RInv
<1>4. ASSUME NEW q \in Available(info), Passed(q)'
      PROVE  Passed(q)
  <2>1. /\ q[1] \in DOMAIN info /\ q[1] \in Nat /\ q[2] \in Nat /\ q[2] >= 1
        /\ info[q[1]].type = "mmap" /\ IsTag(info[q[1]])
        /\ Len(info[q[1]].entries) \in Nat /\ q[2] <= Len(info[q[1]].entries)
    BY InAvailable, Tags DEF RInv
  <2>2. q[1] < tag'
    BY <1>1, <1>4, <2>1 DEF Passed
  <2>3. q[1] <= tag
    BY <1>3, <2>1, <2>2
  <2>4. q[1] = tag => q[2] <= entry
    BY <1>1, <1>2, <2>1, WithinIs
  <2> QED
    BY <1>3, <2>1, <2>3, <2>4 DEF Passed
<1>5. entry' \in Nat
  BY <1>1
<1>6. Extracting'
  <2>1. CASE mmap = <<>>
    <3>1. \A q \in Available(info) : ~Passed(q)'
      BY <1>1, <1>4, <2>1 DEF RInv, Extracting
    <3> QED
      BY <1>1, <1>3, <1>5, <2>1, <3>1 DEF Extracting, Passed
  <2>2. CASE mmap # <<>>
    BY <1>1, <1>3, <1>5, <2>2 DEF RInv, Extracting, First
  <2> QED
    BY <2>1, <2>2
<1>7. FirstRegion'
  BY <1>1 DEF RInv, FirstRegion, NoHeap
<1> QED
  BY <1>1, <1>6, <1>7 DEF RInv, Early

LEMMA Small ==
  ASSUME NEW w \in Nat, w > 24, NEW n \in Int, n < w
  PROVE  n % w \in Nat /\ (n >= 0 => n % w = n)
OBVIOUS

LEMMA HeapMade ==
  ASSUME RInv, InitializeHeap
  PROVE  RInv'
<1>1. /\ pc = "extract" /\ pc' = "next" /\ info' = info /\ mmap' = mmap
      /\ tag \in DOMAIN info /\ info[tag].type = "end" /\ heap' = HeapOf(mmap[1])
  BY DEF InitializeHeap, Then, RInv, Extracting, TagAt, machinery, vectors
<1>2. mmap # <<>>
  <2>1. PICK q \in Available(info) : TRUE
    BY Tags DEF RInv
  <2>2. q[1] \in DOMAIN info /\ q[1] \in Nat /\ info[q[1]].type = "mmap"
    BY InAvailable DEF RInv
  <2>3. q[1] # tag /\ ~(q[1] > tag) /\ tag \in Nat
    BY <1>1, <2>2, Tags DEF RInv
  <2>4. Passed(q)
    BY <2>2, <2>3 DEF Passed
  <2> QED
    BY <1>1, <2>4 DEF RInv, Extracting
<1>3. PICK p \in Available(info) : First(p) /\ mmap[1] = info[p[1]].entries[p[2]]
  BY <1>1, <1>2 DEF RInv, Extracting
<1> DEFINE e == info[p[1]].entries[p[2]]
<1>4. e \in Entry
  BY InAvailable DEF RInv
<1>5. heap' = HeapOf(e) /\ e.addr \in Nat /\ e.len \in 0 .. (Word - 1)
  BY <1>1, <1>3, <1>4 DEF Entry
<1> HIDE DEF e
<1> DEFINE n == (IF e.addr = 0 THEN e.len - 1 ELSE e.len) - 24
<1>6. /\ heap'.addr = (IF e.addr = 0 THEN 1 ELSE e.addr)
      /\ heap'.len = n % Word /\ heap'.next = Null
      /\ heap' = [addr |-> heap'.addr, len |-> heap'.len, next |-> heap'.next]
      /\ n \in Int /\ Word \in Nat /\ Word > 24 /\ n < Word
  BY <1>5, BootAssumption DEF HeapOf
<1>7. /\ heap'.addr > 0 /\ heap'.addr - e.addr \in {0, 1}
      /\ e.len > 24 => heap'.addr + 24 + heap'.len = e.addr + e.len
      /\ heap' \in Heaps
  <2>1. n % Word \in Nat /\ (n >= 0 => n % Word = n)
    <3> HIDE DEF n
    <3> QED
      BY <1>6, Small
  <2>2. e.len > 24 => n >= 0 /\ n = (IF e.addr = 0 THEN e.len - 25 ELSE e.len - 24)
    BY <1>5, BootAssumption
  <2>3. heap' \in Heaps
    <3> HIDE DEF n
    <3> QED
      BY <1>5, <1>6, <2>1 DEF Heaps
  <2>4. heap'.addr > 0 /\ heap'.addr - e.addr \in {0, 1}
    BY <1>5, <1>6
  <2>5. e.len > 24 => heap'.addr + 24 + heap'.len = e.addr + e.len
    <3> SUFFICES ASSUME e.len > 24 PROVE heap'.addr + 24 + heap'.len = e.addr + e.len
      OBVIOUS
    <3>1. heap'.len = n
      BY <1>6, <2>1, <2>2
    <3>2. n = (IF e.addr = 0 THEN e.len - 25 ELSE e.len - 24)
      BY <2>2
    <3>3. heap'.addr = (IF e.addr = 0 THEN 1 ELSE e.addr)
      BY <1>6
    <3> HIDE DEF n
    <3> QED
      BY <1>5, <3>1, <3>2, <3>3, BootAssumption
  <2> QED
    BY <2>3, <2>4, <2>5
<1>8. FirstRegion'
  BY <1>1, <1>3, <1>7 DEF FirstRegion, First, e
<1> QED
  BY <1>1, <1>7, <1>8 DEF RInv, Early

LEMMA RInvKept ==
  ASSUME RInv, [Next]_vars
  PROVE  RInv'
<1> USE DEF machinery, vectors, memory, ready
<1>1. CASE Detect
  <2>1. pc = "detect" /\ pc' \in {"tables", "halted"}
    BY <1>1, Detected
  <2> QED
    BY <1>1, <2>1, RegionsKept DEF Detect, RInv, Early
<1>2. CASE SetupPageTables \/ EnablePaging \/ EnableSSE \/ IdtSetGate \/ Lidt \/ RemapPic
  <2>1. pc \in Early /\ pc' \in Early
    BY <1>2 DEF SetupPageTables, EnablePaging, EnableSSE, IdtSetGate, Lidt, RemapPic, Loop, Then,
       Early
  <2> QED
    BY <1>2, <2>1, RegionsKept
    DEF SetupPageTables, EnablePaging, EnableSSE, IdtSetGate, Lidt, RemapPic, RInv
<1>3. CASE Sti
  <2>1. /\ pc = "sti" /\ pc' = "extract" /\ tag' = 8 /\ entry' = 0 /\ info' = info
        /\ mmap' = mmap /\ heap' = heap /\ mmap = <<>> /\ heap = NoHeap
    BY <1>3 DEF Sti, Then, RInv, Early
  <2>2. ASSUME NEW q \in Available(info)
        PROVE  ~Passed(q)'
    <3>1. q[1] \in Nat /\ q[1] >= 8 /\ q[2] \in Nat /\ q[2] >= 1
      BY InAvailable, Tags DEF RInv
    <3> QED
      BY <2>1, <3>1 DEF Passed
  <2>3. entry' \in Nat
    BY <2>1
  <2>4. Extracting'
    BY <2>1, <2>2, <2>3, Tags DEF RInv, Extracting, Passed
  <2> QED
    BY <2>1, <2>4 DEF RInv, FirstRegion, NoHeap, Early
<1>4. CASE SetNext \/ SetCurrent \/ SetStart \/ SetEnd
  <2>1. pc' \notin Early \cup {"extract"}
    BY <1>4 DEF SetNext, SetCurrent, SetStart, SetEnd, Then, Early
  <2> QED
    BY <1>4, <2>1, RegionsKept DEF SetNext, SetCurrent, SetStart, SetEnd, RInv
<1>5. CASE \E n \in Lines : Interrupt(n)
  <2>1. /\ pc' = pc /\ info' = info /\ mmap' = mmap /\ tag' = tag /\ entry' = entry
        /\ heap' = heap \/ (heap.addr = 1 /\ heap' = [heap EXCEPT !.next = Main])
    BY <1>5 DEF Interrupt, Schedule, Linked
  <2>2. /\ heap' \in Heaps /\ heap'.addr = heap.addr /\ heap'.len = heap.len
        /\ heap = NoHeap => heap' = NoHeap
    BY <2>1 DEF RInv, Heaps, NoHeap
  <2> QED
    BY <2>1, <2>2, RegionsKept
<1>6. CASE \E n \in Lines : Raise(n)
  BY <1>6, RegionsKept DEF Raise, RInv
<1>7. CASE UNCHANGED vars
  BY <1>7, RegionsKept DEF vars, RInv
<1> QED
  BY <1>1, <1>2, <1>3, <1>4, <1>5, <1>6, <1>7, EntryExtracted, TagExtracted, HeapMade
  DEF Next, Step

(* On any memory map, wherever interrupts arrive, the heap takes up the    *)
(* first region that is available.                                         *)
THEOREM HeapTakesFirst == Spec => []FirstRegion
<1>1. RInv => FirstRegion
  BY DEF RInv
<1>2. RInv /\ [Next]_vars => RInv'
  BY RInvKept
<1> QED
  BY <1>1, <1>2, RInvInit, PTL DEF Spec
=============================================================================
