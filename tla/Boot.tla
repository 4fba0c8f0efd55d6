-------------------------------- MODULE Boot --------------------------------
(***************************************************************************)
(* From the boot loader's jump to the shell: boot.asm, sse.asm, kernel.c,  *)
(* idt.c, remap_pic (interrupts.c), mmap.c, initialize_heap (heap.c) and   *)
(* scheduler_init (scheduler.c).                                           *)
(*                                                                         *)
(* prepare_interrupts enables interrupts before there is a heap or a       *)
(* current task: the timer ticks and keys are pressed while the rest of    *)
(* the kernel is being set up.  Here each assignment of scheduler_init is  *)
(* a step.  A handler is one action; Switch has the ticks that arrive      *)
(* within one.                                                             *)
(*                                                                         *)
(* The two 8259 interrupt controllers are outside the repository; they     *)
(* are modelled as far as the bytes written to their ports reach.          *)
(*                                                                         *)
(* As in Heap, a definition that stands right before another and extends   *)
(* its name is a mistake that no specification uses.                       *)
(***************************************************************************)
EXTENDS Integers, Sequences, FiniteSets

CONSTANTS
  Machines,  \* what the boot loader and the processor may offer
  Infos,     \* what the boot loader may say of the memory
  Entries,   \* entries of page_table_l2 (512)
  PageSize,  \* what one of them maps (2 MiB)
  MapSize,   \* entries of mmap (10)
  Word,      \* how many values a uint64_t has (2^64)
  Address    \* where the handlers are

Null == -1
Main == 0
Lines == {0, 1, 8}  \* timer, keyboard, clock of the second controller
Timer == 0
Keyboard == 1

(* The multiboot tags, by their offset; an mmap tag has its entries, whose *)
(* size it gives.  No region begins among the bytes 1 to 23.               *)
Entry == [type : {"available", "reserved"}, addr : {0} \cup (Nat \ 0 .. 23), len : 0 .. (Word - 1)]
IsTag(t) ==
  /\ t.type \in {"mmap", "other", "end"}
  /\ t.size \in Nat /\ t.size >= 8
  /\ t.entries \in Seq(Entry)
  /\ t.entry_size \in Nat /\ t.entry_size >= 24
  /\ t.type = "mmap" => t.size = 16 + t.entry_size * Len(t.entries)

Aligned(n) == ((n + 7) \div 8) * 8
AvailableIn(t) ==
  {k \in DOMAIN t.entries : t.type = "mmap" /\ t.entries[k].type = "available"}
Available(inf) == UNION {{a} \X AvailableIn(inf[a]) : a \in DOMAIN inf}

(* A processor with long mode has SSE.  Tags lie one behind the other, the *)
(* last one last.  Some memory is available, and mmap has room for all     *)
(* that is.  The page tables reach to the handlers.                        *)
ASSUME BootAssumption ==
  /\ \A m \in Machines : /\ DOMAIN m = {"multiboot", "cpuid", "longmode", "sse"}
                         /\ m.longmode => m.sse
  /\ \A inf \in Infos :
       /\ 8 \in DOMAIN inf
       /\ \A a \in DOMAIN inf :
            /\ a \in Nat /\ a >= 8 /\ IsTag(inf[a])
            /\ inf[a].type # "end" => a + Aligned(inf[a].size) \in DOMAIN inf
            /\ \A b \in DOMAIN inf :
                 b > a => inf[a].type # "end" /\ b >= a + Aligned(inf[a].size)
       /\ Cardinality(Available(inf)) \in 1 .. MapSize
  /\ Entries \in Nat \ {0} /\ PageSize \in Nat \ {0} /\ MapSize \in Nat
  /\ Word \in Nat /\ Word > 24
  /\ DOMAIN Address = {"page_fault", "zero_division", "key_board", "PIT_tick"}
  /\ \A h \in DOMAIN Address : Address[h] \in 0 .. (Entries * PageSize - 1)

VARIABLES
  pc, i,             \* the code that runs next, and how far its loop is
  machine, info,     \* eax and the processor; the multiboot information
  error,             \* the letter on the screen, or ""
  l2, paging,        \* page_table_l2 so far; CR0.PG
  sse,               \* CR4.OSFXSR
  idt, idtr,         \* _idt (the gates that are set); the register's limit, or Null
  pics, saved,       \* the controllers; a1 and a2 of remap_pic
  requests,          \* the interrupt lines that are raised
  interrupts,        \* the interrupt flag
  tag, entry,        \* extract_mmap: tag; how many entries mmap_entery is past
  mmap,              \* the entries it has copied
  heap,              \* the free segment, or NoHeap: a null pointer
  start, end, next,  \* start_of_ready_list, end_of_ready_list, pcbArray[0].next
  currentPCB

machinery == <<machine, info, error, l2, paging, sse>>
vectors == <<idt, idtr, pics, saved, requests, interrupts>>
memory == <<tag, entry, mmap, heap>>
ready == <<start, end, next, currentPCB>>
vars == <<pc, i, machinery, vectors, memory, ready>>

(* The controllers as the firmware leaves them.  A mask is the set of the  *)
(* lines whose bits are 1: 184 and 142 here, 252 and 255 at the end.       *)
Firmware == <<[init |-> 0, offset |-> 8,   mask |-> {3, 4, 5, 7}, service |-> {}],
              [init |-> 0, offset |-> 112, mask |-> {1, 2, 3, 7}, service |-> {}]>>

NoHeap == [addr |-> 0, len |-> 0, next |-> Null]

Init ==
  /\ pc = "detect" /\ i = 0
  /\ machine \in Machines /\ info \in Infos /\ error = ""
  /\ l2 = <<>> /\ paging = FALSE /\ sse = FALSE
  /\ idt = <<>> /\ idtr = Null
  /\ pics = Firmware /\ saved = <<{}, {}>>
  /\ requests = {} /\ interrupts = FALSE
  /\ tag = 0 /\ entry = 0 /\ mmap = <<>> /\ heap = NoHeap
  /\ start = Null /\ end = Null /\ next = Null /\ currentPCB = Null

(* One step of the loop in a: again until it has run n times, then b.      *)
Loop(a, n, b) ==
  /\ pc = a
  /\ IF i + 1 < n THEN pc' = a /\ i' = i + 1 ELSE pc' = b /\ i' = 0

Then(a, b) == pc = a /\ pc' = b /\ i' = 0
-----------------------------------------------------------------------------
(* boot.asm *)

(* detect_multiboot, detect_cpuid, detect_long_mode, in this order; error  *)
(* shows the letter of the first that fails, and halts.                    *)
Detect ==
  /\ error' = CASE ~ machine.multiboot -> "M"
                [] machine.multiboot /\ ~ machine.cpuid -> "C"
                [] machine.multiboot /\ machine.cpuid /\ ~ machine.longmode -> "L"
                [] OTHER -> ""
  /\ Then("detect", IF error' = "" THEN "tables" ELSE "halted")
  /\ UNCHANGED <<machine, info, l2, paging, sse, vectors, memory, ready>>

(* setup_page_tables: entry k of page_table_l2 maps the k-th page.         *)
TableEntry(k) == PageSize * k

SetupPageTables ==
  /\ Loop("tables", Entries, "paging")
  /\ l2' = Append(l2, TableEntry(i))
  /\ UNCHANGED <<machine, info, error, paging, sse, vectors, memory, ready>>

EnablePaging ==
  /\ Then("paging", "sse")
  /\ paging' = TRUE
  /\ UNCHANGED <<machine, info, error, l2, sse, vectors, memory, ready>>

(* kernel_main goes on whatever sse_enable returns.                        *)
EnableSSE ==
  /\ Then("sse", "gates")
  /\ sse' = machine.sse
  /\ UNCHANGED <<machine, info, error, l2, paging, vectors, memory, ready>>

(* What the page tables make of an address.                                *)
Translate(a) ==
  IF ~ paging THEN a
  ELSE IF a \div PageSize < Len(l2) THEN l2[a \div PageSize + 1] + (a % PageSize) ELSE Null
-----------------------------------------------------------------------------
(* idt.c *)

(* set_offset: the offset in pieces of 16, 16 and 32 bits.  The processor  *)
(* puts them together again.                                               *)
SetOffset(o) ==
  [low |-> o % 65536, mid |-> (o \div 65536) % 65536, high |-> (o \div 65536) \div 65536]

TargetOf(gate) == (gate.high * 65536 + gate.mid) * 65536 + gate.low

(* prepare_interrupts: the calls of idt_set_gate, then lidt.               *)
Gates == << <<"page_fault", 14>>, <<"zero_division", 0>>, <<"key_board", 33>>, <<"PIT_tick", 32>> >>

IdtSetGate ==
  /\ Loop("gates", Len(Gates), "lidt")
  /\ idt' = [v \in DOMAIN idt \cup {Gates[i + 1][2]} |->
               IF v = Gates[i + 1][2] THEN SetOffset(Address[Gates[i + 1][1]]) ELSE idt[v]]
  /\ UNCHANGED <<machinery, idtr, pics, saved, requests, interrupts, memory, ready>>

Lidt ==
  /\ Then("lidt", "remap")
  /\ idtr' = 4095
  /\ saved' = <<pics[1].mask, pics[2].mask>>
  /\ UNCHANGED <<machinery, idt, pics, requests, interrupts, memory, ready>>
-----------------------------------------------------------------------------
(* The controllers (external).  ICW1 starts the initialisation: the next   *)
(* three bytes for the data port are the offset, the cascade and the mode. *)
(* Later ones are masks; 0x20 as a command ends the foremost interrupt.    *)
Rest(lines) == {n \in lines : \E m \in lines : m < n}

Command(ps, c, v) ==
  [ps EXCEPT ![c] =
     IF v = 17 THEN [@ EXCEPT !.init = 1, !.mask = {}, !.service = {}]
     ELSE [@ EXCEPT !.service = Rest(ps[c].service)]]
Data(ps, c, v) ==
  [ps EXCEPT ![c] =
     CASE @.init = 1 -> [@ EXCEPT !.init = 2, !.offset = v]
       [] @.init = 2 -> [@ EXCEPT !.init = 3]
       [] @.init = 3 -> [@ EXCEPT !.init = 0]
       [] @.init = 0 -> [@ EXCEPT !.mask = v]]

ChipOf(n) == IF n < 8 THEN 1 ELSE 2
Masked(c, n) == n \in pics[c].mask
Vector(n) == pics[ChipOf(n)].offset + (n % 8)

(* The interrupt line n reaches the processor: its flag is set, n is not   *)
(* masked, and nothing that goes before n is raised or being served.  The  *)
(* second controller is on line 2 of the first.                            *)
Passes(n) ==
  /\ n \in requests
  /\ ~ Masked(ChipOf(n), n % 8)
  /\ n >= 8 => ~ Masked(1, 2)
Rank(n) == IF n < 2 THEN n ELSE 2
Reaches(n) ==
  /\ interrupts
  /\ Passes(n)
  /\ \A m \in Lines : Passes(m) => Rank(n) <= Rank(m)
  /\ \A m \in pics[1].service : Rank(n) < m

(* remap_pic writes to the two controllers in turn: ICW1 as a command,     *)
(* then the offset, the cascade, the mode and the mask it has read; the    *)
(* last masks are prepare_interrupts'.                                     *)
BytesSaved == << <<17, 32, 4, 1, saved[1]>>, <<17, 40, 2, 1, saved[2]>> >>
Bytes == << <<17, 32, 4, 1, saved[1], 2 .. 7>>, <<17, 40, 2, 1, saved[2], 0 .. 7>> >>

(* ICW1 forgets the lines that are raised.                                 *)
RemapPic ==
  LET c == (i % 2) + 1
      k == (i \div 2) + 1
  IN
  /\ Loop("remap", 2 * Len(Bytes[c]), "sti")
  /\ pics' = IF k = 1 THEN Command(pics, c, Bytes[c][k]) ELSE Data(pics, c, Bytes[c][k])
  /\ requests' = IF k = 1 THEN {n \in requests : ChipOf(n) # c} ELSE requests
  /\ UNCHANGED <<machinery, idt, idtr, saved, interrupts, memory, ready>>

Sti ==
  /\ Then("sti", "extract")
  /\ interrupts' = TRUE
  /\ tag' = 8 /\ entry' = 0
  /\ UNCHANGED <<machinery, idt, idtr, pics, saved, requests, mmap, heap, ready>>
-----------------------------------------------------------------------------
(* mmap.c, heap.c *)

(* Between two tags lie zeros, which read as the last tag.                 *)
TagAt(a) == IF a \in DOMAIN info THEN info[a] ELSE 
                 [type |-> "end", size |-> 8, entry_size |-> 24, entries |-> <<>>]

(* extract_mmap: tag + ((tag->size + 7) & ~7).                             *)
NextTag(a) == a + Aligned(TagAt(a).size)

(* The inner loop visits the entries of an mmap tag and copies those of    *)
(* available memory; the outer one goes to the next tag.                   *)
Within(t) == 16 + t.entry_size * entry < t.size

ExtractEntry ==
  LET t == TagAt(tag) IN
  /\ pc = "extract"
  /\ t.type = "mmap" /\ Within(t)
  /\ LET e == t.entries[entry + 1] IN
       mmap' = IF e.type = "available" THEN Append(mmap, e) ELSE mmap
  /\ entry' = entry + 1
  /\ UNCHANGED <<pc, i, machinery, vectors, tag, heap, ready>>

ExtractTag ==
  LET t == TagAt(tag) IN
  /\ pc = "extract"
  /\ t.type # "end"
  /\ t.type = "mmap" => ~ Within(t)
  /\ tag' = NextTag(tag) /\ entry' = 0
  /\ UNCHANGED <<pc, i, machinery, vectors, mmap, heap, ready>>

(* initialize_heap: a region at address 0 loses its first byte, for a      *)
(* null pointer is no segment.  A header has 24 bytes; where there are     *)
(* fewer, the length wraps.                                                *)
HeapOfWhole(e) ==
  [addr |-> IF e.addr = 0 THEN 1 ELSE e.addr, len |-> (e.len - 24) % Word, next |-> Null]
HeapOf(e) ==
  [addr |-> IF e.addr = 0 THEN 1 ELSE e.addr,
   len  |-> ((IF e.addr = 0 THEN e.len - 1 ELSE e.len) - 24) % Word,
   next |-> Null]

InitializeHeap ==
  /\ TagAt(tag).type = "end"
  /\ Then("extract", "next")
  /\ heap' = HeapOf(mmap[1])
  /\ UNCHANGED <<machinery, vectors, tag, entry, mmap, ready>>
-----------------------------------------------------------------------------
(* scheduler_init *)

SetNext ==
  /\ Then("next", "currentPCB")
  /\ next' = Null
  /\ UNCHANGED <<machinery, vectors, memory, start, end, currentPCB>>

SetCurrent ==
  /\ Then("currentPCB", "start")
  /\ currentPCB' = Main
  /\ UNCHANGED <<machinery, vectors, memory, start, end, next>>

SetStart ==
  /\ Then("start", "end")
  /\ start' = Main
  /\ UNCHANGED <<machinery, vectors, memory, end, next, currentPCB>>

SetEnd ==
  /\ Then("end", "shell")
  /\ end' = Main
  /\ UNCHANGED <<machinery, vectors, memory, start, next, currentPCB>>
-----------------------------------------------------------------------------
(* An interrupt.  Both handlers end it at the first controller.            *)
EndedSecond(ps) == Command(ps, 2, 32)
Ended(ps) == Command(ps, 1, 32)

(* schedule and switch_to_task with one task, which runs: it leaves the    *)
(* list, and is linked behind the list's end.  A null end makes that a     *)
(* write to address 16, where the header of a heap at address 1 has its    *)
(* next.                                                                   *)
Linked ==
  /\ start' = next
  /\ next' = IF end = Main THEN Main ELSE next
  /\ heap' = IF end = Null /\ heap.addr = 1 THEN [heap EXCEPT !.next = Main] ELSE heap
  /\ end' = Main
ScheduleUnchecked == Linked
Schedule ==
  IF start # Null THEN Linked ELSE UNCHANGED <<start, next, heap, end>>

(* key_board_handler; PIT_tick_handler, which goes on to schedule.         *)
Interrupt(n) ==
  /\ Reaches(n)
  /\ requests' = requests \ {n}
  /\ pics' = Ended([pics EXCEPT ![1].service = @ \cup {Rank(n)}])
  /\ IF n = Timer THEN Schedule ELSE UNCHANGED <<start, next, heap, end>>
  /\ UNCHANGED <<pc, i, machinery, idt, idtr, saved, interrupts, tag, entry, mmap, currentPCB>>

(* A device raises its line (external).                                    *)
Raise(n) ==
  /\ n \notin requests
  /\ requests' = requests \cup {n}
  /\ UNCHANGED <<pc, i, machinery, idt, idtr, pics, saved, interrupts, memory, ready>>

Step ==
  \/ Detect \/ SetupPageTables \/ EnablePaging \/ EnableSSE
  \/ IdtSetGate \/ Lidt \/ RemapPic \/ Sti
  \/ ExtractEntry \/ ExtractTag \/ InitializeHeap
  \/ SetNext \/ SetCurrent \/ SetStart \/ SetEnd

Next ==
  \/ Step
  \/ \E n \in Lines : Interrupt(n)
  \/ \E n \in Lines : Raise(n)

Spec == Init /\ [][Next]_vars

(* The processor goes on.  Ticks are 55 ms apart, far more than a handler  *)
(* takes, so that no line waits for ever behind another.                   *)
FairSpec ==
  Spec /\ WF_vars(Step) /\ SF_vars(Interrupt(Timer)) /\ SF_vars(Interrupt(Keyboard))
-----------------------------------------------------------------------------
(* An interrupt that reaches the processor finds its own handler: through  *)
(* a gate of the loaded table, at an address that is mapped; and SSE is    *)
(* enabled, for PIT_tick computes with doubles.  sti comes after all that. *)
Vectored ==
  \A n \in Lines : Reaches(n) =>
    /\ n \in {Timer, Keyboard}
    /\ Vector(n) \in DOMAIN idt /\ 16 * Vector(n) + 15 <= idtr
    /\ TargetOf(idt[Vector(n)]) = Address[IF n = Timer THEN "PIT_tick" ELSE "key_board"]
    /\ Translate(TargetOf(idt[Vector(n)])) = TargetOf(idt[Vector(n)])
    /\ sse

(* The heap takes up the first region that the loader says is available,   *)
(* whichever tags lie before it, to its last byte and no further, if that  *)
(* region has room for a header.                                           *)
FirstRegion ==
  heap.addr # 0 =>
    \E p \in Available(info) :
      /\ \A q \in Available(info) : p[1] < q[1] \/ (p[1] = q[1] /\ p[2] <= q[2])
      /\ LET e == info[p[1]].entries[p[2]] IN
           /\ heap.addr > 0 /\ heap.addr - e.addr \in {0, 1}
           /\ e.len > 24 => heap.addr + 24 + heap.len = e.addr + e.len

(* A tick that arrives while the kernel is being set up overwrites the     *)
(* header of the heap in one place only, between the assignments of        *)
(* start_of_ready_list and end_of_ready_list, and only if the first region *)
(* begins at address 0; before and after it the list is whole or empty.    *)
DamageConfined ==
  [][heap'.next # heap.next => pc = "end" /\ heap.addr = 1]_vars

(* The header stays as initialize_heap made it: the last segment's.        *)
HeaderKept == heap.next = Null

(* On a machine the kernel runs on, a tick and a key that wait are served  *)
(* in the end, those included that come while the kernel is set up.        *)
Handled ==
  \A n \in {Timer, Keyboard} :
    (n \in requests /\ machine.multiboot /\ machine.cpuid /\ machine.longmode) ~> (n \notin requests)
=============================================================================
