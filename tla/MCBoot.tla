------------------------------- MODULE MCBoot -------------------------------
(* A few machines, memory maps of one and two regions behind other tags,   *)
(* and page tables of a few entries.                                       *)
EXTENDS Boot, TLC

MCMachines ==
  {[multiboot |-> TRUE, cpuid |-> TRUE, longmode |-> TRUE, sse |-> TRUE],
   [multiboot |-> TRUE, cpuid |-> TRUE, longmode |-> FALSE, sse |-> FALSE],
   [multiboot |-> TRUE, cpuid |-> FALSE, longmode |-> FALSE, sse |-> FALSE],
   [multiboot |-> FALSE, cpuid |-> TRUE, longmode |-> TRUE, sse |-> TRUE]}

Region(t, a, n) == [type |-> t, addr |-> a, len |-> n]
Tag(t, n, es, s) == [type |-> t, size |-> n, entries |-> es, entry_size |-> s]
Other(n) == Tag("other", n, <<>>, 24)
Map(es, s) == Tag("mmap", 16 + s * Len(es), es, s)
End == Tag("end", 8, <<>>, 24)

(* What a PC has: 640 KiB at address 0, and more behind the BIOS; a        *)
(* machine that keeps its first page, behind a command line of 13 bytes,   *)
(* with entries of 32 bytes; and one with 16 bytes before it.              *)
LowMemory == <<Region("available", 0, 654336), Region("reserved", 654336, 394240),
               Region("available", 1048576, 133038080)>>
KeptPage == <<Region("reserved", 0, 4096), Region("available", 4096, 650240)>>
Scrap == <<Region("available", 4080, 16), Region("available", 4096, 650240)>>
MCInfos ==
  {8 :> Map(LowMemory, 24) @@ 96 :> Other(24) @@ 120 :> End,
   8 :> Other(13) @@ 24 :> Map(KeptPage, 32) @@ 104 :> Map(LowMemory, 24) @@ 192 :> End,
   8 :> Map(Scrap, 24) @@ 72 :> End}

MCAddress ==
  [h \in {"page_fault", "zero_division", "key_board", "PIT_tick"} |->
     CASE h = "page_fault" -> 1051904 [] h = "zero_division" -> 1052160
       [] h = "key_board" -> 1118465 [] h = "PIT_tick" -> 1118720]
=============================================================================
