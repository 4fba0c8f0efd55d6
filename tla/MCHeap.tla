------------------------------- MODULE MCHeap -------------------------------
(* A heap of six header sizes that starts at address 0, like the first     *)
(* entry of the memory map, with the header size of the 64-bit build.      *)
EXTENDS Heap

MCMmapAddr == 0
MCMmapLen == 150
MCHeaderSize == 24
MCRequests == {0, 8, 24, 33}
=============================================================================
