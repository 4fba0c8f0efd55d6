-------------------------------- MODULE Heap --------------------------------
(***************************************************************************)
(* The kernel heap (heap.c): one linked list of segments, each a header    *)
(* followed by its payload.  malloc walks the list for the first segment   *)
(* that fits, splitting it when a remainder is left; free marks a segment  *)
(* and then merges neighbours over the whole list.                         *)
(*                                                                         *)
(* A header is a record of seg, at its address; a segment that merge       *)
(* absorbs leaves the domain, its header being payload from then on.       *)
(* heap and free_seg are both the constant Base: nothing assigns them      *)
(* after initialize_heap.  Each action is one iteration of a loop, so that *)
(* the walks read the list as it is and need no recursion.                 *)
(*                                                                         *)
(* A definition that stands right before another and extends its name      *)
(* (ExactOfAny before Exact) is a mistake the code could have made; no     *)
(* specification uses it, it shows which property would notice.            *)
(***************************************************************************)
EXTENDS Integers

CONSTANTS
  MmapAddr,    \* address of the memory map entry given to the heap
  MmapLen,     \* its length
  HeaderSize,  \* sizeof(mem_segment_t)
  Requests     \* sizes the callers of malloc ask for

Null == 0

(* initialize_heap gives up the byte at address 0, which is Null.          *)
Base == IF MmapAddr = 0 THEN 1 ELSE MmapAddr
End == MmapAddr + MmapLen

ASSUME HeapAssumption ==
  /\ MmapAddr \in Nat
  /\ MmapLen \in Nat
  /\ HeaderSize \in Nat \ {0}
  /\ Requests \subseteq Nat
  /\ Base + HeaderSize <= End

VARIABLES
  seg,   \* the segment headers: address -> [len, free, next]
  pc,    \* the loop being run: "idle", "malloc", "free" or "merge"
  curr,  \* its cursor
  arg,   \* noOfBytes of malloc, ptr of free
  live   \* the blocks callers hold, payload address -> size (history)

vars == <<seg, pc, curr, arg, live>>

Header == [len : Nat, free : BOOLEAN, next : Nat]

TypeOK ==
  /\ DOMAIN seg \subseteq Nat
  /\ seg \in [DOMAIN seg -> Header]
  /\ pc \in {"idle", "malloc", "free", "merge"}
  /\ curr \in Nat
  /\ arg \in Nat
  /\ DOMAIN live \subseteq Nat
  /\ live \in [DOMAIN live -> Requests]
-----------------------------------------------------------------------------
Init ==
  /\ seg = [a \in {Base} |->
              [len |-> End - Base - HeaderSize, free |-> TRUE, next |-> Null]]
  /\ pc = "idle"
  /\ curr = Null
  /\ arg = 0
  /\ live = [p \in {} |-> 0]

Payload(s) == s + HeaderSize

ExactOfAny(s, n) == seg[s].len = n
Exact(s, n) == seg[s].free /\ seg[s].len = n

(* Large enough to cut a segment of n bytes off its front and still leave  *)
(* a header and at least one byte.                                         *)
Splittable(s, n) == seg[s].free /\ seg[s].len > n + HeaderSize

(* malloc(n) is called.                                                    *)
CallMalloc(n) ==
  /\ pc = "idle"
  /\ pc' = "malloc"
  /\ curr' = Base
  /\ arg' = n
  /\ UNCHANGED <<seg, live>>

Return ==
  /\ pc' = "idle"
  /\ curr' = Null
  /\ arg' = 0

HandOut(p) ==
  live' = [q \in DOMAIN live \cup {p} |-> IF q = p THEN arg ELSE live[q]]

MallocExact ==
  /\ pc = "malloc"
  /\ curr # Null
  /\ Exact(curr, arg)
  /\ seg' = [seg EXCEPT ![curr].free = FALSE]
  /\ HandOut(Payload(curr))
  /\ Return

(* What is left of segment s when n bytes are cut off its front.           *)
RemainderInUse(s, n) ==
  [len  |-> seg[s].len - n - HeaderSize,
   free |-> FALSE,
   next |-> seg[s].next]
Remainder(s, n) ==
  [len  |-> seg[s].len - n - HeaderSize,
   free |-> TRUE,
   next |-> seg[s].next]

(* split(curr, arg): the header of the remainder is written right after    *)
(* the payload handed out.                                                 *)
MallocSplit ==
  LET new == Payload(curr) + arg IN
  /\ pc = "malloc"
  /\ curr # Null
  /\ ~Exact(curr, arg)
  /\ Splittable(curr, arg)
  /\ seg' = [a \in DOMAIN seg \cup {new} |->
               IF a = new
               THEN Remainder(curr, arg)
               ELSE IF a = curr
               THEN [len |-> arg, free |-> FALSE, next |-> new]
               ELSE seg[a]]
  /\ HandOut(Payload(curr))
  /\ Return

MallocNext ==
  /\ pc = "malloc"
  /\ curr # Null
  /\ ~Exact(curr, arg)
  /\ ~Splittable(curr, arg)
  /\ curr' = seg[curr].next
  /\ UNCHANGED <<seg, pc, arg, live>>

(* "Sorry. No sufficient memory to allocate": malloc returns 0.            *)
MallocFail ==
  /\ pc = "malloc"
  /\ curr = Null
  /\ Return
  /\ UNCHANGED <<seg, live>>

(* free(p) is called: with a block of the caller's, or with the 0 that a   *)
(* failed malloc gave it.                                                  *)
CallFree(p) ==
  /\ pc = "idle"
  /\ pc' = "free"
  /\ curr' = Base
  /\ arg' = p
  /\ UNCHANGED <<seg, live>>

FreeNext ==
  /\ pc = "free"
  /\ curr # Null
  /\ Payload(curr) # arg
  /\ curr' = seg[curr].next
  /\ UNCHANGED <<seg, pc, arg, live>>

(* "Please provide a valid pointer allocated by malloc".                   *)
FreeInvalid ==
  /\ pc = "free"
  /\ curr = Null
  /\ Return
  /\ UNCHANGED <<seg, live>>

MergeStartAtFreed == curr
MergeStart == Base

(* The segment is found and marked; merge starts at free_seg.              *)
FreeMark ==
  /\ pc = "free"
  /\ curr # Null
  /\ Payload(curr) = arg
  /\ seg' = [seg EXCEPT ![curr].free = TRUE]
  /\ live' = [q \in DOMAIN live \ {arg} |-> live[q]]
  /\ pc' = "merge"
  /\ curr' = MergeStart
  /\ UNCHANGED arg

BothFree(s) == seg[s].free /\ seg[seg[s].next].free

(* Segment s once it has taken over its successor t, header and all.       *)
AbsorbedNoHeader(s, t) ==
  [len  |-> seg[s].len + seg[t].len,
   free |-> TRUE,
   next |-> seg[t].next]
Absorbed(s, t) ==
  [len  |-> seg[s].len + seg[t].len + HeaderSize,
   free |-> TRUE,
   next |-> seg[t].next]

MergeAbsorb ==
  LET nxt == seg[curr].next IN
  /\ pc = "merge"
  /\ curr # Null
  /\ nxt # Null
  /\ BothFree(curr)
  /\ seg' = [a \in DOMAIN seg \ {nxt} |->
               IF a = curr
               THEN Absorbed(curr, nxt)
               ELSE seg[a]]
  /\ UNCHANGED <<pc, curr, arg, live>>

MergeNextIfFree ==
  /\ pc = "merge"
  /\ curr # Null
  /\ seg[curr].next # Null
  /\ ~BothFree(curr)
  /\ curr' = IF seg[curr].free THEN seg[curr].next ELSE curr
  /\ UNCHANGED <<seg, pc, arg, live>>

MergeNext ==
  /\ pc = "merge"
  /\ curr # Null
  /\ seg[curr].next # Null
  /\ ~BothFree(curr)
  /\ curr' = seg[curr].next
  /\ UNCHANGED <<seg, pc, arg, live>>

MergeDone ==
  /\ pc = "merge"
  /\ ~(curr # Null /\ seg[curr].next # Null)
  /\ Return
  /\ UNCHANGED <<seg, live>>

(* The loops of the call in progress.                                      *)
Step ==
  \/ MallocExact \/ MallocSplit \/ MallocNext \/ MallocFail
  \/ FreeNext \/ FreeInvalid \/ FreeMark
  \/ MergeAbsorb \/ MergeNext \/ MergeDone

Next ==
  \/ \E n \in Requests : CallMalloc(n)
  \/ \E p \in DOMAIN live \cup {Null} : CallFree(p)
  \/ Step

Spec == Init /\ [][Next]_vars

(* Nothing in the loops waits: the processor goes on executing them.       *)
FairSpec == Spec /\ WF_vars(Step)
-----------------------------------------------------------------------------
(* Where the segment at s ends.                                            *)
Limit(s) == s + HeaderSize + seg[s].len

(* The list tiles the arena: it starts at Base, every segment's successor  *)
(* begins at the byte where the segment ends, and the last one ends with   *)
(* the arena.  split and merge neither lose a byte nor use one twice.      *)
Tiling ==
  /\ Base \in DOMAIN seg
  /\ \A s \in DOMAIN seg :
       IF seg[s].next = Null
       THEN Limit(s) = End
       ELSE seg[s].next = Limit(s) /\ seg[s].next \in DOMAIN seg

(* The segments not marked free are exactly those whose payload a caller   *)
(* holds, each with the size that caller asked for.                        *)
LiveIsUsed ==
  /\ \A s \in DOMAIN seg : seg[s].free <=> Payload(s) \notin DOMAIN live
  /\ \A p \in DOMAIN live :
       /\ p - HeaderSize \in DOMAIN seg
       /\ seg[p - HeaderSize].len = live[p]

(* Outside merge no two neighbours are both free: one pass of merge is     *)
(* enough to coalesce whatever free made free.                             *)
Coalesced ==
  pc # "merge" =>
    \A s \in DOMAIN seg : seg[s].next # Null => ~BothFree(s)

(* What makes those hold from one step to the next: segments do not        *)
(* overlap and leave no byte of the arena out, a walk has passed over only *)
(* segments of no use to it, and merge leaves no two free neighbours       *)
(* behind its cursor.                                                      *)
Disjoint ==
  \A s \in DOMAIN seg :
    /\ Base <= s /\ Limit(s) <= End
    /\ \A t \in DOMAIN seg : s < t => Limit(s) <= t

Covering ==
  \A b \in Base .. (End - 1) : \E s \in DOMAIN seg : s <= b /\ b < Limit(s)

Cursor ==
  /\ curr \in DOMAIN seg \cup {Null}
  /\ pc = "idle" => curr = Null /\ arg = 0
  /\ pc = "malloc" => arg \in Requests
  /\ pc = "free" => arg \in DOMAIN live \cup {Null}
  /\ pc = "merge" => curr # Null

Walked ==
  \A s \in DOMAIN seg : curr = Null \/ s < curr =>
    /\ pc = "malloc" => ~Exact(s, arg) /\ ~Splittable(s, arg)
    /\ pc = "free" => Payload(s) # arg

Merged ==
  \A s \in DOMAIN seg :
    seg[s].next # Null /\ (pc = "merge" => s < curr) => ~BothFree(s)

(* The inductive invariant.                                                *)
IInv ==
  /\ TypeOK
  /\ Tiling
  /\ LiveIsUsed
  /\ Disjoint
  /\ Covering
  /\ Cursor
  /\ Walked
  /\ Merged

(* The heap seen from outside.  A free has taken effect once the segment   *)
(* is marked; what merge does afterwards is invisible.                     *)
Abstract ==
  INSTANCE AbstractHeap WITH
    Lo <- Base, Hi <- End, Overhead <- HeaderSize, Requests <- Requests,
    live <- live,
    call <- IF pc \in {"idle", "merge"} THEN "none" ELSE pc,
    par <- IF pc \in {"idle", "merge"} THEN 0 ELSE arg

(* malloc and free do what AbstractHeap says: blocks never overlap, a free *)
(* removes one block and touches no other, and a request is refused only   *)
(* when no run of free bytes could have served it.                         *)
RefinesAbstract == Abstract!Spec

(* Every malloc and every free comes to an end: the list has no cycle.     *)
CallsReturn == pc # "idle" ~> pc = "idle"
=============================================================================
