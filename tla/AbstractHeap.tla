---------------------------- MODULE AbstractHeap ----------------------------
(***************************************************************************)
(* What heap.c promises to the rest of the kernel, without segments or     *)
(* lists: a set of blocks in an arena of bytes.  A caller has one request  *)
(* outstanding at a time.  A block costs Overhead bytes in front of its    *)
(* payload, blocks never share a byte, and malloc may refuse a request     *)
(* only when no run of free bytes is long enough for the block, its        *)
(* overhead and the overhead of a remainder.                               *)
(***************************************************************************)
EXTENDS Integers

CONSTANTS
  Lo,        \* first byte of the arena
  Hi,        \* first byte after the arena
  Overhead,  \* bytes in front of every payload
  Requests   \* the sizes callers ask for

VARIABLES
  live,      \* the blocks handed out: payload address -> size
  call,      \* the call in progress: "none", "malloc" or "free"
  par        \* its argument: a size or an address

vars == <<live, call, par>>

(* The bytes of block p of size n, overhead included.                      *)
Extent(p, n) == (p - Overhead) .. (p + n - 1)

(* No byte of S belongs to a block.                                        *)
Unoccupied(S) == \A q \in DOMAIN live : Extent(q, live[q]) \cap S = {}

(* A run of free bytes that is longer than n bytes and two overheads.      *)
RoomFor(n) ==
  \E a \in Lo .. (Hi - 1) :
    /\ a + n + 2 * Overhead < Hi
    /\ Unoccupied(a .. (a + n + 2 * Overhead))

Init ==
  /\ live = [p \in {} |-> 0]
  /\ call = "none"
  /\ par = 0

CallMalloc(n) ==
  /\ call = "none"
  /\ call' = "malloc"
  /\ par' = n
  /\ UNCHANGED live

(* The request is granted: any unoccupied place in the arena will do.      *)
Grant(p) ==
  /\ call = "malloc"
  /\ p - Overhead >= Lo
  /\ p + par <= Hi
  /\ p \notin DOMAIN live
  /\ Unoccupied(Extent(p, par))
  /\ live' = [q \in DOMAIN live \cup {p} |-> IF q = p THEN par ELSE live[q]]
  /\ call' = "none"
  /\ par' = 0

(* The request is refused, which needs a reason.                           *)
Refuse ==
  /\ call = "malloc"
  /\ ~RoomFor(par)
  /\ call' = "none"
  /\ par' = 0
  /\ UNCHANGED live

CallFree(p) ==
  /\ call = "none"
  /\ call' = "free"
  /\ par' = p
  /\ UNCHANGED live

(* Exactly the freed block disappears; a null pointer frees nothing.       *)
Release ==
  /\ call = "free"
  /\ live' = [q \in DOMAIN live \ {par} |-> live[q]]
  /\ call' = "none"
  /\ par' = 0

Next ==
  \/ \E n \in Requests : CallMalloc(n)
  \/ \E p \in Lo .. Hi : Grant(p)
  \/ Refuse
  \/ \E p \in DOMAIN live \cup {0} : CallFree(p)
  \/ Release

(* Every call is answered.                                                 *)
Fairness == WF_vars((\E p \in Lo .. Hi : Grant(p)) \/ Refuse \/ Release)

Spec == Init /\ [][Next]_vars

FairSpec == Spec /\ Fairness
=============================================================================
