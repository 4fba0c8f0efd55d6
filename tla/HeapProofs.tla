----------------------------- MODULE HeapProofs -----------------------------
(***************************************************************************)
(* Proofs about the heap, for every memory map entry, header size and set  *)
(* of request sizes: IInv is inductive, so the four invariants hold, and   *)
(* heap.c implements AbstractHeap.                                         *)
(***************************************************************************)
EXTENDS Heap, TLAPS

LEMMA ConstantsOK ==
  /\ Base \in Nat \ {0}
  /\ End \in Nat
  /\ HeaderSize \in Nat \ {0}
  /\ Base + HeaderSize <= End
  /\ Requests \subseteq Nat
BY HeapAssumption DEF Base, End

(* initialize_heap makes one free segment of the whole arena.              *)
LEMMA InitInv == Init => IInv
<1> SUFFICES ASSUME Init PROVE IInv
  OBVIOUS
<1> USE ConstantsOK DEF Init, Null
<1>1. seg[Base] = [len |-> End - Base - HeaderSize, free |-> TRUE, next |-> 0]
      /\ DOMAIN seg = {Base}
  OBVIOUS
<1>2. Limit(Base) = End
  BY <1>1 DEF Limit
<1>3. TypeOK
  BY <1>1 DEF TypeOK, Header
<1>4. Tiling
  BY <1>1, <1>2 DEF Tiling
<1>5. LiveIsUsed
  BY <1>1 DEF LiveIsUsed
<1>6. Disjoint
  BY <1>1, <1>2 DEF Disjoint
<1>7. Covering
  BY <1>1, <1>2 DEF Covering
<1>8. Cursor /\ Walked /\ Merged
  BY <1>1 DEF Cursor, Walked, Merged
<1>9. QED
  BY <1>3, <1>4, <1>5, <1>6, <1>7, <1>8 DEF IInv

(* What a walk needs to know of the segment under its cursor.              *)
LEMMA SegmentFacts ==
  ASSUME IInv, NEW s \in DOMAIN seg
  PROVE  /\ s \in Nat /\ s >= Base /\ s # Null
         /\ seg[s].len \in Nat
         /\ seg[s].free \in BOOLEAN
         /\ seg[s].next \in Nat
         /\ Limit(s) \in Nat /\ Limit(s) > s /\ Limit(s) <= End
         /\ seg[s].next # Null =>
              seg[s].next \in DOMAIN seg /\ seg[s].next = Limit(s)
         /\ seg[s].next = Null => Limit(s) = End
BY ConstantsOK DEF IInv, TypeOK, Header, Tiling, Disjoint, Limit, Null

(* A walk moves on: nothing lies between a segment and its successor.      *)
LEMMA NothingBetween ==
  ASSUME IInv, NEW s \in DOMAIN seg, NEW t \in DOMAIN seg,
         seg[s].next = Null \/ t < seg[s].next
  PROVE  t <= s
<1>1. /\ s \in Nat /\ t \in Nat /\ End \in Nat /\ Limit(s) \in Nat
      /\ Limit(t) > t /\ Limit(t) <= End /\ Limit(t) \in Nat
  BY SegmentFacts, ConstantsOK
<1>2. s < t => Limit(s) <= t
  BY DEF IInv, Disjoint
<1>3. QED
  BY <1>1, <1>2, SegmentFacts
-----------------------------------------------------------------------------
(* The steps that leave the segments and the blocks alone.                 *)
LEMMA CallMallocInv ==
  ASSUME IInv, NEW n \in Requests, CallMalloc(n)
  PROVE  IInv'
<1> USE ConstantsOK DEF CallMalloc, Null
<1>1. TypeOK' /\ Tiling' /\ LiveIsUsed' /\ Disjoint' /\ Covering'
  BY DEF IInv, TypeOK, Tiling, LiveIsUsed, Disjoint, Covering, Limit
<1>2. Cursor'
  BY DEF IInv, Tiling, Cursor
<1>3. Walked'
  BY SegmentFacts DEF Walked, Limit
<1>4. Merged'
  BY DEF IInv, Merged, BothFree
<1>5. QED
  BY <1>1, <1>2, <1>3, <1>4 DEF IInv

LEMMA CallFreeInv ==
  ASSUME IInv, NEW p \in DOMAIN live \cup {Null}, CallFree(p)
  PROVE  IInv'
<1> USE ConstantsOK DEF CallFree, Null
<1>1. TypeOK' /\ Tiling' /\ LiveIsUsed' /\ Disjoint' /\ Covering'
  BY DEF IInv, TypeOK, Tiling, LiveIsUsed, Disjoint, Covering, Limit
<1>2. Cursor'
  BY DEF IInv, Tiling, Cursor
<1>3. Walked'
  BY SegmentFacts DEF Walked, Limit
<1>4. Merged'
  BY DEF IInv, Merged, BothFree
<1>5. QED
  BY <1>1, <1>2, <1>3, <1>4 DEF IInv

LEMMA WalkInv ==
  ASSUME IInv, MallocNext \/ FreeNext \/ MergeNext
  PROVE  IInv'
<1> USE ConstantsOK DEF MallocNext, FreeNext, MergeNext
<1>1. curr \in DOMAIN seg /\ curr # Null
  BY DEF IInv, Cursor
<1>2. curr' = seg[curr].next /\ UNCHANGED <<seg, pc, arg, live>>
  OBVIOUS
<1>3. TypeOK' /\ Tiling' /\ LiveIsUsed' /\ Disjoint' /\ Covering'
  BY <1>1, <1>2, SegmentFacts
     DEF IInv, TypeOK, Tiling, LiveIsUsed, Disjoint, Covering, Limit
<1>4. Cursor'
  BY <1>1, <1>2, SegmentFacts DEF IInv, Cursor, Null
<1>5. ASSUME NEW s \in DOMAIN seg, curr' = Null \/ s < curr'
      PROVE  s = curr \/ s < curr
  BY <1>1, <1>2, <1>5, SegmentFacts, NothingBetween
<1>6. Walked'
  BY <1>1, <1>2, <1>5 DEF IInv, Walked, Exact, Splittable, Payload
<1>7. Merged'
  BY <1>1, <1>2, <1>5 DEF IInv, Merged, BothFree
<1>8. QED
  BY <1>3, <1>4, <1>6, <1>7 DEF IInv

LEMMA ReturnInv ==
  ASSUME IInv, MallocFail \/ FreeInvalid \/ MergeDone
  PROVE  IInv'
<1> USE ConstantsOK DEF MallocFail, FreeInvalid, MergeDone, Return, Null
<1>1. TypeOK' /\ Tiling' /\ LiveIsUsed' /\ Disjoint' /\ Covering'
  BY DEF IInv, TypeOK, Tiling, LiveIsUsed, Disjoint, Covering, Limit
<1>2. Cursor' /\ Walked'
  BY DEF Cursor, Walked
<1>3. ASSUME NEW s \in DOMAIN seg, seg[s].next # Null, pc = "merge"
      PROVE  s < curr
  <2>1. curr \in DOMAIN seg /\ seg[curr].next = Null
    BY <1>3 DEF IInv, Cursor
  <2>2. s <= curr /\ s # curr
    BY <1>3, <2>1, NothingBetween
  <2>3. QED
    BY <2>1, <2>2, SegmentFacts
<1>4. Merged'
  BY <1>3 DEF IInv, Merged, BothFree
<1>5. QED
  BY <1>1, <1>2, <1>4 DEF IInv
-----------------------------------------------------------------------------
(* The steps that change the segments.                                     *)
LEMMA MallocExactInv ==
  ASSUME IInv, MallocExact
  PROVE  IInv'
<1> USE ConstantsOK DEF MallocExact, Exact, Return, Null
<1>1. /\ curr \in DOMAIN seg /\ arg \in Requests /\ arg = seg[curr].len
      /\ seg[curr].free
  BY DEF IInv, Cursor
<1>2. /\ DOMAIN seg' = DOMAIN seg
      /\ seg'[curr].free = FALSE
      /\ \A s \in DOMAIN seg :
           /\ seg'[s].len = seg[s].len /\ seg'[s].next = seg[s].next
           /\ s # curr => seg'[s] = seg[s]
  BY <1>1 DEF IInv, TypeOK, Header
<1>3. /\ DOMAIN live' = DOMAIN live \cup {Payload(curr)}
      /\ live'[Payload(curr)] = arg
      /\ \A q \in DOMAIN live : q # Payload(curr) => live'[q] = live[q]
  BY DEF HandOut
<1>4. TypeOK'
  <2>1. seg' \in [DOMAIN seg' -> Header]
    BY <1>1 DEF IInv, TypeOK, Header
  <2>2. Payload(curr) \in Nat
    BY <1>1 DEF IInv, TypeOK, Payload
  <2>3. live' \in [DOMAIN live' -> Requests] /\ DOMAIN live' \subseteq Nat
    BY <1>1, <2>2 DEF IInv, TypeOK, HandOut
  <2>4. QED
    BY <1>2, <2>1, <2>3 DEF IInv, TypeOK
<1>5. Tiling' /\ Disjoint' /\ Covering'
  BY <1>2 DEF IInv, Tiling, Disjoint, Covering, Limit
<1>6. LiveIsUsed'
  <2>1. \A s \in DOMAIN seg : s # curr => Payload(s) # Payload(curr)
    BY <1>1 DEF IInv, TypeOK, Payload
  <2>2. Payload(curr) - HeaderSize = curr
    BY <1>1 DEF IInv, TypeOK, Payload
  <2>3. \A s \in DOMAIN seg' : seg'[s].free <=> Payload(s) \notin DOMAIN live'
    BY <1>1, <1>2, <1>3, <2>1 DEF IInv, LiveIsUsed
  <2>4. \A p \in DOMAIN live' : /\ p - HeaderSize \in DOMAIN seg'
                               /\ seg'[p - HeaderSize].len = live'[p]
    BY <1>1, <1>2, <1>3, <2>2 DEF IInv, LiveIsUsed
  <2>5. QED
    BY <2>3, <2>4 DEF LiveIsUsed, Payload
<1>7. Cursor' /\ Walked'
  BY DEF Cursor, Walked
<1>8. Merged'
  <2>1. \A s \in DOMAIN seg : seg[s].next # Null => seg[s].next \in DOMAIN seg
    BY SegmentFacts
  <2>2. QED
    BY <1>1, <1>2, <2>1 DEF IInv, Merged, BothFree
<1>9. QED
  BY <1>4, <1>5, <1>6, <1>7, <1>8 DEF IInv

LEMMA FreeMarkInv ==
  ASSUME IInv, FreeMark
  PROVE  IInv'
<1> USE ConstantsOK DEF FreeMark, MergeStart, Null
<1>1. /\ curr \in DOMAIN seg /\ arg = Payload(curr)
      /\ Base \in DOMAIN seg
  BY DEF IInv, Cursor, Tiling
<1>2. /\ DOMAIN seg' = DOMAIN seg
      /\ seg'[curr].free = TRUE
      /\ \A s \in DOMAIN seg :
           /\ seg'[s].len = seg[s].len /\ seg'[s].next = seg[s].next
           /\ s # curr => seg'[s] = seg[s]
  BY <1>1 DEF IInv, TypeOK, Header
<1>3. /\ DOMAIN live' = DOMAIN live \ {Payload(curr)}
      /\ \A q \in DOMAIN live' : live'[q] = live[q]
  BY <1>1
<1>4. TypeOK'
  <2>1. seg' \in [DOMAIN seg' -> Header]
    BY <1>1 DEF IInv, TypeOK, Header
  <2>2. live' \in [DOMAIN live' -> Requests] /\ DOMAIN live' \subseteq Nat
    BY <1>1 DEF IInv, TypeOK
  <2>3. QED
    BY <1>2, <2>1, <2>2 DEF IInv, TypeOK
<1>5. Tiling' /\ Disjoint' /\ Covering'
  BY <1>2 DEF IInv, Tiling, Disjoint, Covering, Limit
<1>6. LiveIsUsed'
  <2>1. \A s \in DOMAIN seg : s # curr => Payload(s) # Payload(curr)
    BY <1>1 DEF IInv, TypeOK, Payload
  <2>2. \A s \in DOMAIN seg' : seg'[s].free <=> Payload(s) \notin DOMAIN live'
    BY <1>1, <1>2, <1>3, <2>1 DEF IInv, LiveIsUsed
  <2>3. \A p \in DOMAIN live' : /\ p - HeaderSize \in DOMAIN seg'
                               /\ seg'[p - HeaderSize].len = live'[p]
    BY <1>1, <1>2, <1>3 DEF IInv, LiveIsUsed
  <2>4. QED
    BY <2>2, <2>3 DEF LiveIsUsed, Payload
<1>7. Cursor' /\ Walked'
  BY <1>1, <1>2 DEF IInv, Disjoint, TypeOK, Cursor, Walked
<1>8. Merged'
  BY <1>2 DEF IInv, Disjoint, TypeOK, Merged
<1>9. QED
  BY <1>4, <1>5, <1>6, <1>7, <1>8 DEF IInv
LEMMA MallocSplitInv ==
  ASSUME IInv, MallocSplit
  PROVE  IInv'
<1> DEFINE new == Payload(curr) + arg
           after(s) == s + HeaderSize + seg'[s].len
<1> USE ConstantsOK DEF Null
<1>1. /\ curr \in DOMAIN seg /\ curr \in Nat /\ arg \in Requests /\ arg \in Nat
      /\ seg[curr].free /\ seg[curr].len \in Nat
      /\ seg[curr].len > arg + HeaderSize
      /\ seg[curr].next \in Nat
      /\ live' = [q \in DOMAIN live \cup {Payload(curr)} |->
                   IF q = Payload(curr) THEN arg ELSE live[q]]
      /\ pc' = "idle" /\ curr' = Null /\ arg' = 0
  BY SegmentFacts DEF IInv, TypeOK, Cursor, MallocSplit, Splittable, HandOut, Return
<1>2. /\ new \in Nat /\ curr < new /\ new + HeaderSize < Limit(curr)
      /\ new # Null
  BY <1>1 DEF Payload, Limit
<1>3. \A t \in DOMAIN seg : t # new /\ (curr < t => new < t)
  <2> TAKE t \in DOMAIN seg
  <2>1. t \in Nat /\ Limit(curr) \in Nat
    BY <1>1, SegmentFacts
  <2>2. curr < t => Limit(curr) <= t
    BY <1>1 DEF IInv, Disjoint
  <2>3. QED
    BY <1>2, <2>1, <2>2
<1>4. /\ DOMAIN seg' = DOMAIN seg \cup {new}
      /\ seg'[curr] = [len |-> arg, free |-> FALSE, next |-> new]
      /\ seg'[new] = [len |-> seg[curr].len - arg - HeaderSize,
                      free |-> TRUE, next |-> seg[curr].next]
      /\ \A s \in DOMAIN seg : s # curr => seg'[s] = seg[s]
  BY <1>1, <1>3 DEF MallocSplit, Remainder
<1>5. /\ after(curr) = new
      /\ after(new) = Limit(curr)
      /\ \A s \in DOMAIN seg : s # curr => after(s) = Limit(s)
  <2>1. curr + HeaderSize + seg'[curr].len = new
    BY <1>1, <1>4 DEF Payload
  <2>2. new + HeaderSize + seg'[new].len = Limit(curr)
    BY <1>1, <1>2, <1>4 DEF Payload, Limit
  <2>3. QED
    BY <1>4, <2>1, <2>2 DEF Limit
<1> HIDE DEF new, after
<1>6. TypeOK'
  <2>1. seg'[curr] \in Header /\ seg'[new] \in Header
    BY <1>1, <1>2, <1>4 DEF Header, Payload, Limit
  <2>2. \A s \in DOMAIN seg' : seg'[s] \in Header /\ s \in Nat
    BY <1>1, <1>2, <1>4, <2>1 DEF IInv, TypeOK
  <2>3. seg' = [s \in DOMAIN seg' |-> seg'[s]]
    BY <1>1 DEF MallocSplit
  <2>4. Payload(curr) \in Nat
    BY <1>1 DEF Payload
  <2>5. live' \in [DOMAIN live' -> Requests] /\ DOMAIN live' \subseteq Nat
    BY <1>1, <2>4 DEF IInv, TypeOK
  <2>6. QED
    BY <1>1, <2>2, <2>3, <2>5 DEF TypeOK
<1>7. Tiling'
  <2>1. \A s \in DOMAIN seg' :
          IF seg'[s].next = Null
          THEN after(s) = End
          ELSE seg'[s].next = after(s) /\ seg'[s].next \in DOMAIN seg'
    BY <1>1, <1>2, <1>4, <1>5 DEF IInv, Tiling
  <2>2. QED
    BY <1>4, <2>1 DEF IInv, Tiling, Limit, after
<1>8. Disjoint'
  <2>1. \A s \in DOMAIN seg' : Base <= s /\ after(s) <= End
    BY <1>1, <1>2, <1>4, <1>5, SegmentFacts
  <2>2. ASSUME NEW s \in DOMAIN seg', NEW t \in DOMAIN seg', s < t
        PROVE  after(s) <= t
    <3>1. CASE s = curr
      BY <1>1, <1>2, <1>3, <1>4, <1>5, <2>2, <3>1, SegmentFacts
    <3>2. CASE s = new
      <4>1. t \in DOMAIN seg /\ curr < t
        BY <1>1, <1>2, <1>4, <2>2, <3>2, SegmentFacts
      <4>2. QED
        BY <1>1, <1>5, <3>2, <4>1 DEF IInv, Disjoint
    <3>3. CASE s # curr /\ s # new
      <4>1. s \in DOMAIN seg /\ after(s) = Limit(s)
        BY <1>4, <1>5, <3>3
      <4>2. CASE t = new
        <5>1. s < curr
          BY <1>1, <1>2, <1>3, <2>2, <3>3, <4>1, <4>2, SegmentFacts
        <5>2. Limit(s) <= curr
          BY <1>1, <4>1, <5>1 DEF IInv, Disjoint
        <5>3. QED
          BY <1>1, <1>2, <4>1, <4>2, <5>2, SegmentFacts
      <4>3. CASE t # new
        BY <1>4, <2>2, <4>1, <4>3 DEF IInv, Disjoint
      <4>4. QED
        BY <4>2, <4>3
    <3>4. QED
      BY <3>1, <3>2, <3>3
  <2>3. QED
    BY <2>1, <2>2 DEF Disjoint, Limit, after
<1>9. Covering'
  <2>1. ASSUME NEW b \in Base .. (End - 1)
        PROVE  \E s \in DOMAIN seg' : s <= b /\ b < after(s)
    <3>1. PICK s \in DOMAIN seg : s <= b /\ b < Limit(s)
      BY DEF IInv, Covering
    <3>2. CASE s # curr
      BY <1>4, <1>5, <3>1, <3>2
    <3>3. CASE s = curr
      BY <1>1, <1>2, <1>4, <1>5, <3>1, <3>3
    <3>4. QED
      BY <3>2, <3>3
  <2>2. QED
    BY <2>1 DEF Covering, Limit, after
<1>10. LiveIsUsed'
  <2>1. \A s, t \in DOMAIN seg' : Payload(s) = Payload(t) => s = t
    BY <1>2, <1>4 DEF IInv, TypeOK, Payload
  <2>2. Payload(new) \notin DOMAIN live
    BY <1>2, <1>3 DEF IInv, LiveIsUsed, Payload
  <2>3. Payload(curr) - HeaderSize = curr
    BY <1>1 DEF Payload
  <2>4. \A s \in DOMAIN seg' : seg'[s].free <=> Payload(s) \notin DOMAIN live'
    <3>1. ASSUME NEW s \in DOMAIN seg', s # curr, s # new
          PROVE  seg'[s].free <=> Payload(s) \notin DOMAIN live'
      BY <1>1, <1>4, <2>1, <3>1 DEF IInv, LiveIsUsed
    <3>2. seg'[new].free /\ Payload(new) \notin DOMAIN live'
      BY <1>1, <1>2, <1>4, <2>1, <2>2
    <3>3. ~seg'[curr].free /\ Payload(curr) \in DOMAIN live'
      BY <1>1, <1>4
    <3>4. QED
      BY <3>1, <3>2, <3>3
  <2>5. \A p \in DOMAIN live' : /\ p - HeaderSize \in DOMAIN seg'
                               /\ seg'[p - HeaderSize].len = live'[p]
    <3>1. ASSUME NEW p \in DOMAIN live, p # Payload(curr)
          PROVE  /\ p - HeaderSize \in DOMAIN seg'
                 /\ seg'[p - HeaderSize].len = live'[p]
      <4>1. p - HeaderSize \in DOMAIN seg /\ p \in Nat
        BY DEF IInv, LiveIsUsed, TypeOK
      <4>2. p - HeaderSize # curr
        BY <1>1, <3>1, <4>1 DEF Payload
      <4>3. QED
        BY <1>1, <1>4, <3>1, <4>1, <4>2 DEF IInv, LiveIsUsed
    <3>2. /\ seg'[Payload(curr) - HeaderSize].len = live'[Payload(curr)]
          /\ Payload(curr) - HeaderSize \in DOMAIN seg'
      BY <1>1, <1>4, <2>3
    <3>3. QED
      BY <1>1, <3>1, <3>2
  <2>6. QED
    BY <2>4, <2>5 DEF LiveIsUsed, Payload
<1>11. Cursor' /\ Walked'
  BY <1>1 DEF Cursor, Walked
<1>12. Merged'
  <2>1. \A s \in DOMAIN seg : seg[s].next # Null => seg[s].next \in DOMAIN seg
    BY SegmentFacts
  <2>2. pc = "malloc"
    BY DEF MallocSplit
  <2>3. \A s \in DOMAIN seg : seg[s].next # Null => ~BothFree(s)
    BY <2>2 DEF IInv, Merged
  <2>4. \A s \in DOMAIN seg' : seg'[s].next # Null => ~BothFree(s)'
    <3>1. \A s \in DOMAIN seg : seg'[s].free => seg[s].free /\ seg'[s] = seg[s]
      BY <1>4
    <3>2. ASSUME NEW s \in DOMAIN seg, s # curr, seg'[s].next # Null
          PROVE  ~(seg'[s].free /\ seg'[seg'[s].next].free)
      BY <1>4, <2>1, <2>3, <3>1, <3>2 DEF BothFree
    <3>3. ~seg'[curr].free
      BY <1>4
    <3>4. seg'[new].next # Null => ~seg'[seg'[new].next].free
      BY <1>1, <1>4, <2>1, <2>3, <3>1 DEF BothFree
    <3>5. QED
      BY <1>4, <3>2, <3>3, <3>4 DEF BothFree
  <2>5. QED
    BY <2>4 DEF Merged
<1>13. QED
  BY <1>6, <1>7, <1>8, <1>9, <1>10, <1>11, <1>12 DEF IInv
LEMMA MergeAbsorbInv ==
  ASSUME IInv, MergeAbsorb
  PROVE  IInv'
<1> DEFINE nxt == seg[curr].next
           after(s) == s + HeaderSize + seg'[s].len
<1> USE ConstantsOK DEF Null
<1>1. /\ curr \in DOMAIN seg /\ curr \in Nat /\ pc = "merge"
      /\ nxt \in DOMAIN seg /\ nxt \in Nat /\ nxt # Null
      /\ seg[curr].free /\ seg[nxt].free
      /\ seg[curr].len \in Nat /\ seg[nxt].len \in Nat
      /\ seg[nxt].next \in Nat
      /\ nxt = Limit(curr) /\ curr < nxt
      /\ pc' = pc /\ curr' = curr /\ arg' = arg /\ live' = live
  <2>1. /\ curr \in DOMAIN seg /\ nxt # Null /\ BothFree(curr) /\ pc = "merge"
        /\ pc' = pc /\ curr' = curr /\ arg' = arg /\ live' = live
    BY DEF IInv, Cursor, MergeAbsorb
  <2>2. nxt \in DOMAIN seg
    BY <2>1, SegmentFacts
  <2>3. QED
    BY <2>1, <2>2, SegmentFacts DEF BothFree
<1>2. /\ DOMAIN seg' = DOMAIN seg \ {nxt}
      /\ seg'[curr] = [len  |-> seg[curr].len + seg[nxt].len + HeaderSize,
                       free |-> TRUE, next |-> seg[nxt].next]
      /\ \A s \in DOMAIN seg : s # curr /\ s # nxt => seg'[s] = seg[s]
      /\ curr \in DOMAIN seg'
  BY <1>1 DEF MergeAbsorb, Absorbed
<1>3. /\ after(curr) = Limit(nxt)
      /\ \A s \in DOMAIN seg' : s # curr => after(s) = Limit(s)
  <2>1. after(curr) = Limit(nxt)
    BY <1>1, <1>2 DEF Limit
  <2>2. QED
    BY <1>1, <1>2, <2>1 DEF Limit
(* Only curr leads to the segment that is absorbed.                        *)
<1>4. \A s \in DOMAIN seg : s # curr => seg[s].next # nxt
  <2> SUFFICES ASSUME NEW s \in DOMAIN seg, s # curr, seg[s].next = nxt
               PROVE  FALSE
    OBVIOUS
  <2>1. /\ Limit(s) = nxt /\ s < Limit(s) /\ s \in Nat
    BY <1>1, SegmentFacts
  <2>2. s < curr => Limit(s) <= curr
    BY <1>1 DEF IInv, Disjoint
  <2>3. curr < s => Limit(curr) <= s
    BY <1>1 DEF IInv, Disjoint
  <2>4. QED
    BY <1>1, <2>1, <2>2, <2>3
<1>5. Base \in DOMAIN seg'
  <2>1. Base \in DOMAIN seg /\ Base <= curr
    BY <1>1, SegmentFacts DEF IInv, Tiling
  <2>2. QED
    BY <1>1, <1>2, <2>1
<1>6. seg[nxt].next # Null => /\ seg[nxt].next \in DOMAIN seg'
                              /\ seg[nxt].next = Limit(nxt)
  BY <1>1, <1>2, SegmentFacts
<1> HIDE DEF nxt, after
<1>7. TypeOK'
  <2>1. seg'[curr] \in Header
    BY <1>1, <1>2 DEF Header
  <2>2. \A s \in DOMAIN seg' : seg'[s] \in Header /\ s \in Nat
    BY <1>1, <1>2, <2>1 DEF IInv, TypeOK
  <2>3. seg' = [s \in DOMAIN seg' |-> seg'[s]]
    BY DEF MergeAbsorb
  <2>4. QED
    BY <1>1, <2>2, <2>3 DEF IInv, TypeOK
<1>8. Tiling'
  <2>1. ASSUME NEW s \in DOMAIN seg'
        PROVE  IF seg'[s].next = Null
               THEN after(s) = End
               ELSE seg'[s].next = after(s) /\ seg'[s].next \in DOMAIN seg'
    <3>1. CASE s = curr
      BY <1>1, <1>2, <1>3, <1>6, <3>1, SegmentFacts
    <3>2. CASE s # curr
      BY <1>1, <1>2, <1>3, <1>4, <3>2, SegmentFacts
    <3>3. QED
      BY <3>1, <3>2
  <2>2. QED
    BY <1>5, <2>1 DEF Tiling, Limit, after
<1>9. Disjoint'
  <2>1. \A s \in DOMAIN seg' : Base <= s /\ after(s) <= End
    BY <1>1, <1>2, <1>3, SegmentFacts
  <2>2. ASSUME NEW s \in DOMAIN seg', NEW t \in DOMAIN seg', s < t
        PROVE  after(s) <= t
    <3>1. CASE s = curr
      <4>1. nxt <= t /\ t # nxt /\ t \in DOMAIN seg
        BY <1>1, <1>2, <2>2, <3>1 DEF IInv, Disjoint
      <4>2. nxt < t
        BY <1>1, <4>1, SegmentFacts
      <4>3. QED
        BY <1>1, <1>3, <3>1, <4>1, <4>2 DEF IInv, Disjoint
    <3>2. CASE s # curr
      BY <1>2, <1>3, <2>2, <3>2 DEF IInv, Disjoint
    <3>3. QED
      BY <3>1, <3>2
  <2>3. QED
    BY <2>1, <2>2 DEF Disjoint, Limit, after
<1>10. Covering'
  <2>1. ASSUME NEW b \in Base .. (End - 1)
        PROVE  \E s \in DOMAIN seg' : s <= b /\ b < after(s)
    <3>1. PICK s \in DOMAIN seg : s <= b /\ b < Limit(s)
      BY DEF IInv, Covering
    <3>2. b \in Int /\ Limit(nxt) \in Nat /\ nxt < Limit(nxt)
      BY <1>1, SegmentFacts
    <3>3. CASE s = curr \/ s = nxt
      <4>1. curr <= b /\ b < after(curr)
        BY <1>1, <1>3, <3>1, <3>2, <3>3
      <4>2. QED
        BY <1>2, <4>1
    <3>4. CASE s # curr /\ s # nxt
      BY <1>2, <1>3, <3>1, <3>4
    <3>5. QED
      BY <3>3, <3>4
  <2>2. QED
    BY <2>1 DEF Covering, Limit, after
<1>11. LiveIsUsed'
  <2>1. Payload(nxt) \notin DOMAIN live /\ Payload(curr) \notin DOMAIN live
    BY <1>1 DEF IInv, LiveIsUsed
  <2>2. \A s \in DOMAIN seg' : seg'[s].free <=> Payload(s) \notin DOMAIN live'
    BY <1>1, <1>2, <2>1 DEF IInv, LiveIsUsed
  <2>3. ASSUME NEW p \in DOMAIN live
        PROVE  /\ p - HeaderSize \in DOMAIN seg'
               /\ seg'[p - HeaderSize].len = live'[p]
    <3>1. p - HeaderSize \in DOMAIN seg /\ p \in Nat
      BY DEF IInv, LiveIsUsed, TypeOK
    <3>2. Payload(p - HeaderSize) = p
      BY <3>1 DEF Payload
    <3>3. p - HeaderSize # nxt /\ p - HeaderSize # curr
      BY <2>1, <3>2
    <3>4. QED
      BY <1>1, <1>2, <3>1, <3>3 DEF IInv, LiveIsUsed
  <2>4. QED
    BY <1>1, <2>2, <2>3 DEF LiveIsUsed, Payload
<1>12. Cursor'
  BY <1>1, <1>2 DEF IInv, Cursor
<1>13. Walked'
  BY <1>1 DEF Walked
<1>14. Merged'
  <2>1. ASSUME NEW s \in DOMAIN seg', seg'[s].next # Null, s < curr
        PROVE  ~(seg'[s].free /\ seg'[seg'[s].next].free)
    <3>1. s \in DOMAIN seg /\ s # curr /\ s # nxt /\ seg'[s] = seg[s]
      BY <1>1, <1>2, <2>1, SegmentFacts
    <3>2. ~(seg[s].free /\ seg[seg[s].next].free)
      BY <1>1, <2>1, <3>1 DEF IInv, Merged, BothFree
    <3>3. seg[s].next \in DOMAIN seg /\ seg[s].next # nxt
      BY <1>4, <2>1, <3>1, SegmentFacts
    <3>4. seg'[seg[s].next].free <=> seg[seg[s].next].free
      <4>1. CASE seg[s].next = curr
        BY <1>1, <1>2, <4>1
      <4>2. CASE seg[s].next # curr
        <5>1. seg'[seg[s].next] = seg[seg[s].next]
          BY <1>2, <3>3, <4>2
        <5>2. QED
          BY <5>1
      <4>3. QED
        BY <4>1, <4>2
    <3>5. QED
      BY <3>1, <3>2, <3>4
  <2>2. QED
    BY <1>1, <2>1 DEF Merged, BothFree
<1>15. QED
  BY <1>7, <1>8, <1>9, <1>10, <1>11, <1>12, <1>13, <1>14 DEF IInv
-----------------------------------------------------------------------------
(* No step of a call, and no call, breaks the invariant.                   *)
LEMMA NextInv == IInv /\ [Next]_vars => IInv'
<1> SUFFICES ASSUME IInv, [Next]_vars PROVE IInv'
  OBVIOUS
<1>1. CASE Step
  BY <1>1, WalkInv, ReturnInv, MallocExactInv, FreeMarkInv, MallocSplitInv,
     MergeAbsorbInv DEF Step
<1>2. CASE \E n \in Requests : CallMalloc(n)
  BY <1>2, CallMallocInv
<1>3. CASE \E p \in DOMAIN live \cup {Null} : CallFree(p)
  BY <1>3, CallFreeInv
<1>4. CASE UNCHANGED vars
  BY <1>4 DEF vars, IInv, TypeOK, Tiling, LiveIsUsed, Disjoint, Covering,
     Cursor, Walked, Merged, Limit, BothFree, Exact, Splittable, Payload
<1>5. QED
  BY <1>1, <1>2, <1>3, <1>4 DEF Next

THEOREM Invariance == Spec => []IInv
BY InitInv, NextInv, PTL DEF Spec
-----------------------------------------------------------------------------
(* In every reachable state the heap is well formed: the types are right,  *)
(* the list tiles the arena, exactly the blocks callers hold are in use,   *)
(* and merge leaves no two free neighbours behind.                         *)
THEOREM TypeCorrect == Spec => []TypeOK
BY Invariance, PTL DEF IInv

THEOREM HeapTiled == Spec => []Tiling
BY Invariance, PTL DEF IInv

THEOREM LiveExact == Spec => []LiveIsUsed
BY Invariance, PTL DEF IInv

THEOREM HeapCoalesced == Spec => []Coalesced
<1>1. IInv => Coalesced
  BY DEF IInv, Merged, Coalesced
<1>2. QED
  BY <1>1, Invariance, PTL
-----------------------------------------------------------------------------
(* A block a caller holds occupies exactly the bytes of its segment.       *)
LEMMA LiveExtent ==
  ASSUME IInv, NEW p \in DOMAIN live
  PROVE  \E s \in DOMAIN seg :
           /\ ~seg[s].free /\ p = Payload(s)
           /\ Abstract!Extent(p, live[p]) = s .. (Limit(s) - 1)
<1>1. p - HeaderSize \in DOMAIN seg /\ p \in Nat
      /\ seg[p - HeaderSize].len = live[p]
  BY DEF IInv, LiveIsUsed, TypeOK
<1>2. p = Payload(p - HeaderSize)
  BY <1>1, ConstantsOK DEF Payload
<1>3. ~seg[p - HeaderSize].free
  BY <1>1, <1>2 DEF IInv, LiveIsUsed
<1>4. live[p] \in Nat /\ Limit(p - HeaderSize) \in Nat
  BY <1>1, SegmentFacts
<1>5. Limit(p - HeaderSize) = p + live[p]
  BY <1>1, ConstantsOK DEF Limit
<1>6. Abstract!Extent(p, live[p]) = (p - HeaderSize) .. (Limit(p - HeaderSize) - 1)
  BY <1>1, <1>4, <1>5, ConstantsOK DEF Abstract!Extent
<1>7. QED
  BY <1>1, <1>2, <1>3, <1>6

(* No block touches a free segment.                                        *)
LEMMA FreeIsUnoccupied ==
  ASSUME IInv, NEW s \in DOMAIN seg, seg[s].free,
         NEW lo \in Int, NEW hi \in Int, s <= lo, hi < Limit(s)
  PROVE  Abstract!Unoccupied(lo .. hi) /\ Payload(s) \notin DOMAIN live
<1>1. ASSUME NEW q \in DOMAIN live
      PROVE  Abstract!Extent(q, live[q]) \cap (lo .. hi) = {}
  <2>1. PICK t \in DOMAIN seg :
               /\ ~seg[t].free /\ q = Payload(t)
               /\ Abstract!Extent(q, live[q]) = t .. (Limit(t) - 1)
    BY LiveExtent
  <2>2. s < t \/ t < s
    BY <2>1, SegmentFacts
  <2>3. Limit(s) <= t \/ Limit(t) <= s
    BY <2>2 DEF IInv, Disjoint
  <2>4. QED
    BY <2>1, <2>3, SegmentFacts
<1>2. Payload(s) \notin DOMAIN live
  BY DEF IInv, LiveIsUsed
<1>3. QED
  BY <1>1, <1>2 DEF Abstract!Unoccupied

(* When no segment fits, no run of free bytes would have been long enough: *)
(* such a run lies in one segment, because free segments do not touch.     *)
LEMMA RefusalJustified ==
  ASSUME IInv, MallocFail
  PROVE  ~Abstract!RoomFor(arg)
<1> SUFFICES ASSUME NEW a \in Base .. (End - 1),
                    a + arg + 2 * HeaderSize < End,
                    Abstract!Unoccupied(a .. (a + arg + 2 * HeaderSize))
             PROVE  FALSE
  BY DEF Abstract!RoomFor
<1> DEFINE run == a .. (a + arg + 2 * HeaderSize)
<1>1. arg \in Nat /\ pc = "malloc" /\ curr = Null /\ a \in Nat
  BY ConstantsOK DEF IInv, TypeOK, MallocFail
<1>2. ASSUME NEW s \in DOMAIN seg, NEW b \in run, s <= b, b < Limit(s)
      PROVE  seg[s].free
  <2>1. SUFFICES ASSUME ~seg[s].free PROVE FALSE
    OBVIOUS
  <2>2. /\ Payload(s) \in DOMAIN live
        /\ Payload(s) - HeaderSize = s
    BY <2>1, SegmentFacts, ConstantsOK DEF IInv, LiveIsUsed, Payload
  <2>3. live[Payload(s)] = seg[s].len
    BY <2>2 DEF IInv, LiveIsUsed
  <2>4. b \in Abstract!Extent(Payload(s), live[Payload(s)])
    <3>1. /\ s \in Nat /\ seg[s].len \in Nat /\ HeaderSize \in Nat
          /\ b \in Int
      BY <1>1, <1>2, SegmentFacts, ConstantsOK
    <3>2. s <= b /\ b <= s + HeaderSize + seg[s].len - 1
      BY <1>2, <3>1 DEF Limit
    <3>3. Payload(s) + seg[s].len - 1 = s + HeaderSize + seg[s].len - 1
      BY <3>1 DEF Payload
    <3>4. b \in s .. (Payload(s) + seg[s].len - 1)
      BY <3>1, <3>2, <3>3
    <3>5. QED
      BY <2>2, <2>3, <3>4 DEF Abstract!Extent
  <2>5. QED
    BY <2>2, <2>4 DEF Abstract!Unoccupied
<1>3. PICK s \in DOMAIN seg : s <= a /\ a < Limit(s)
  BY DEF IInv, Covering
<1>4. a \in run
  BY <1>1, ConstantsOK
<1>5. seg[s].free
  BY <1>2, <1>3, <1>4
<1>6. CASE Limit(s) <= a + arg + 2 * HeaderSize
  <2>1. /\ Limit(s) \in run
        /\ seg[s].next \in DOMAIN seg /\ seg[s].next = Limit(s)
        /\ seg[s].next # Null
    BY <1>1, <1>3, <1>6, SegmentFacts, ConstantsOK
  <2>2. seg[seg[s].next].free
    BY <1>2, <2>1, SegmentFacts
  <2>3. QED
    BY <1>1, <1>5, <2>1, <2>2 DEF IInv, Merged, BothFree
<1>7. CASE a + arg + 2 * HeaderSize < Limit(s)
  <2>1. seg[s].len > arg + HeaderSize
    BY <1>1, <1>3, <1>7, SegmentFacts, ConstantsOK DEF Limit
  <2>2. QED
    BY <1>1, <1>5, <2>1 DEF IInv, Walked, Splittable
<1>8. QED
  BY <1>1, <1>6, <1>7, SegmentFacts, ConstantsOK
(* Handing out n bytes of a free segment that has them is a Grant.         *)
LEMMA HandOutIsGrant ==
  ASSUME IInv, MallocExact \/ MallocSplit
  PROVE  Abstract!Next
<1>1. /\ curr \in DOMAIN seg /\ seg[curr].free /\ arg \in Requests
      /\ arg <= seg[curr].len /\ pc = "malloc"
      /\ pc' = "idle" /\ arg' = 0
      /\ live' = [q \in DOMAIN live \cup {Payload(curr)} |->
                   IF q = Payload(curr) THEN arg ELSE live[q]]
  BY ConstantsOK, SegmentFacts
     DEF IInv, Cursor, MallocExact, MallocSplit, Exact, Splittable, HandOut, Return
<1>2. /\ Payload(curr) \in Base .. End
      /\ Payload(curr) - HeaderSize = curr
      /\ Payload(curr) + arg <= Limit(curr)
  BY <1>1, SegmentFacts, ConstantsOK DEF Payload, Limit
<1>3. /\ Abstract!Unoccupied(curr .. (Payload(curr) + arg - 1))
      /\ Payload(curr) \notin DOMAIN live
  BY <1>1, <1>2, FreeIsUnoccupied, SegmentFacts, ConstantsOK
<1>4. Abstract!Extent(Payload(curr), arg) = curr .. (Payload(curr) + arg - 1)
  BY <1>2 DEF Abstract!Extent
<1>5. Abstract!Grant(Payload(curr))
  BY <1>1, <1>2, <1>3, <1>4, SegmentFacts, ConstantsOK DEF Abstract!Grant
<1>6. QED
  BY <1>2, <1>5 DEF Abstract!Next

(* Every step of the loops is a step of the abstract heap or invisible.    *)
LEMMA StepRefines ==
  ASSUME IInv, Step
  PROVE  Abstract!Next \/ UNCHANGED Abstract!vars
<1>1. CASE MallocExact \/ MallocSplit
  BY <1>1, HandOutIsGrant
<1>2. CASE MallocNext \/ FreeNext \/ MergeNext \/ MergeAbsorb \/ MergeDone
  BY <1>2 DEF MallocNext, FreeNext, MergeNext, MergeAbsorb, MergeDone, Return,
     Abstract!vars
<1>3. CASE MallocFail
  <2>1. ~Abstract!RoomFor(arg)
    BY <1>3, RefusalJustified
  <2>2. Abstract!Refuse
    BY <1>3, <2>1 DEF MallocFail, Return, Abstract!Refuse
  <2>3. QED
    BY <2>2 DEF Abstract!Next
<1>4. CASE FreeInvalid
  <2>1. \A s \in DOMAIN seg : Payload(s) # arg
    BY <1>4 DEF IInv, Walked, FreeInvalid
  <2>2. arg \notin DOMAIN live
    <3>1. SUFFICES ASSUME arg \in DOMAIN live PROVE FALSE
      OBVIOUS
    <3>2. PICK s \in DOMAIN seg : arg = Payload(s)
      BY <3>1, LiveExtent
    <3>3. QED
      BY <2>1, <3>2
  <2>3. live = [q \in DOMAIN live \ {arg} |-> live[q]]
    BY <2>2 DEF IInv, TypeOK
  <2>4. Abstract!Release
    BY <1>4, <2>3 DEF FreeInvalid, Return, Abstract!Release
  <2>5. QED
    BY <2>4 DEF Abstract!Next
<1>5. CASE FreeMark
  <2>1. Abstract!Release
    BY <1>5 DEF FreeMark, Abstract!Release
  <2>2. QED
    BY <2>1 DEF Abstract!Next
<1>6. QED
  BY <1>1, <1>2, <1>3, <1>4, <1>5 DEF Step

(* heap.c implements the abstract allocator, whatever the memory map entry *)
(* and the sizes: blocks never share a byte, free gives back one block and *)
(* nothing else, and malloc refuses only what could not be served.         *)
THEOREM HeapRefinesAbstract == Spec => RefinesAbstract
<1>1. Init => Abstract!Init
  BY DEF Init, Abstract!Init
<1>2. ASSUME IInv, [Next]_vars
      PROVE  [Abstract!Next]_(Abstract!vars)
  <2>1. CASE Step
    BY <1>2, <2>1, StepRefines
  <2>2. CASE \E n \in Requests : CallMalloc(n)
    <3>1. PICK n \in Requests : CallMalloc(n)
      BY <2>2
    <3>2. Abstract!CallMalloc(n)
      BY <3>1 DEF CallMalloc, Abstract!CallMalloc
    <3>3. QED
      BY <3>2 DEF Abstract!Next
  <2>3. CASE \E p \in DOMAIN live \cup {Null} : CallFree(p)
    <3>1. PICK p \in DOMAIN live \cup {0} : CallFree(p)
      BY <2>3 DEF Null
    <3>2. Abstract!CallFree(p)
      BY <3>1 DEF CallFree, Abstract!CallFree
    <3>3. QED
      BY <3>2 DEF Abstract!Next
  <2>4. CASE UNCHANGED vars
    BY <2>4 DEF vars, Abstract!vars
  <2>5. QED
    BY <1>2, <2>1, <2>2, <2>3, <2>4 DEF Next
<1>3. QED
  BY <1>1, <1>2, Invariance, PTL DEF Spec, RefinesAbstract, Abstract!Spec
=============================================================================
