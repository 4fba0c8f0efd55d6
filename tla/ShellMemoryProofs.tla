-------------------------- MODULE ShellMemoryProofs --------------------------
(***************************************************************************)
(* Whatever lines are entered and whatever their strings' sizes: a NUL     *)
(* that set_variable writes behind a block can only make a segment         *)
(* smaller, and smaller segments do not overlap; the NUL that ls writes    *)
(* before one falls on a byte that is 0.  HeapProofs shows more, that the  *)
(* list tiles the arena, and of a heap whose headers only malloc and free  *)
(* write; here the segments may have gaps between them.                    *)
(*                                                                         *)
(* All of it holds until one of the lines that Risky names has written     *)
(* over a header; after that nothing is claimed.                           *)
(*                                                                         *)
(* The last part counts: a line's calls are carried out from the head of   *)
(* todo, so what every rest of them still needs, links and gains holds     *)
(* together what is in use now and what will be at the next prompt.        *)
(***************************************************************************)
EXTENDS ShellMemory, FiniteSetTheorems, SequenceTheorems, TLAPS

MemoryTypeOK ==
  /\ DOMAIN seg \subseteq Nat /\ seg \in [DOMAIN seg -> Header]
  /\ DOMAIN live \subseteq Nat /\ live \in [DOMAIN live -> Nat]
  /\ curr \in Nat /\ arg \in Nat
  /\ todo \in Seq(Call)
  /\ ptr \in [Pointers -> Nat]
  /\ pc # "idle" => todo # <<>>

(* A segment's next is the header that follows it, at the segment's end or *)
(* behind a gap.                                                           *)
NextFollows ==
  \A s \in DOMAIN seg :
    IF seg[s].next = Null
    THEN \A t \in DOMAIN seg : t <= s
    ELSE /\ seg[s].next \in DOMAIN seg /\ s < seg[s].next
         /\ \A t \in DOMAIN seg : t <= s \/ seg[s].next <= t

(* A block that is held has a header marked as used.                       *)
HasHeader == \A p \in DOMAIN live : p - HeaderSize \in DOMAIN seg /\ ~seg[p - HeaderSize].free

CursorOK ==
  /\ Base \in DOMAIN seg /\ curr \in DOMAIN seg \cup {Null}
  /\ pc = "merge" => curr # Null

MInv == MemoryTypeOK /\ Disjoint /\ NextFollows /\ HasHeader /\ CursorOK /\ Separate

LEMMA Constants ==
  /\ HeaderSize \in Nat /\ HeaderSize > 0 /\ Base \in Nat /\ Base > 0 /\ End \in Nat
  /\ Base + HeaderSize <= End /\ Null = 0
BY HeapAssumption DEF Base, End, Null

(* Every line's calls are calls, and those of a line that is not risky     *)
(* write over no header.                                                   *)
SafeCall == {c \in Call : c.call \notin {"spill", "wild"}}

LEMMA CallsIn ==
  ASSUME NEW S \in {Call, SafeCall}
  PROVE  /\ \A n \in Nat : \A v \in Pointers : Malloc(v, n) \in S /\ Nul(v, n) \in S
         /\ \A v \in Pointers : Free(v) \in S /\ Under(v) \in S
         /\ Push \in S
BY DEF SafeCall, Call, Malloc, Nul, Free, Under, Push, Pointers

LEMMA Wilder ==
  /\ Wild \in Call
  /\ \A n, k \in Nat : \A v \in Pointers : Spill(v, n, k) \in Call
BY DEF Wild, Spill, Call, Pointers

LEMMA PushCalls ==
  ASSUME NEW S \in {Call, SafeCall}, NEW l, l.name \in Nat, l.text \in Nat
  PROVE  VariablesPush(l) \in Seq(S)
<1>1. \A n \in Nat : \A v \in Pointers : Malloc(v, n) \in S /\ Nul(v, n) \in S
  BY CallsIn
<1>2. Push \in S /\ NumberSize \in Nat /\ NodeSize \in Nat
  BY CallsIn DEF NumberSize, NodeSize
<1>3. {"name", "value", "node"} \subseteq Pointers
  BY DEF Pointers
<1> HIDE DEF Push
<1>4. <<Malloc("name", l.name), Malloc("name", l.name), Nul("name", l.name)>> \in Seq(S)
  BY <1>1, <1>3
<1>5. (IF l.exp THEN <<Malloc("value", NumberSize)>>
                ELSE <<Malloc("value", l.text), Nul("value", l.text)>>) \in Seq(S)
  BY <1>1, <1>2, <1>3
<1>6. SetVariable(l) \in Seq(S)
  BY <1>2, <1>4, <1>5 DEF SetVariable
<1>7. (IF Index(l.is) = {} THEN <<Malloc("node", NodeSize)>> ELSE <<>>) \in Seq(S)
  BY <1>1, <1>2, <1>3
<1> QED
  BY <1>6, <1>7 DEF VariablesPush

LEMMA CombinedCalls ==
  ASSUME NEW S \in {Call, SafeCall}, NEW v \in Pointers, NEW n \in Nat, NEW k \in Nat,
         S = Call \/ ~(k > 0)
  PROVE  Combined(v, n, k) \in Seq(S)
<1>1. Malloc(v, n) \in S /\ (k > 0 => Spill(v, n, k) \in S)
  BY CallsIn, Wilder
<1> QED
  BY <1>1 DEF Combined

LEMMA CommandCalls ==
  ASSUME NEW l \in Lines, NEW S \in {Call, SafeCall}, S = Call \/ ~Risky(l)
  PROVE  Command(l) \in Seq(S)
<1>1. /\ \A n \in Nat : \A v \in Pointers : Malloc(v, n) \in S
      /\ \A v \in Pointers : Free(v) \in S /\ Under(v) \in S
  BY CallsIn
<1>2. {"path", "data"} \subseteq Pointers /\ 0 \in Nat
  BY DEF Pointers
<1>3. CASE l.command = "set"
  <2>1. l.name \in Nat /\ l.text \in Nat /\ l.rest \in Nat /\ (S = Call \/ ~(l.rest > 0))
    BY <1>3, LinesAssumption DEF Risky
  <2>2. Combined("data", l.text, l.rest) \in Seq(S) /\ VariablesPush(l) \in Seq(S)
    BY <1>2, <2>1, PushCalls, CombinedCalls
  <2>3. Set(l) \in Seq(S)
    BY <1>1, <1>2, <2>2 DEF Set
  <2> QED
    BY <1>3, <2>3 DEF Command
<1>4. CASE l.command \in Paths
  <2>1. l.path \in Nat /\ l.rest \in Nat /\ (S = Call \/ ~(l.rest > 0))
    BY <1>4, LinesAssumption DEF Risky
  <2>2. Combined("path", l.path, l.rest) \in Seq(S)
    BY <1>2, <2>1, CombinedCalls
  <2>3. Path(l) \in Seq(S) /\ Ls(l) \in Seq(S)
    BY <1>1, <1>2, <2>2 DEF Path, Ls, CombinedNone
  <2>4. CASE l.command = "cat"
    <3>1. l.content \in Nat /\ l.beyond \in Nat
          /\ (S = Call \/ ~l.found \/ ~(l.beyond > 0))
      BY <2>4, LinesAssumption DEF Risky
    <3>2. l.found => Combined("data", l.content, l.beyond) \in Seq(S)
      BY <1>2, <3>1, CombinedCalls
    <3>3. Cat(l) \in Seq(S)
      BY <1>1, <1>2, <2>3, <3>2 DEF Cat
    <3> QED
      BY <2>4, <3>3 DEF Command
  <2>5. CASE l.command = "edit"
    <3>1. l.found => Wild \in S
      BY <2>5, Wilder DEF Risky
    <3>2. Edit(l) \in Seq(S)
      BY <2>3, <3>1 DEF Edit
    <3> QED
      BY <2>5, <3>2 DEF Command
  <2>6. CASE l.command \in {"touch", "mkdir"}
    <3>1. l.found /\ l.outside => Wild \in S
      BY <2>6, Wilder DEF Risky
    <3>2. (IF l.found /\ l.outside THEN <<Wild>> ELSE <<>>) \in Seq(S)
      BY <3>1
    <3>3. (IF l.found THEN <<Free("path")>> ELSE <<>>) \in Seq(S)
      BY <1>1, <1>2
    <3>4. Create(l) \in Seq(S)
      BY <2>2, <3>2, <3>3 DEF Create
    <3> QED
      BY <2>6, <3>4 DEF Command
  <2>7. CASE l.command \in {"cd", "ls"}
    BY <2>3, <2>7 DEF Command
  <2> QED
    BY <1>4, <2>4, <2>5, <2>6, <2>7 DEF Paths
<1>5. CASE l.command \notin {"set"} \cup Paths
  BY <1>5 DEF Command, Paths
<1> QED
  BY <1>3, <1>4, <1>5

LEMMA LineCalls ==
  ASSUME NEW l \in Lines, NEW S \in {Call, SafeCall}, S = Call \/ ~Risky(l)
  PROVE  Executed(l) \in Seq(S)
<1>1. Command(l) \in Seq(S)
  BY CommandCalls
<1>2. PointerSize * l.argc \in Nat /\ "args" \in Pointers
  BY LinesAssumption DEF PointerSize, Pointers
<1>3. Malloc("args", PointerSize * l.argc) \in S /\ Free("args") \in S
  BY <1>2, CallsIn
<1> QED
  BY <1>1, <1>3 DEF Executed

(* At first the whole arena is one free segment.                           *)
LEMMA InitMInv ==
  ASSUME MemoryInit
  PROVE  MInv
<1>1. /\ seg = [a \in {Base} |->
                  [len |-> End - Base - HeaderSize, free |-> TRUE, next |-> Null]]
      /\ curr = Null /\ arg = 0 /\ live = [p \in {} |-> 0] /\ pc = "idle"
  BY DEF MemoryInit, Init
<1>2. todo \in Seq(Call) /\ ptr \in [Pointers -> Nat]
  <2>1. PwdLine.name \in Nat /\ PwdLine.text \in Nat
    BY DEF PwdLine
  <2>2. VariablesPush(PwdLine) \in Seq(Call)
    BY <2>1, PushCalls
  <2> QED
    BY <2>2, Constants DEF MemoryInit
<1>3. End - Base - HeaderSize \in Nat
  BY Constants
<1> QED
  BY <1>1, <1>2, <1>3, Constants
  DEF MInv, MemoryTypeOK, Header, Disjoint, Limit, NextFollows, HasHeader, CursorOK, Separate

(* The heap's steps, whatever is called and freed.                         *)
HeapInv ==
  /\ DOMAIN seg \subseteq Nat /\ seg \in [DOMAIN seg -> Header]
  /\ DOMAIN live \subseteq Nat /\ live \in [DOMAIN live -> Nat]
  /\ curr \in Nat /\ arg \in Nat
  /\ Disjoint /\ NextFollows /\ HasHeader /\ CursorOK /\ Separate

ShellInv == todo \in Seq(Call) /\ ptr \in [Pointers -> Nat] /\ (pc # "idle" => todo # <<>>)

LEMMA MInvParts == MInv <=> HeapInv /\ ShellInv
BY DEF MInv, MemoryTypeOK, HeapInv, ShellInv

LEMMA MInvParts1 == MInv' <=> HeapInv' /\ ShellInv'
BY DEF MInv, MemoryTypeOK, HeapInv, ShellInv

(* Of a free segment no byte is in use.                                    *)
LEMMA FreeIsFree ==
  ASSUME HeapInv, NEW s \in DOMAIN seg, seg[s].free
  PROVE  /\ s \in Nat /\ seg[s].len \in Nat /\ Payload(s) \in Nat
         /\ Payload(s) \notin DOMAIN live
         /\ \A q \in DOMAIN live : q + live[q] <= s \/ Limit(s) <= q - HeaderSize
<1>1. s \in Nat /\ seg[s].len \in Nat /\ Payload(s) \in Nat
  BY Constants DEF HeapInv, Header, Payload
<1>2. Payload(s) \notin DOMAIN live
  <2>1. Payload(s) - HeaderSize = s
    BY <1>1, Constants DEF Payload
  <2> QED
    BY <2>1 DEF HeapInv, HasHeader
<1>3. ASSUME NEW q \in DOMAIN live
      PROVE  q + live[q] <= s \/ Limit(s) <= q - HeaderSize
  <2>1. q \in Nat /\ live[q] \in Nat /\ q - HeaderSize \in DOMAIN seg
        /\ ~seg[q - HeaderSize].free /\ q - HeaderSize \in Nat
    BY DEF HeapInv, HasHeader
  <2>2. Payload(s) <= q \/ q + live[q] <= s
    BY DEF HeapInv, Separate
  <2>3. CASE Payload(s) <= q
    <3>1. s <= q - HeaderSize /\ s # q - HeaderSize
      BY <1>1, <2>1, <2>3, Constants DEF Payload
    <3>2. s < q - HeaderSize
      BY <1>1, <2>1, <3>1
    <3> QED
      BY <2>1, <3>2 DEF HeapInv, Disjoint
  <2> QED
    BY <2>2, <2>3
<1> QED
  BY <1>1, <1>2, <1>3

(* The block handed out in a free segment s, whose header is written.      *)
LEMMA HandedOut ==
  ASSUME HeapInv, NEW s \in DOMAIN seg, seg[s].free, NEW n \in Nat, n <= seg[s].len,
         NEW p, p = Payload(s)
  PROVE  /\ p \in Nat /\ Base + HeaderSize <= p /\ p + n <= Limit(s) /\ Limit(s) <= End
         /\ \A t \in DOMAIN seg : Payload(t) <= p \/ Limit(s) <= t
         /\ \A q \in DOMAIN live : q + live[q] <= s \/ Limit(s) <= q - HeaderSize
         /\ s < p /\ p \notin DOMAIN live
<1>1. /\ s \in Nat /\ seg[s].len \in Nat /\ p \in Nat
      /\ \A q \in DOMAIN live : q + live[q] <= s \/ Limit(s) <= q - HeaderSize
      /\ p \notin DOMAIN live
  BY FreeIsFree
<1>2. Base <= s /\ Limit(s) <= End /\ Limit(s) = p + seg[s].len /\ s < p
  BY <1>1, Constants DEF HeapInv, Disjoint, Limit, Payload
<1>3. ASSUME NEW t \in DOMAIN seg
      PROVE  Payload(t) <= p \/ Limit(s) <= t
  BY <1>1, Constants DEF HeapInv, Disjoint, Payload
<1> QED
  BY <1>1, <1>2, <1>3, Constants DEF Payload

LEMMA ExactStep ==
  ASSUME HeapInv, MallocExact
  PROVE  HeapInv'
<1> DEFINE p == Payload(curr)
<1>1. /\ curr \in DOMAIN seg /\ seg[curr].free /\ seg[curr].len = arg /\ arg \in Nat
      /\ seg' = [seg EXCEPT ![curr].free = FALSE]
      /\ live' = [q \in DOMAIN live \cup {p} |-> IF q = p THEN arg ELSE live[q]]
      /\ pc' = "idle" /\ curr' = Null /\ arg' = 0
  BY DEF MallocExact, Exact, HandOut, Return, HeapInv, CursorOK
<1>2. /\ p \in Nat /\ Base + HeaderSize <= p /\ p + arg <= Limit(curr) /\ Limit(curr) <= End
      /\ \A t \in DOMAIN seg : Payload(t) <= p \/ Limit(curr) <= t
      /\ \A q \in DOMAIN live : q + live[q] <= curr \/ Limit(curr) <= q - HeaderSize
      /\ curr < p /\ p \notin DOMAIN live
  BY <1>1, HandedOut
<1>3. p - HeaderSize = curr /\ Limit(curr) \in Nat
  BY <1>1, <1>2, Constants DEF Payload, HeapInv, Limit, Header
<1> HIDE DEF p
<1>4. /\ DOMAIN seg' = DOMAIN seg
      /\ \A s \in DOMAIN seg : /\ seg'[s] \in Header /\ seg'[s].len = seg[s].len
                               /\ seg'[s].next = seg[s].next
                               /\ s # curr => seg'[s] = seg[s]
      /\ ~seg'[curr].free
  BY <1>1 DEF HeapInv, Header
<1>5. /\ DOMAIN live' = DOMAIN live \cup {p}
      /\ live'[p] = arg /\ \A q \in DOMAIN live : live'[q] = live[q]
  BY <1>1, <1>2
<1>6. Disjoint' /\ NextFollows'
  BY <1>4 DEF HeapInv, Disjoint, NextFollows, Limit
<1>7. HasHeader'
  BY <1>1, <1>3, <1>4, <1>5 DEF HeapInv, HasHeader
<1>8. CursorOK'
  BY <1>1, <1>4 DEF HeapInv, CursorOK
<1>9. Separate'
  <2>1. \A q \in DOMAIN live : q \in Nat /\ live[q] \in Nat /\ q - HeaderSize < q
    BY Constants DEF HeapInv
  <2>2. /\ Base + HeaderSize <= p /\ p + live'[p] <= End
        /\ \A s \in DOMAIN seg' : Payload(s) <= p \/ p + live'[p] <= s
    BY <1>1, <1>2, <1>3, <1>4, <1>5, Constants DEF HeapInv
  <2>3. \A q \in DOMAIN live' : q <= p \/ p + live'[p] <= q
    BY <1>1, <1>2, <1>3, <1>5, <2>1, Constants
  <2>4. \A q \in DOMAIN live : p <= q \/ q + live'[q] <= p
    BY <1>1, <1>2, <1>3, <1>5, <2>1, Constants DEF HeapInv
  <2>5. \A q \in DOMAIN live :
          /\ Base + HeaderSize <= q /\ q + live'[q] <= End
          /\ \A s \in DOMAIN seg' : Payload(s) <= q \/ q + live'[q] <= s
          /\ \A r \in DOMAIN live : r <= q \/ q + live'[q] <= r
    BY <1>4, <1>5 DEF HeapInv, Separate
  <2> QED
    BY <1>5, <2>2, <2>3, <2>4, <2>5 DEF Separate, Payload
<1> QED
  BY <1>1, <1>2, <1>4, <1>5, <1>6, <1>7, <1>8, <1>9, Constants DEF HeapInv

LEMMA SplitStep ==
  ASSUME HeapInv, MallocSplit
  PROVE  HeapInv'
<1> DEFINE p == Payload(curr)
           new == p + arg
<1>1. /\ curr \in DOMAIN seg /\ seg[curr].free /\ seg[curr].len > arg + HeaderSize
      /\ arg \in Nat
      /\ seg' = [a \in DOMAIN seg \cup {new} |->
                   IF a = new THEN Remainder(curr, arg)
                   ELSE IF a = curr THEN [len |-> arg, free |-> FALSE, next |-> new]
                   ELSE seg[a]]
      /\ live' = [q \in DOMAIN live \cup {p} |-> IF q = p THEN arg ELSE live[q]]
      /\ pc' = "idle" /\ curr' = Null /\ arg' = 0
  BY DEF MallocSplit, Splittable, HandOut, Return, HeapInv, CursorOK
<1>2. curr \in Nat /\ seg[curr] \in Header /\ seg[curr].len \in Nat /\ arg <= seg[curr].len
  BY <1>1, Constants DEF HeapInv, Header
<1>3. /\ p \in Nat /\ Base + HeaderSize <= p /\ p + arg <= Limit(curr) /\ Limit(curr) <= End
      /\ \A t \in DOMAIN seg : Payload(t) <= p \/ Limit(curr) <= t
      /\ \A q \in DOMAIN live : q + live[q] <= curr \/ Limit(curr) <= q - HeaderSize
      /\ curr < p /\ p \notin DOMAIN live
  BY <1>1, <1>2, HandedOut
<1>4. p - HeaderSize = curr /\ p = curr + HeaderSize /\ Limit(curr) = p + seg[curr].len
  BY <1>2, Constants DEF Payload, Limit
<1>5. /\ new \in Nat /\ curr < new /\ new # curr /\ new + HeaderSize < Limit(curr)
      /\ Limit(curr) \in Nat
  BY <1>1, <1>2, <1>3, <1>4, Constants
<1>6. new \notin DOMAIN seg
  BY <1>1, <1>2, <1>5, Constants DEF HeapInv, Disjoint
<1> HIDE DEF p, new
<1>7. /\ DOMAIN seg' = DOMAIN seg \cup {new}
      /\ seg'[new] = Remainder(curr, arg)
      /\ seg'[curr] = [len |-> arg, free |-> FALSE, next |-> new]
      /\ \A s \in DOMAIN seg : s # curr => seg'[s] = seg[s]
  BY <1>1, <1>5, <1>6
<1>8. /\ seg'[new] \in Header /\ seg'[new].next = seg[curr].next
      /\ seg'[new].len = seg[curr].len - arg - HeaderSize /\ seg'[new].free
      /\ seg'[curr] \in Header /\ seg'[curr].next = new /\ seg'[curr].len = arg
      /\ ~seg'[curr].free
  BY <1>1, <1>2, <1>5, <1>7, Constants DEF Remainder, Header
<1> DEFINE end(s) == s + HeaderSize + seg'[s].len
<1>9. end(new) = Limit(curr) /\ end(curr) = new
      /\ \A s \in DOMAIN seg : s # curr => end(s) = Limit(s)
  <2>1. end(new) = Limit(curr)
    BY <1>1, <1>2, <1>4, <1>5, <1>8, Constants DEF new
  <2>2. end(curr) = new
    BY <1>1, <1>2, <1>4, <1>5, <1>8, Constants DEF new
  <2> QED
    BY <2>1, <2>2, <1>7 DEF Limit
<1> HIDE DEF end
<1>10. /\ DOMAIN live' = DOMAIN live \cup {p}
       /\ live'[p] = arg /\ \A q \in DOMAIN live : live'[q] = live[q]
  BY <1>1, <1>3
<1>11. \A s \in DOMAIN seg : s \in Nat /\ Base <= s /\ Limit(s) <= End /\ Limit(s) \in Nat
                             /\ s <= Limit(s)
  BY Constants DEF HeapInv, Disjoint, Limit, Header
<1>12. \A s \in DOMAIN seg : s < curr => Limit(s) <= curr
  BY <1>1 DEF HeapInv, Disjoint
<1>13. \A s \in DOMAIN seg : s <= curr \/ Limit(curr) <= s
  BY <1>1, <1>2, <1>11 DEF HeapInv, Disjoint
<1>14. Disjoint'
  <2>1. \A s \in DOMAIN seg' : Base <= s /\ end(s) <= End
    BY <1>1, <1>2, <1>3, <1>5, <1>7, <1>9, <1>11, Constants
  <2>2. ASSUME NEW s \in DOMAIN seg', NEW t \in DOMAIN seg', s < t
        PROVE  end(s) <= t
    <3>1. CASE s = new
      BY <2>2, <3>1, <1>1, <1>2, <1>5, <1>7, <1>9, <1>11, <1>13
    <3>2. CASE s = curr
      BY <2>2, <3>2, <1>1, <1>2, <1>5, <1>7, <1>9, <1>11, <1>13, Constants
    <3>3. CASE s # curr /\ s \in DOMAIN seg /\ t = new
      BY <2>2, <3>3, <1>1, <1>2, <1>5, <1>7, <1>9, <1>11, <1>12, <1>13, Constants
    <3>4. CASE s # curr /\ s \in DOMAIN seg /\ t \in DOMAIN seg
      BY <2>2, <3>4, <1>9 DEF HeapInv, Disjoint
    <3> QED
      BY <1>7, <3>1, <3>2, <3>3, <3>4
  <2> QED
    BY <2>1, <2>2 DEF Disjoint, Limit, end
<1>15. NextFollows'
  <2>1. ASSUME NEW s \in DOMAIN seg', s = new
        PROVE  IF seg'[s].next = Null THEN \A t \in DOMAIN seg' : t <= s
               ELSE /\ seg'[s].next \in DOMAIN seg' /\ s < seg'[s].next
                    /\ \A t \in DOMAIN seg' : t <= s \/ seg'[s].next <= t
    <3>1. CASE seg[curr].next = Null
      <4>1. \A t \in DOMAIN seg : t <= curr
        BY <1>1, <3>1 DEF HeapInv, NextFollows
      <4> QED
        BY <2>1, <3>1, <4>1, <1>2, <1>5, <1>7, <1>8, <1>11
    <3>2. CASE seg[curr].next # Null
      <4>1. /\ seg[curr].next \in DOMAIN seg /\ curr < seg[curr].next
            /\ \A t \in DOMAIN seg : t <= curr \/ seg[curr].next <= t
        BY <1>1, <3>2 DEF HeapInv, NextFollows
      <4>2. new < seg[curr].next
        BY <4>1, <1>2, <1>5, <1>11, <1>13, Constants
      <4> QED
        BY <2>1, <3>2, <4>1, <4>2, <1>2, <1>5, <1>7, <1>8, <1>11
    <3> QED
      BY <3>1, <3>2
  <2>2. ASSUME NEW s \in DOMAIN seg', s = curr
        PROVE  IF seg'[s].next = Null THEN \A t \in DOMAIN seg' : t <= s
               ELSE /\ seg'[s].next \in DOMAIN seg' /\ s < seg'[s].next
                    /\ \A t \in DOMAIN seg' : t <= s \/ seg'[s].next <= t
    BY <2>2, <1>2, <1>5, <1>7, <1>8, <1>11, <1>13, Constants
  <2>3. ASSUME NEW s \in DOMAIN seg, s # curr
        PROVE  IF seg'[s].next = Null THEN \A t \in DOMAIN seg' : t <= s
               ELSE /\ seg'[s].next \in DOMAIN seg' /\ s < seg'[s].next
                    /\ \A t \in DOMAIN seg' : t <= s \/ seg'[s].next <= t
    <3>1. seg'[s] = seg[s]
      BY <2>3, <1>7
    <3>2. CASE seg[s].next = Null
      <4>1. \A t \in DOMAIN seg : t <= s
        BY <3>2 DEF HeapInv, NextFollows
      <4>2. Limit(curr) <= s
        BY <2>3, <4>1, <1>1, <1>2, <1>11, <1>13
      <4> QED
        BY <3>1, <3>2, <4>1, <4>2, <1>5, <1>7, <1>11, Constants
    <3>3. CASE seg[s].next # Null
      <4>1. /\ seg[s].next \in DOMAIN seg /\ s < seg[s].next
            /\ \A t \in DOMAIN seg : t <= s \/ seg[s].next <= t
        BY <3>3 DEF HeapInv, NextFollows
      <4>2. new <= s \/ seg[s].next <= new
        <5>1. curr <= s \/ seg[s].next <= curr
          BY <4>1, <1>1
        <5>2. CASE curr <= s
          BY <2>3, <5>2, <1>2, <1>5, <1>11, <1>13, Constants
        <5>3. CASE seg[s].next <= curr
          BY <4>1, <5>3, <1>2, <1>5, <1>11
        <5> QED
          BY <5>1, <5>2, <5>3
      <4> QED
        BY <3>1, <3>3, <4>1, <4>2, <1>7
    <3> QED
      BY <3>2, <3>3
  <2> QED
    BY <1>7, <2>1, <2>2, <2>3 DEF NextFollows
<1>16. HasHeader'
  BY <1>1, <1>4, <1>6, <1>7, <1>8, <1>10 DEF HeapInv, HasHeader
<1>17. CursorOK'
  BY <1>1, <1>7 DEF HeapInv, CursorOK
<1>18. Separate'
  <2>1. \A q \in DOMAIN live : q \in Nat /\ live[q] \in Nat /\ q - HeaderSize < q
    BY Constants DEF HeapInv
  <2>2. /\ Base + HeaderSize <= p /\ p + live'[p] <= End
        /\ \A s \in DOMAIN seg' : Payload(s) <= p \/ p + live'[p] <= s
    <3>1. p + live'[p] = new
      BY <1>10 DEF new
    <3>2. Base + HeaderSize <= p /\ new <= End
      BY <1>3, <1>5, Constants
    <3>3. \A s \in DOMAIN seg : Payload(s) <= p \/ new <= s
      BY <1>3, <1>5, <1>11, Constants
    <3> QED
      BY <3>1, <3>2, <3>3, <1>5, <1>7
  <2>3. \A q \in DOMAIN live' : q <= p \/ p + live'[p] <= q
    <3>1. p + live'[p] = new
      BY <1>10 DEF new
    <3>2. \A q \in DOMAIN live : q <= p \/ new <= q
      BY <1>2, <1>3, <1>5, <2>1, Constants
    <3> QED
      BY <3>1, <3>2, <1>3, <1>10
  <2>4. \A q \in DOMAIN live : p <= q \/ q + live'[q] <= p
    BY <1>2, <1>3, <1>4, <1>5, <1>10, <2>1, Constants
  <2>5. \A q \in DOMAIN live : Payload(new) <= q \/ q + live'[q] <= new
    BY <1>2, <1>3, <1>5, <1>10, <2>1, Constants DEF Payload
  <2>6. \A q \in DOMAIN live :
          /\ Base + HeaderSize <= q /\ q + live'[q] <= End
          /\ \A s \in DOMAIN seg : Payload(s) <= q \/ q + live'[q] <= s
          /\ \A r \in DOMAIN live : r <= q \/ q + live'[q] <= r
    BY <1>10 DEF HeapInv, Separate
  <2> QED
    BY <1>7, <1>10, <2>2, <2>3, <2>4, <2>5, <2>6 DEF Separate, Payload
<1>19. DOMAIN seg' \subseteq Nat /\ seg' \in [DOMAIN seg' -> Header]
  BY <1>1, <1>2, <1>5, <1>7, <1>8 DEF HeapInv
<1>20. DOMAIN live' \subseteq Nat /\ live' \in [DOMAIN live' -> Nat]
  BY <1>1, <1>3, <1>10 DEF HeapInv
<1> QED
  BY <1>1, <1>14, <1>15, <1>16, <1>17, <1>18, <1>19, <1>20, Constants DEF HeapInv

LEMMA MarkStep ==
  ASSUME HeapInv, FreeMark
  PROVE  HeapInv'
<1>1. /\ curr \in DOMAIN seg /\ Payload(curr) = arg
      /\ seg' = [seg EXCEPT ![curr].free = TRUE]
      /\ live' = [q \in DOMAIN live \ {arg} |-> live[q]]
      /\ pc' = "merge" /\ curr' = Base /\ arg' = arg
  BY DEF FreeMark, MergeStart, HeapInv, CursorOK
<1>2. /\ DOMAIN seg' = DOMAIN seg
      /\ \A s \in DOMAIN seg : /\ seg'[s] \in Header /\ seg'[s].len = seg[s].len
                               /\ seg'[s].next = seg[s].next
                               /\ s # curr => seg'[s] = seg[s]
  BY <1>1 DEF HeapInv, Header
<1>3. /\ DOMAIN live' = DOMAIN live \ {arg}
      /\ \A q \in DOMAIN live' : q \in DOMAIN live /\ live'[q] = live[q]
  BY <1>1
<1>4. Disjoint' /\ NextFollows'
  BY <1>2 DEF HeapInv, Disjoint, NextFollows, Limit
<1>5. HasHeader'
  <2> SUFFICES ASSUME NEW q \in DOMAIN live'
               PROVE  q - HeaderSize \in DOMAIN seg /\ ~seg'[q - HeaderSize].free
    BY <1>2 DEF HasHeader
  <2>1. q # arg /\ q \in Nat /\ curr \in Nat
    BY <1>1, <1>3 DEF HeapInv
  <2>2. q - HeaderSize # curr
    BY <1>1, <2>1, Constants DEF Payload
  <2> QED
    BY <1>2, <1>3, <2>2 DEF HeapInv, HasHeader
<1>6. CursorOK'
  BY <1>1, <1>2, Constants DEF HeapInv, CursorOK
<1>7. Separate'
  BY <1>2, <1>3 DEF HeapInv, Separate
<1> QED
  BY <1>1, <1>2, <1>3, <1>4, <1>5, <1>6, <1>7, Constants DEF HeapInv

LEMMA AbsorbStep ==
  ASSUME HeapInv, MergeAbsorb
  PROVE  HeapInv'
<1> DEFINE nxt == seg[curr].next
<1>1. /\ curr \in DOMAIN seg /\ nxt # Null /\ seg[curr].free /\ seg[nxt].free
      /\ seg' = [a \in DOMAIN seg \ {nxt} |-> IF a = curr THEN Absorbed(curr, nxt) ELSE seg[a]]
      /\ UNCHANGED <<pc, curr, arg, live>>
  BY DEF MergeAbsorb, BothFree, HeapInv, CursorOK
<1>2. /\ nxt \in DOMAIN seg /\ curr < nxt
      /\ \A t \in DOMAIN seg : t <= curr \/ nxt <= t
  BY <1>1 DEF HeapInv, NextFollows
<1>3. /\ curr \in Nat /\ nxt \in Nat /\ seg[curr] \in Header /\ seg[nxt] \in Header
      /\ seg[curr].len \in Nat /\ seg[nxt].len \in Nat /\ seg[nxt].next \in Nat
  BY <1>1, <1>2 DEF HeapInv, Header
<1> HIDE DEF nxt
<1>4. /\ DOMAIN seg' = DOMAIN seg \ {nxt} /\ curr \in DOMAIN seg'
      /\ seg'[curr] = Absorbed(curr, nxt)
      /\ \A s \in DOMAIN seg : s # curr /\ s # nxt => seg'[s] = seg[s]
  BY <1>1, <1>2, <1>3
<1>5. /\ seg'[curr] \in Header /\ seg'[curr].free /\ seg'[curr].next = seg[nxt].next
      /\ seg'[curr].len = seg[curr].len + seg[nxt].len + HeaderSize
  BY <1>3, <1>4, Constants DEF Absorbed, Header
<1>6. /\ curr + HeaderSize + seg'[curr].len <= Limit(nxt)
      /\ curr + HeaderSize + seg'[curr].len \in Nat
  <2>1. curr + HeaderSize + seg[curr].len <= nxt
    BY <1>1, <1>2 DEF HeapInv, Disjoint, Limit
  <2> QED
    BY <1>3, <1>5, <2>1, Constants DEF Limit
<1>7. Disjoint'
  <2>1. \A s \in DOMAIN seg' : Base <= s /\ s + HeaderSize + seg'[s].len <= End
    <3>1. Base <= curr /\ Limit(nxt) <= End /\ Limit(nxt) \in Nat
      BY <1>1, <1>2, <1>3, Constants DEF HeapInv, Disjoint, Limit
    <3>2. curr + HeaderSize + seg'[curr].len <= End
      BY <1>6, <3>1, Constants
    <3> QED
      BY <1>4, <3>1, <3>2 DEF HeapInv, Disjoint, Limit
  <2>2. ASSUME NEW s \in DOMAIN seg', NEW t \in DOMAIN seg', s < t
        PROVE  s + HeaderSize + seg'[s].len <= t
    <3>1. CASE s = curr
      <4>1. t \in DOMAIN seg /\ t # nxt /\ nxt <= t /\ t \in Nat
        BY <1>2, <1>3, <1>4, <2>2, <3>1 DEF HeapInv
      <4>2. Limit(nxt) <= t /\ Limit(nxt) \in Nat
        BY <1>2, <1>3, <4>1, Constants DEF HeapInv, Disjoint, Limit
      <4> QED
        BY <1>6, <3>1, <4>1, <4>2
    <3>2. CASE s # curr
      BY <1>4, <2>2, <3>2 DEF HeapInv, Disjoint, Limit
    <3> QED
      BY <3>1, <3>2
  <2> QED
    BY <2>1, <2>2 DEF Disjoint, Limit
<1>8. NextFollows'
  <2>1. IF seg'[curr].next = Null THEN \A t \in DOMAIN seg' : t <= curr
        ELSE /\ seg'[curr].next \in DOMAIN seg' /\ curr < seg'[curr].next
             /\ \A t \in DOMAIN seg' : t <= curr \/ seg'[curr].next <= t
    <3>1. CASE seg[nxt].next = Null
      <4>1. \A t \in DOMAIN seg : t <= nxt
        BY <1>2, <3>1 DEF HeapInv, NextFollows
      <4>2. \A t \in DOMAIN seg : t \in Nat
        BY DEF HeapInv
      <4>3. \A t \in DOMAIN seg' : t <= curr
        BY <1>2, <1>3, <1>4, <4>1, <4>2
      <4> QED
        BY <1>5, <3>1, <4>3
    <3>2. CASE seg[nxt].next # Null
      <4>1. /\ seg[nxt].next \in DOMAIN seg /\ nxt < seg[nxt].next
            /\ \A t \in DOMAIN seg : t <= nxt \/ seg[nxt].next <= t
        BY <1>2, <3>2 DEF HeapInv, NextFollows
      <4>2. \A t \in DOMAIN seg : t \in Nat
        BY DEF HeapInv
      <4>3. \A t \in DOMAIN seg' : t <= curr \/ seg[nxt].next <= t
        BY <1>2, <1>3, <1>4, <4>1, <4>2
      <4> QED
        BY <1>2, <1>3, <1>4, <1>5, <3>2, <4>1, <4>2, <4>3
    <3> QED
      BY <3>1, <3>2
  <2>2. ASSUME NEW s \in DOMAIN seg', s # curr
        PROVE  IF seg'[s].next = Null THEN \A t \in DOMAIN seg' : t <= s
               ELSE /\ seg'[s].next \in DOMAIN seg' /\ s < seg'[s].next
                    /\ \A t \in DOMAIN seg' : t <= s \/ seg'[s].next <= t
    <3>1. s \in DOMAIN seg /\ s # nxt /\ seg'[s] = seg[s] /\ s \in Nat
      BY <1>4, <2>2 DEF HeapInv
    <3>2. CASE seg[s].next = Null
      BY <1>4, <3>1, <3>2 DEF HeapInv, NextFollows
    <3>3. CASE seg[s].next # Null
      <4>1. /\ seg[s].next \in DOMAIN seg /\ s < seg[s].next
            /\ \A t \in DOMAIN seg : t <= s \/ seg[s].next <= t
        BY <3>1, <3>3 DEF HeapInv, NextFollows
      <4>2. seg[s].next # nxt
        BY <1>1, <1>2, <1>3, <2>2, <3>1, <4>1
      <4> QED
        BY <1>4, <3>1, <3>3, <4>1, <4>2
    <3> QED
      BY <3>2, <3>3
  <2> QED
    BY <2>1, <2>2 DEF NextFollows
<1>9. HasHeader'
  <2> SUFFICES ASSUME NEW q \in DOMAIN live
               PROVE  q - HeaderSize \in DOMAIN seg' /\ ~seg'[q - HeaderSize].free
    BY <1>1 DEF HasHeader
  <2>1. q - HeaderSize \in DOMAIN seg /\ ~seg[q - HeaderSize].free
    BY DEF HeapInv, HasHeader
  <2>2. q - HeaderSize # nxt /\ q - HeaderSize # curr
    BY <1>1, <2>1 DEF nxt
  <2> QED
    BY <1>4, <2>1, <2>2
<1>10. CursorOK'
  <2>1. Base # nxt
    BY <1>1, <1>2, <1>3, Constants DEF HeapInv, Disjoint
  <2> QED
    BY <1>1, <1>4, <2>1 DEF HeapInv, CursorOK
<1>11. Separate'
  <2>1. DOMAIN seg' \subseteq DOMAIN seg
    BY <1>4
  <2> QED
    BY <1>1, <2>1 DEF HeapInv, Separate
<1> QED
  BY <1>1, <1>4, <1>5, <1>7, <1>8, <1>9, <1>10, <1>11 DEF HeapInv

(* A NUL makes a len smaller, or hits no header.                           *)
LEMMA StraySmaller ==
  ASSUME NEW n \in Nat
  PROVE  LowByte(n) \in Nat /\ LowByte(n) <= n
<1>1. n % 256 \in 0 .. 255 /\ n % 256 <= n
  BY SMT
<1> QED
  BY <1>1 DEF LowByte

LEMMA StrayStep ==
  ASSUME HeapInv, Stray
  PROVE  HeapInv'
<1> DEFINE a == ptr[Called.var] + Called.size
<1>1. /\ seg' = [s \in DOMAIN seg |-> IF s = a THEN [seg[s] EXCEPT !.len = LowByte(@)] ELSE seg[s]]
      /\ UNCHANGED <<pc, curr, arg, live>>
  BY DEF Stray
<1> HIDE DEF a
<1>2. DOMAIN seg' = DOMAIN seg
  BY <1>1
<1>3. ASSUME NEW s \in DOMAIN seg
      PROVE  /\ seg'[s] \in Header /\ seg'[s].free = seg[s].free
             /\ seg'[s].next = seg[s].next /\ seg'[s].len <= seg[s].len
             /\ s \in Nat /\ seg'[s].len \in Nat /\ seg[s].len \in Nat
  <2>1. seg[s] \in Header /\ seg[s].len \in Nat /\ s \in Nat
    BY DEF HeapInv, Header
  <2>2. LowByte(seg[s].len) \in Nat /\ LowByte(seg[s].len) <= seg[s].len
    BY <2>1, StraySmaller
  <2> QED
    BY <1>1, <2>1, <2>2 DEF Header
<1>4. \A s \in DOMAIN seg : s + HeaderSize + seg'[s].len <= Limit(s)
  BY <1>3, Constants DEF Limit
<1>5. Disjoint'
  <2>1. \A s \in DOMAIN seg : s + HeaderSize + seg'[s].len \in Nat /\ Limit(s) \in Nat
    BY <1>3, Constants DEF Limit
  <2> QED
    BY <1>2, <1>3, <1>4, <2>1, Constants DEF HeapInv, Disjoint, Limit
<1>6. NextFollows' /\ HasHeader' /\ CursorOK' /\ Separate'
  BY <1>1, <1>2, <1>3 DEF HeapInv, NextFollows, HasHeader, CursorOK, Separate
<1> QED
  BY <1>1, <1>2, <1>3, <1>5, <1>6 DEF HeapInv

(* No address reaches the highest byte, which is 0 before.                 *)
LEMMA UnderStep ==
  ASSUME HeapInv, StrayUnder
  PROVE  HeapInv' /\ seg' = seg
<1>1. ASSUME NEW s \in DOMAIN seg
      PROVE  seg[s] \in Header /\ seg[s].next % HighByte = seg[s].next
  <2>1. seg[s] \in Header /\ seg[s].next \in Nat /\ HighByte \in Nat
    BY LinesAssumption DEF HeapInv, Header
  <2>2. seg[s].next < HighByte
    <3>1. CASE seg[s].next = Null
      BY <3>1, Constants, LinesAssumption
    <3>2. CASE seg[s].next # Null
      <4> DEFINE t == seg[s].next
      <4>1. t \in DOMAIN seg
        BY <3>2 DEF HeapInv, NextFollows
      <4>2. Limit(t) <= End /\ t \in Nat /\ seg[t].len \in Nat
        BY <4>1 DEF HeapInv, Disjoint, Header
      <4> QED
        BY <2>1, <4>2, Constants, LinesAssumption DEF Limit
    <3> QED
      BY <3>1, <3>2
  <2> QED
    BY <2>1, <2>2
<1>2. ASSUME NEW s \in DOMAIN seg
      PROVE  [seg[s] EXCEPT !.next = @ % HighByte] = seg[s]
  BY <1>1 DEF Header
<1>3. seg' = seg /\ UNCHANGED <<pc, curr, arg, live>>
  BY <1>2 DEF StrayUnder, HeapInv
<1> QED
  BY <1>3 DEF HeapInv, Disjoint, Limit, NextFollows, HasHeader, CursorOK, Separate

LEMMA CallStep ==
  ASSUME HeapInv, pc = "idle", pc' \in {"malloc", "free"}, curr' = Base, arg' \in Nat,
         UNCHANGED <<seg, live>>
  PROVE  HeapInv'
BY Constants DEF HeapInv, Disjoint, Limit, NextFollows, HasHeader, CursorOK, Separate

LEMMA WalkStep ==
  ASSUME HeapInv, MallocNext \/ FreeNext \/ MergeNext
  PROVE  HeapInv'
<1>1. curr \in DOMAIN seg /\ curr' = seg[curr].next /\ UNCHANGED <<seg, pc, arg, live>>
  BY DEF MallocNext, FreeNext, MergeNext, HeapInv, CursorOK
<1>2. curr' \in DOMAIN seg \cup {Null}
  BY <1>1 DEF HeapInv, NextFollows
<1>3. MergeNext => curr' # Null
  BY DEF MergeNext
<1>4. CursorOK'
  BY <1>1, <1>2, <1>3 DEF HeapInv, CursorOK, MallocNext, FreeNext
<1> QED
  BY <1>1, <1>2, <1>4, Constants DEF HeapInv, Disjoint, Limit, NextFollows, HasHeader, Separate

LEMMA ReturnStep ==
  ASSUME HeapInv, FreeInvalid \/ MergeDone
  PROVE  HeapInv'
BY Constants DEF FreeInvalid, MergeDone, Return, HeapInv, Disjoint, Limit, NextFollows, HasHeader,
   CursorOK, Separate

LEMMA HeapKept ==
  ASSUME HeapInv, UNCHANGED vars
  PROVE  HeapInv'
BY DEF vars, HeapInv, Disjoint, Limit, NextFollows, HasHeader, CursorOK, Separate

LEMMA CallsRest ==
  ASSUME todo \in Seq(Call), todo # <<>>
  PROVE  Called \in Call /\ Tail(todo) \in Seq(Call)
BY DEF Called

LEMMA MNextMInv ==
  ASSUME MInv, [MemoryNext]_<<vars, shell>>
  PROVE  MInv'
<1>1. /\ HeapInv /\ todo \in Seq(Call) /\ ptr \in [Pointers -> Nat]
      /\ pc # "idle" => todo # <<>>
  BY MInvParts DEF ShellInv
<1>2. CASE Enter
  <2>1. HeapInv'
    BY <1>1, <1>2, HeapKept DEF Enter
  <2>2. todo' \in Seq(Call)
    BY <1>2, LineCalls DEF Enter
  <2> QED
    BY <1>1, <1>2, <2>1, <2>2, MInvParts1 DEF Enter, Prompt, vars, ShellInv
<1>3. CASE Calls
  <2>1. Called.size \in Nat /\ ptr[Called.var] \in Nat
    BY <1>1, <1>3, CallsRest DEF Calls, Doing, Call
  <2>2. HeapInv'
    BY <1>1, <1>3, <2>1, CallStep DEF Calls, CallMalloc, CallFree
  <2> QED
    BY <1>1, <1>3, <2>2, MInvParts1 DEF Calls, Doing, shell, ShellInv
<1>4. CASE Allocates
  <2>1. HeapInv'
    BY <1>1, <1>4, ExactStep, SplitStep DEF Allocates
  <2>2. todo' = Tail(todo) /\ ptr' = [ptr EXCEPT ![Called.var] = Payload(curr)]
    BY <1>4 DEF Allocates, Returned
  <2>3. Payload(curr) \in Nat
    BY <1>1, Constants DEF HeapInv, Payload
  <2>4. ptr' \in [Pointers -> Nat]
    BY <1>1, <2>2, <2>3
  <2> QED
    <3>1. pc = "malloc" /\ pc' = "idle"
      BY <1>4 DEF Allocates, MallocExact, MallocSplit, Return
    <3>2. todo' \in Seq(Call)
      BY <1>1, <2>2, <3>1, CallsRest
    <3> QED
      BY <2>1, <2>4, <3>1, <3>2, MInvParts1 DEF ShellInv
<1>5. CASE Walks
  <2>1. HeapInv'
    BY <1>1, <1>5, WalkStep, MarkStep, AbsorbStep DEF Walks
  <2> QED
    BY <1>1, <1>5, <2>1, MInvParts1
    DEF Walks, shell, ShellInv, MallocNext, FreeNext, FreeMark, MergeAbsorb, MergeNext
<1>6. CASE Frees
  <2>1. HeapInv'
    BY <1>1, <1>6, ReturnStep DEF Frees
  <2> QED
    <3>1. pc # "idle" /\ pc' = "idle"
      BY <1>6 DEF Frees, FreeInvalid, MergeDone, Return
    <3>2. todo' \in Seq(Call) /\ ptr' = ptr
      BY <1>1, <1>6, <3>1, CallsRest DEF Frees
    <3> QED
      BY <1>1, <2>1, <3>1, <3>2, MInvParts1 DEF ShellInv
<1>7. CASE Stray
  <2>1. HeapInv'
    BY <1>1, <1>7, StrayStep
  <2>2. todo' \in Seq(Call)
    BY <1>1, <1>7, CallsRest DEF Stray, Doing
  <2> QED
    BY <1>1, <1>7, <2>1, <2>2, MInvParts1 DEF Stray, Doing, ShellInv
<1>8. CASE Links
  <2>1. HeapInv'
    BY <1>1, <1>8, HeapKept DEF Links
  <2>2. todo' \in Seq(Call)
    BY <1>1, <1>8, CallsRest DEF Links, Doing
  <2> QED
    BY <1>1, <1>8, <2>1, <2>2, MInvParts1 DEF Links, Doing, vars, ShellInv
<1>9. CASE UNCHANGED <<vars, shell>>
  <2>1. HeapInv'
    BY <1>1, <1>9, HeapKept
  <2> QED
    BY <1>1, <1>9, <2>1, MInvParts1 DEF vars, shell, ShellInv
<1>10. CASE StrayUnder
  <2>1. HeapInv'
    BY <1>1, <1>10, UnderStep
  <2>2. todo' \in Seq(Call)
    BY <1>1, <1>10, CallsRest DEF StrayUnder, Doing
  <2> QED
    BY <1>1, <1>10, <2>1, <2>2, MInvParts1 DEF StrayUnder, Doing, ShellInv
<1>11. CASE Spills \/ Overwrites
  <2>1. HeapInv'
    BY <1>1, <1>11, HeapKept DEF Spills, Overwrites
  <2>2. todo' \in Seq(Call)
    BY <1>1, <1>11, CallsRest DEF Spills, Overwrites, Doing
  <2> QED
    BY <1>1, <1>11, <2>1, <2>2, MInvParts1 DEF Spills, Overwrites, Doing, vars, ShellInv
<1> QED
  BY <1>2, <1>3, <1>4, <1>5, <1>6, <1>7, <1>8, <1>9, <1>10, <1>11 DEF MemoryNext

(* A line that is not risky has no call that writes over a header.         *)
Behaved == (intact \/ Risky(line)) /\ (Risky(line) \/ todo \in Seq(SafeCall))

LEMMA InitBehaved ==
  ASSUME MemoryInit
  PROVE  Behaved
<1>1. PwdLine.name \in Nat /\ PwdLine.text \in Nat
  BY DEF PwdLine
<1>2. VariablesPush(PwdLine) \in Seq(SafeCall)
  BY <1>1, PushCalls
<1> QED
  BY <1>2 DEF MemoryInit, Behaved

LEMMA SafeRest ==
  ASSUME todo \in Seq(SafeCall), todo # <<>>
  PROVE  Called.call \notin {"spill", "wild"} /\ Tail(todo) \in Seq(SafeCall)
<1>1. Head(todo) \in SafeCall
  OBVIOUS
<1> QED
  BY <1>1 DEF Called, SafeCall

LEMMA MNextBehaved ==
  ASSUME MInv, Behaved, [MemoryNext]_<<vars, shell>>
  PROVE  Behaved'
<1>1. CASE Enter
  <2>1. PICK l \in Lines : line' = l /\ todo' = Executed(l)
    BY <1>1 DEF Enter
  <2>2. intact' = TRUE
    BY <1>1 DEF Enter, Behaved
  <2>3. Risky(l) \/ Executed(l) \in Seq(SafeCall)
    BY LineCalls
  <2> QED
    BY <2>1, <2>2, <2>3 DEF Behaved, Risky
<1>2. CASE UNCHANGED <<todo, intact, line>>
  BY <1>2 DEF Behaved, Risky
<1>3. CASE /\ todo # <<>> /\ todo' = Tail(todo) /\ line' = line
           /\ intact' = intact \/ Called.call \in {"spill", "wild"}
  <2>1. Risky(line)' = Risky(line)
    BY <1>3 DEF Risky
  <2>2. CASE Risky(line)
    BY <2>1, <2>2 DEF Behaved
  <2>3. CASE ~Risky(line)
    BY <1>3, <2>1, <2>3, SafeRest DEF Behaved
  <2> QED
    BY <2>2, <2>3
<1>4. Calls \/ Walks \/ UNCHANGED <<vars, shell>> => UNCHANGED <<todo, intact, line>>
  BY DEF Calls, Walks, shell
<1>5. pc # "idle" => todo # <<>>
  BY MInvParts DEF ShellInv
<1>6. ASSUME Allocates \/ Frees \/ Stray \/ StrayUnder \/ Spills \/ Overwrites \/ Links
      PROVE  /\ todo # <<>> /\ todo' = Tail(todo) /\ line' = line
             /\ intact' = intact \/ Called.call \in {"spill", "wild"}
  <2>1. CASE Allocates
    BY <1>5, <2>1 DEF Allocates, MallocExact, MallocSplit, Returned
  <2>2. CASE Frees
    BY <1>5, <2>2 DEF Frees, FreeInvalid, MergeDone
  <2>3. CASE Stray \/ StrayUnder \/ Links
    BY <2>3 DEF Stray, StrayUnder, Links, Doing
  <2>4. CASE Spills \/ Overwrites
    BY <2>4 DEF Spills, Overwrites, Doing
  <2> QED
    BY <1>6, <2>1, <2>2, <2>3, <2>4
<1> QED
  BY <1>1, <1>2, <1>3, <1>4, <1>6 DEF MemoryNext

(* Blocks in use never overlap one another or a header, whatever lines are *)
(* entered, with every stray NUL, unless a risky line has written over a   *)
(* header; no other line does.                                             *)
THEOREM StrayNulsDoNoHarm == MemorySpec => []Apart
<1>1. MemoryInit => MInv /\ Behaved
  BY InitMInv, InitBehaved
<1>2. MInv /\ Behaved /\ [MemoryNext]_<<vars, shell>> => MInv' /\ Behaved'
  BY MNextMInv, MNextBehaved
<1>3. MInv /\ Behaved => Apart
  BY DEF MInv, Behaved, Apart
<1> QED
  BY <1>1, <1>2, <1>3, PTL DEF MemorySpec
-----------------------------------------------------------------------------
(* What the line gives back.  Its calls are a sequence whose head is       *)
(* carried out, so what is said of them is said of every rest of it.       *)
Consumed(c) ==
  CASE c.call = "free" -> {c.var}
    [] c.call = "push" -> {"node", "name", "value"}
    [] OTHER -> {}
Allocated(c) == IF c.call = "malloc" THEN {c.var} ELSE {}

(* The pointers that calls t free or link as they are before t.            *)
Need(t) ==
  {v \in Pointers : \E k \in DOMAIN t :
     v \in Consumed(t[k]) /\ \A j \in DOMAIN t : j < k => v \notin Allocated(t[j])}

(* No pointer is freed or linked twice with the same block.                *)
Sound(t) ==
  \A j, k \in DOMAIN t : j < k =>
    \A v \in Consumed(t[j]) \cap Consumed(t[k]) :
      \E i \in DOMAIN t : j < i /\ i < k /\ v \in Allocated(t[i])

Pushing(t) == \E k \in DOMAIN t : t[k].call = "push"
PushOnce(t) == \A j, k \in DOMAIN t : t[j].call = "push" /\ t[k].call = "push" => j = k

(* The calls of malloc and of free in t, by their distance from its end.   *)
CallsLeft(t, call) == {e \in 0 .. Len(t) - 1 : t[Len(t) - e].call = call}
Gain(t) == Cardinality(CallsLeft(t, "malloc")) - Cardinality(CallsLeft(t, "free"))

(* The list's nodes are never freed.                                       *)
NoNodeFreed(t) == \A k \in DOMAIN t : t[k].call = "free" => t[k].var # "node"

Orderly(t) == Sound(t) /\ PushOnce(t) /\ NoNodeFreed(t)

(* The line names a variable that is not yet in the list.                  *)
NewName == line.command = "set" /\ Index(line.is) = {}

(* The pointers that the rest of the line uses as they are: a variable     *)
(* that is set again keeps its node.                                       *)
Rest == IF pc = "merge" THEN Tail(todo) ELSE todo
Needed == IF NewName THEN Need(Rest) ELSE Need(Rest) \ {"node"}

(* The blocks that the line has allocated and not yet freed, and how many  *)
(* there will be in the end.                                               *)
New == DOMAIN live \ before
NewNode ==
  IF Pushing(todo) THEN NewName ELSE \E k \in DOMAIN variables : variables[k].node \notin before
Total ==
  CASE line.command = "set" -> 3 + (IF NewNode THEN 1 ELSE 0)
    [] line.command = "ls" -> 1
    [] line.command \in {"touch", "mkdir", "cd", "edit", "cat"} -> IF line.found THEN 0 ELSE 1
    [] OTHER -> 0

Entry ==
  [is : {l.is : l \in Lines} \cup {PwdLine.is}, node : Nat, name : Nat, value : Nat]
Listed == variables \in Seq(Entry) /\ line \in Lines \cup {PwdLine}

(* The loops of malloc and free run for the call at the head; free has not *)
(* gone past the block it looks for.                                       *)
OnCourse ==
  /\ pc \in {"idle", "malloc", "free", "merge"}
  /\ pc = "malloc" => Called.call = "malloc"
  /\ pc \in {"free", "merge"} => Called.call = "free"
  /\ pc = "free" => arg = ptr[Called.var] /\ curr # Null /\ Payload(curr) <= arg

NeededHeld ==
  /\ \A v \in Needed :
       /\ ptr[v] \in New
       /\ \A k \in DOMAIN variables : \A i \in 1 .. 3 : Of(variables[k])[i] # ptr[v]
  /\ \A v, w \in Needed : ptr[v] = ptr[w] => v = w

(* Until a variable is linked, what all of them point to is older.         *)
ToPush ==
  Pushing(todo) =>
    /\ line.command = "set"
    /\ \A k \in DOMAIN variables : \A i \in 1 .. 3 : Of(variables[k])[i] \in before

Counted ==
  /\ IsFiniteSet(DOMAIN live) /\ before \subseteq DOMAIN live
  /\ Cardinality(New) + Gain(todo) + (IF pc = "merge" THEN 1 ELSE 0) = Total

BlocksInv ==
  /\ Orderly(todo) /\ Listed /\ OnCourse /\ NeededHeld /\ ToPush /\ Kept /\ Counted

LEMMA Rests ==
  ASSUME NEW t \in Seq(Call), t # <<>>
  PROVE  /\ Head(t) = t[1] /\ Head(t) \in Call /\ Tail(t) \in Seq(Call)
         /\ Len(t) \in Nat /\ Len(t) >= 1 /\ Len(Tail(t)) = Len(t) - 1
         /\ DOMAIN t = 1 .. Len(t) /\ DOMAIN Tail(t) = 1 .. Len(t) - 1
         /\ \A k \in 1 .. Len(t) - 1 : Tail(t)[k] = t[k + 1]
         /\ \A k \in DOMAIN t : t[k] \in Call
OBVIOUS

LEMMA OfPointers ==
  ASSUME NEW c \in Call
  PROVE  Consumed(c) \subseteq Pointers /\ Allocated(c) \subseteq Pointers
BY DEF Consumed, Allocated, Call, Pointers

LEMMA NeedStep ==
  ASSUME NEW t \in Seq(Call), t # <<>>
  PROVE  Need(t) = Consumed(Head(t)) \cup (Need(Tail(t)) \ Allocated(Head(t)))
<1>1. ASSUME NEW v \in Need(t), v \notin Consumed(Head(t))
      PROVE  v \in Need(Tail(t)) \ Allocated(Head(t))
  <2>1. PICK k \in DOMAIN t : v \in Consumed(t[k])
                              /\ \A j \in DOMAIN t : j < k => v \notin Allocated(t[j])
    BY <1>1 DEF Need
  <2>2. k # 1 /\ k - 1 \in DOMAIN Tail(t) /\ Tail(t)[k - 1] = t[k]
    BY <1>1, <2>1, Rests
  <2>3. \A j \in DOMAIN Tail(t) : j < k - 1 => v \notin Allocated(Tail(t)[j])
    <3> TAKE j \in DOMAIN Tail(t)
    <3>1. j + 1 \in DOMAIN t /\ Tail(t)[j] = t[j + 1] /\ (j < k - 1 => j + 1 < k)
      BY <2>1, Rests
    <3> QED
      BY <2>1, <3>1
  <2>4. v \notin Allocated(Head(t))
    BY <2>1, <2>2, Rests
  <2> QED
    BY <1>1, <2>1, <2>2, <2>3, <2>4 DEF Need
<1>2. ASSUME NEW v \in Consumed(Head(t))
      PROVE  v \in Need(t)
  <2>1. v \in Pointers /\ 1 \in DOMAIN t /\ \A j \in DOMAIN t : ~(j < 1)
    BY <1>2, Rests, OfPointers
  <2> QED
    BY <1>2, <2>1, Rests DEF Need
<1>3. ASSUME NEW v \in Need(Tail(t)), v \notin Allocated(Head(t))
      PROVE  v \in Need(t)
  <2>1. PICK k \in DOMAIN Tail(t) :
          v \in Consumed(Tail(t)[k])
          /\ \A j \in DOMAIN Tail(t) : j < k => v \notin Allocated(Tail(t)[j])
    BY <1>3 DEF Need
  <2>2. k + 1 \in DOMAIN t /\ v \in Consumed(t[k + 1])
    BY <2>1, Rests
  <2>3. ASSUME NEW j \in DOMAIN t, j < k + 1
        PROVE  v \notin Allocated(t[j])
    <3>1. CASE j = 1
      BY <1>3, <3>1, Rests
    <3>2. CASE j # 1
      <4>1. j - 1 \in DOMAIN Tail(t) /\ Tail(t)[j - 1] = t[j] /\ j - 1 < k
        BY <2>1, <2>3, <3>2, Rests
      <4> QED
        BY <2>1, <4>1
    <3> QED
      BY <3>1, <3>2
  <2>4. v \in Pointers
    BY <1>3 DEF Need
  <2> QED
    BY <2>2, <2>3, <2>4 DEF Need
<1> QED
  BY <1>1, <1>2, <1>3

LEMMA SoundStep ==
  ASSUME NEW t \in Seq(Call), t # <<>>
  PROVE  Sound(t) <=> Sound(Tail(t)) /\ Consumed(Head(t)) \cap Need(Tail(t)) = {}
<1>1. ASSUME Sound(t), NEW v \in Consumed(Head(t)) \cap Need(Tail(t))
      PROVE  FALSE
  <2>1. PICK k \in DOMAIN Tail(t) :
          v \in Consumed(Tail(t)[k])
          /\ \A j \in DOMAIN Tail(t) : j < k => v \notin Allocated(Tail(t)[j])
    BY <1>1 DEF Need
  <2>2. /\ 1 \in DOMAIN t /\ k + 1 \in DOMAIN t /\ 1 < k + 1
        /\ v \in Consumed(t[1]) \cap Consumed(t[k + 1])
    BY <1>1, <2>1, Rests
  <2>3. PICK i \in DOMAIN t : 1 < i /\ i < k + 1 /\ v \in Allocated(t[i])
    BY <1>1, <2>2 DEF Sound
  <2>4. i - 1 \in DOMAIN Tail(t) /\ Tail(t)[i - 1] = t[i] /\ i - 1 < k
    BY <2>1, <2>3, Rests
  <2> QED
    BY <2>1, <2>3, <2>4
<1>2. ASSUME Sound(t)
      PROVE  Sound(Tail(t))
  <2> SUFFICES ASSUME NEW j \in DOMAIN Tail(t), NEW k \in DOMAIN Tail(t), j < k,
                      NEW v \in Consumed(Tail(t)[j]) \cap Consumed(Tail(t)[k])
               PROVE  \E i \in DOMAIN Tail(t) : j < i /\ i < k /\ v \in Allocated(Tail(t)[i])
    BY DEF Sound
  <2>1. /\ j + 1 \in DOMAIN t /\ k + 1 \in DOMAIN t /\ j + 1 < k + 1
        /\ v \in Consumed(t[j + 1]) \cap Consumed(t[k + 1])
    BY Rests
  <2>2. PICK i \in DOMAIN t : j + 1 < i /\ i < k + 1 /\ v \in Allocated(t[i])
    BY <1>2, <2>1 DEF Sound
  <2>3. i - 1 \in DOMAIN Tail(t) /\ Tail(t)[i - 1] = t[i] /\ j < i - 1 /\ i - 1 < k
    BY <2>2, Rests
  <2> QED
    BY <2>2, <2>3
<1>3. ASSUME Sound(Tail(t)), Consumed(Head(t)) \cap Need(Tail(t)) = {}
      PROVE  Sound(t)
  <2> SUFFICES ASSUME NEW j \in DOMAIN t, NEW k \in DOMAIN t, j < k,
                      NEW v \in Consumed(t[j]) \cap Consumed(t[k])
               PROVE  \E i \in DOMAIN t : j < i /\ i < k /\ v \in Allocated(t[i])
    BY DEF Sound
  <2>1. /\ k - 1 \in DOMAIN Tail(t) /\ Tail(t)[k - 1] = t[k]
    BY Rests
  <2>2. ASSUME NEW i \in DOMAIN Tail(t), v \in Allocated(Tail(t)[i]), j - 1 < i, i < k - 1
        PROVE  \E h \in DOMAIN t : j < h /\ h < k /\ v \in Allocated(t[h])
    <3>1. i + 1 \in DOMAIN t /\ t[i + 1] = Tail(t)[i] /\ j < i + 1 /\ i + 1 < k
      BY <2>2, Rests
    <3> QED
      BY <2>2, <3>1
  <2>3. CASE j = 1
    <3>1. v \in Consumed(Head(t)) /\ v \in Pointers
      BY <2>3, Rests, OfPointers
    <3>2. v \notin Need(Tail(t))
      BY <1>3, <3>1
    <3>3. PICK i \in DOMAIN Tail(t) : i < k - 1 /\ v \in Allocated(Tail(t)[i])
      BY <2>1, <3>1, <3>2 DEF Need
    <3>4. j - 1 < i
      BY <2>3, <3>3, Rests
    <3> QED
      BY <2>2, <3>3, <3>4
  <2>4. CASE j # 1
    <3>1. /\ j - 1 \in DOMAIN Tail(t) /\ Tail(t)[j - 1] = t[j] /\ j - 1 < k - 1
      BY <2>4, Rests
    <3>2. PICK i \in DOMAIN Tail(t) : j - 1 < i /\ i < k - 1 /\ v \in Allocated(Tail(t)[i])
      BY <1>3, <2>1, <3>1 DEF Sound
    <3> QED
      BY <2>2, <3>2
  <2> QED
    BY <2>3, <2>4
<1> QED
  BY <1>1, <1>2, <1>3

LEMMA PushStep ==
  ASSUME NEW t \in Seq(Call), t # <<>>
  PROVE  /\ Pushing(t) <=> Head(t).call = "push" \/ Pushing(Tail(t))
         /\ PushOnce(t) <=> PushOnce(Tail(t)) /\ (Head(t).call = "push" => ~Pushing(Tail(t)))
<1>1. \A k \in DOMAIN Tail(t) : k + 1 \in DOMAIN t /\ t[k + 1] = Tail(t)[k]
  BY Rests
<1>2. \A k \in DOMAIN t : k # 1 => k - 1 \in DOMAIN Tail(t) /\ Tail(t)[k - 1] = t[k]
  BY Rests
<1>3. 1 \in DOMAIN t /\ Head(t) = t[1] /\ DOMAIN t \subseteq Nat /\ DOMAIN Tail(t) \subseteq Nat
      /\ \A k \in DOMAIN Tail(t) : k + 1 # 1
  BY Rests
<1>4. Pushing(t) <=> Head(t).call = "push" \/ Pushing(Tail(t))
  <2>1. ASSUME Pushing(t), Head(t).call # "push"
        PROVE  Pushing(Tail(t))
    <3>1. PICK k \in DOMAIN t : t[k].call = "push"
      BY <2>1 DEF Pushing
    <3>2. k # 1
      BY <1>3, <2>1, <3>1
    <3>3. k - 1 \in DOMAIN Tail(t) /\ Tail(t)[k - 1] = t[k]
      BY <1>2, <3>2
    <3> QED
      BY <3>1, <3>3 DEF Pushing
  <2>2. ASSUME Head(t).call = "push"
        PROVE  Pushing(t)
    BY <1>3, <2>2, Zenon DEF Pushing
  <2>3. ASSUME Pushing(Tail(t))
        PROVE  Pushing(t)
    BY <1>1, <2>3, Zenon DEF Pushing
  <2> QED
    BY <2>1, <2>2, <2>3, Zenon
<1>5. ASSUME PushOnce(t)
      PROVE  PushOnce(Tail(t)) /\ (Head(t).call = "push" => ~Pushing(Tail(t)))
  <2>1. PushOnce(Tail(t))
    <3> SUFFICES ASSUME NEW j \in DOMAIN Tail(t), NEW k \in DOMAIN Tail(t),
                        Tail(t)[j].call = "push", Tail(t)[k].call = "push"
                 PROVE  j = k
      BY DEF PushOnce
    <3>1. j + 1 = k + 1
      BY <1>1, <1>5 DEF PushOnce
    <3> QED
      BY <1>3, <3>1
  <2>2. Head(t).call = "push" => ~Pushing(Tail(t))
    BY <1>1, <1>3, <1>5 DEF PushOnce, Pushing
  <2> QED
    BY <2>1, <2>2
<1>6. ASSUME PushOnce(Tail(t)), Head(t).call = "push" => ~Pushing(Tail(t)),
             NEW j \in DOMAIN t, NEW k \in DOMAIN t, t[j].call = "push", t[k].call = "push"
      PROVE  j = k
  <2>1. CASE j = 1 \/ k = 1
    BY <1>2, <1>3, <1>6, <2>1 DEF Pushing
  <2>2. CASE j # 1 /\ k # 1
    <3>1. j - 1 = k - 1
      BY <1>2, <1>6, <2>2 DEF PushOnce
    <3> QED
      BY <1>3, <3>1
  <2> QED
    BY <2>1, <2>2
<1> QED
  BY <1>4, <1>5, <1>6 DEF PushOnce

LEMMA NodeStep ==
  ASSUME NEW t \in Seq(Call), t # <<>>
  PROVE  NoNodeFreed(t) <=>
           NoNodeFreed(Tail(t)) /\ (Head(t).call = "free" => Head(t).var # "node")
<1>1. \A k \in DOMAIN Tail(t) : k + 1 \in DOMAIN t /\ t[k + 1] = Tail(t)[k]
  BY Rests
<1>2. \A k \in DOMAIN t : k # 1 => k - 1 \in DOMAIN Tail(t) /\ Tail(t)[k - 1] = t[k]
  BY Rests
<1>3. 1 \in DOMAIN t /\ Head(t) = t[1]
  BY Rests
<1>4. ASSUME NoNodeFreed(t)
      PROVE  NoNodeFreed(Tail(t)) /\ (Head(t).call = "free" => Head(t).var # "node")
  BY <1>1, <1>3, <1>4, Zenon DEF NoNodeFreed
<1>5. ASSUME NoNodeFreed(Tail(t)), Head(t).call = "free" => Head(t).var # "node"
      PROVE  NoNodeFreed(t)
  BY <1>2, <1>3, <1>5, Zenon DEF NoNodeFreed
<1> QED
  BY <1>4, <1>5

LEMMA CountFinite ==
  ASSUME NEW t \in Seq(Call), NEW call
  PROVE  IsFiniteSet(CallsLeft(t, call)) /\ Cardinality(CallsLeft(t, call)) \in Nat
<1>1. IsFiniteSet(0 .. Len(t) - 1)
  BY FS_Interval
<1>2. CallsLeft(t, call) \in SUBSET (0 .. Len(t) - 1)
  BY DEF CallsLeft
<1>3. IsFiniteSet(CallsLeft(t, call))
  BY <1>1, <1>2, FS_Subset
<1> QED
  BY <1>3, FS_CardinalityType

LEMMA CountStep ==
  ASSUME NEW t \in Seq(Call), t # <<>>, NEW call
  PROVE  Cardinality(CallsLeft(t, call)) =
           Cardinality(CallsLeft(Tail(t), call)) + (IF Head(t).call = call THEN 1 ELSE 0)
<1> DEFINE n == Len(t) - 1
<1>1. n \in Nat /\ Len(t) = n + 1 /\ Len(Tail(t)) = n
  BY Rests
<1>2. \A e \in 0 .. n - 1 : Tail(t)[n - e] = t[Len(t) - e]
  BY <1>1, Rests
<1>3. t[Len(t) - n] = Head(t)
  BY <1>1, Rests
<1> HIDE DEF n
<1>4. CallsLeft(Tail(t), call) = {e \in 0 .. n - 1 : t[Len(t) - e].call = call}
  BY <1>1, <1>2 DEF CallsLeft
<1>5. n \notin CallsLeft(Tail(t), call)
  BY <1>1, <1>4
<1>6. CallsLeft(t, call) = {e \in 0 .. n : t[Len(t) - e].call = call}
  BY <1>1 DEF CallsLeft
<1>7. IsFiniteSet(CallsLeft(Tail(t), call)) /\ Cardinality(CallsLeft(Tail(t), call)) \in Nat
  BY CountFinite, Rests
<1>8. CASE Head(t).call = call
  <2>1. CallsLeft(t, call) = CallsLeft(Tail(t), call) \cup {n}
    BY <1>1, <1>3, <1>4, <1>6, <1>8
  <2> QED
    BY <1>5, <1>7, <1>8, <2>1, FS_AddElement
<1>9. CASE Head(t).call # call
  <2>1. CallsLeft(t, call) = CallsLeft(Tail(t), call)
    BY <1>1, <1>3, <1>4, <1>6, <1>9
  <2> QED
    BY <1>7, <1>9, <2>1
<1> QED
  BY <1>8, <1>9

LEMMA GainStep ==
  ASSUME NEW t \in Seq(Call), t # <<>>
  PROVE  /\ Gain(t) \in Int /\ Gain(Tail(t)) \in Int
         /\ Gain(t) = Gain(Tail(t)) + (CASE Head(t).call = "malloc" -> 1
                                         [] Head(t).call = "free" -> 0 - 1
                                         [] OTHER -> 0)
<1>1. Cardinality(CallsLeft(t, "malloc")) =
        Cardinality(CallsLeft(Tail(t), "malloc")) + (IF Head(t).call = "malloc" THEN 1 ELSE 0)
  BY CountStep
<1>2. Cardinality(CallsLeft(t, "free")) =
        Cardinality(CallsLeft(Tail(t), "free")) + (IF Head(t).call = "free" THEN 1 ELSE 0)
  BY CountStep
<1>3. /\ Cardinality(CallsLeft(Tail(t), "malloc")) \in Nat
      /\ Cardinality(CallsLeft(Tail(t), "free")) \in Nat
  BY CountFinite, Rests
<1> QED
  BY <1>1, <1>2, <1>3 DEF Gain

(* Nothing is left to do.                                                  *)
LEMMA AtEnd == /\ Need(<<>>) = {} /\ Sound(<<>>) /\ ~Pushing(<<>>) /\ PushOnce(<<>>)
               /\ NoNodeFreed(<<>>)
               /\ Gain(<<>>) = 0
<1>1. CallsLeft(<<>>, "malloc") = {} /\ CallsLeft(<<>>, "free") = {}
  BY DEF CallsLeft
<1>2. Cardinality(CallsLeft(<<>>, "malloc")) = 0 /\ Cardinality(CallsLeft(<<>>, "free")) = 0
  BY <1>1, FS_EmptySet, Zenon
<1>3. Gain(<<>>) = 0
  BY <1>2 DEF Gain
<1> QED
  BY <1>3 DEF Need, Sound, Pushing, PushOnce, NoNodeFreed

(* One call more at the front.                                             *)
LEMMA Before ==
  ASSUME NEW c \in Call, NEW s \in Seq(Call)
  PROVE  LET t == <<c>> \o s IN
         /\ t \in Seq(Call)
         /\ Need(t) = Consumed(c) \cup (Need(s) \ Allocated(c))
         /\ Sound(t) <=> Sound(s) /\ Consumed(c) \cap Need(s) = {}
         /\ Pushing(t) <=> c.call = "push" \/ Pushing(s)
         /\ PushOnce(t) <=> PushOnce(s) /\ (c.call = "push" => ~Pushing(s))
         /\ NoNodeFreed(t) <=> NoNodeFreed(s) /\ (c.call = "free" => c.var # "node")
         /\ Gain(t) = Gain(s) + (CASE c.call = "malloc" -> 1
                                   [] c.call = "free" -> 0 - 1
                                   [] OTHER -> 0)
         /\ Gain(t) \in Int /\ Gain(s) \in Int
<1> DEFINE t == <<c>> \o s
<1>1. t \in Seq(Call) /\ t # <<>> /\ Head(t) = c /\ Tail(t) = s
  OBVIOUS
<1> HIDE DEF t
<1>2. Need(t) = Consumed(c) \cup (Need(s) \ Allocated(c))
  BY <1>1, NeedStep
<1>3. Sound(t) <=> Sound(s) /\ Consumed(c) \cap Need(s) = {}
  BY <1>1, SoundStep
<1>4. /\ Pushing(t) <=> c.call = "push" \/ Pushing(s)
      /\ PushOnce(t) <=> PushOnce(s) /\ (c.call = "push" => ~Pushing(s))
  BY <1>1, PushStep
<1>5. /\ Gain(t) \in Int /\ Gain(s) \in Int
      /\ Gain(t) = Gain(s) + (CASE c.call = "malloc" -> 1
                                [] c.call = "free" -> 0 - 1
                                [] OTHER -> 0)
  BY <1>1, GainStep
<1>6. NoNodeFreed(t) <=> NoNodeFreed(s) /\ (c.call = "free" => c.var # "node")
  BY <1>1, NodeStep
<1> QED
  BY <1>1, <1>2, <1>3, <1>4, <1>5, <1>6 DEF t

(* Calls written as a tuple, and calls put together, one at a time.        *)
(* Concatenation under a name that the provers do not look into.           *)
Join(r, s) == r \o s

LEMMA Regroup ==
  ASSUME NEW r \in Seq(Call), NEW s \in Seq(Call), NEW t \in Seq(Call)
  PROVE  Join(r, s) \in Seq(Call) /\ Join(Join(r, s), t) = Join(r, Join(s, t))
BY DEF Join

LEMMA RegroupAll ==
  ASSUME NEW r \in Seq(Call), NEW s \in Seq(Call), NEW t \in Seq(Call), NEW u \in Seq(Call)
  PROVE  /\ Join(Join(Join(r, s), t), u) = Join(r, Join(s, Join(t, u)))
         /\ Join(Join(r, Join(s, t)), u) = Join(r, Join(s, Join(t, u)))
BY Regroup

LEMMA Together ==
  ASSUME NEW r \in Seq(Call), NEW s \in Seq(Call), NEW a \in Call
  PROVE  (<<a>> \o r) \o s = <<a>> \o (r \o s)
OBVIOUS

LEMMA Two ==
  ASSUME NEW a \in Call, NEW b \in Call, NEW s \in Seq(Call)
  PROVE  <<a, b>> \o s = <<a>> \o (<<b>> \o s)
<1> DEFINE x == <<a, b>>
           y == <<a>> \o <<b>>
<1>1. x \in Seq(Call) /\ Len(x) = 2 /\ x[1] = a /\ x[2] = b
  OBVIOUS
<1>2. y \in Seq(Call) /\ Len(y) = 2 /\ y[1] = a /\ y[2] = b
  OBVIOUS
<1> HIDE DEF x, y
<1>3. \A i \in 1 .. Len(x) : x[i] = y[i]
  BY <1>1, <1>2
<1>4. x = y
  BY <1>1, <1>2, <1>3, SeqEqual
<1>5. y \o s = <<a>> \o (<<b>> \o s)
  BY Together DEF y
<1> QED
  BY <1>4, <1>5 DEF x

LEMMA Three ==
  ASSUME NEW a \in Call, NEW b \in Call, NEW c \in Call, NEW s \in Seq(Call)
  PROVE  <<a, b, c>> \o s = <<a>> \o (<<b>> \o (<<c>> \o s))
<1>1. <<a, b, c>> = <<a, b>> \o <<c>>
  OBVIOUS
<1>2. (<<a, b>> \o <<c>>) \o s = <<a, b>> \o (<<c>> \o s)
  OBVIOUS
<1>3. <<c>> \o s \in Seq(Call)
  OBVIOUS
<1>4. <<a, b>> \o (<<c>> \o s) = <<a>> \o (<<b>> \o (<<c>> \o s))
  BY <1>3, Two
<1> QED
  BY <1>1, <1>2, <1>4

(* What is known of calls t: what they need, whether they link, and how    *)
(* many blocks they leave.                                                 *)
Worth(t, need, push, gain) ==
  /\ t \in Seq(Call) /\ Orderly(t)
  /\ Need(t) = need /\ (Pushing(t) <=> push) /\ gain \in Int /\ Gain(t) = gain

LEMMA MallocBefore ==
  ASSUME NEW s, NEW need, NEW push \in BOOLEAN, NEW gain, Worth(s, need, push, gain),
         NEW v \in Pointers, NEW n \in Nat
  PROVE  Worth(<<Malloc(v, n)>> \o s, need \ {v}, push, gain + 1)
<1>1. Malloc(v, n) \in Call /\ Malloc(v, n).call = "malloc"
      /\ Consumed(Malloc(v, n)) = {} /\ Allocated(Malloc(v, n)) = {v}
  BY DEF Malloc, Call, Consumed, Allocated
<1> QED
  BY <1>1, Before DEF Worth, Orderly

(* Writes outside of a block allocate nothing and free nothing.            *)
LEMMA SkipBefore ==
  ASSUME NEW s, NEW need, NEW push \in BOOLEAN, NEW gain, Worth(s, need, push, gain),
         NEW c \in Call, c.call \in {"nul", "under", "spill", "wild"}
  PROVE  Worth(<<c>> \o s, need, push, gain)
<1>1. Consumed(c) = {} /\ Allocated(c) = {}
  BY DEF Consumed, Allocated
<1>2. s \in Seq(Call) /\ Orderly(s) /\ Need(s) = need /\ (Pushing(s) <=> push)
      /\ gain \in Int /\ Gain(s) = gain
  BY DEF Worth, Orderly
<1> DEFINE t == <<c>> \o s
<1>3. /\ t \in Seq(Call) /\ Need(t) = Consumed(c) \cup (Need(s) \ Allocated(c))
      /\ Sound(t) <=> Sound(s) /\ Consumed(c) \cap Need(s) = {}
      /\ Pushing(t) <=> c.call = "push" \/ Pushing(s)
      /\ PushOnce(t) <=> PushOnce(s) /\ (c.call = "push" => ~Pushing(s))
      /\ NoNodeFreed(t) <=> NoNodeFreed(s) /\ (c.call = "free" => c.var # "node")
  BY <1>1, <1>2, Before DEF Orderly
<1>4. Gain(t) = Gain(s) + 0
  BY <1>1, <1>2, Before DEF Orderly
<1> HIDE DEF t
<1>5. Need(t) = need /\ Orderly(t) /\ (Pushing(t) <=> push)
  BY <1>1, <1>2, <1>3 DEF Orderly
<1> QED
  BY <1>2, <1>3, <1>4, <1>5 DEF Worth, t

LEMMA NulBefore ==
  ASSUME NEW s, NEW need, NEW push \in BOOLEAN, NEW gain, Worth(s, need, push, gain),
         NEW v \in Pointers, NEW n \in Nat
  PROVE  Worth(<<Nul(v, n)>> \o s, need, push, gain)
<1>1. Nul(v, n) \in Call /\ Nul(v, n).call = "nul"
  BY DEF Nul, Call
<1> QED
  BY <1>1, SkipBefore

LEMMA CombinedBefore ==
  ASSUME NEW s, NEW need, NEW push \in BOOLEAN, NEW gain, Worth(s, need, push, gain),
         NEW v \in Pointers, NEW n \in Nat, NEW k \in Nat
  PROVE  /\ Worth(Combined(v, n, k) \o s, need \ {v}, push, gain + 1)
         /\ Worth(CombinedNone(v) \o s, need \ {v}, push, gain + 1)
<1>1. /\ Malloc(v, n) \in Call /\ Malloc(v, 0) \in Call /\ s \in Seq(Call)
      /\ Spill(v, n, k) \in Call /\ Spill(v, n, k).call = "spill"
      /\ Under(v) \in Call /\ Under(v).call = "under"
  BY CallsIn, Wilder DEF Spill, Under, Worth
<1> DEFINE m == Malloc(v, n)
           e == Malloc(v, 0)
           c == Spill(v, n, k)
           u == Under(v)
<1> HIDE DEF m, e, c, u
<1>2. m \in Call /\ e \in Call /\ c \in Call /\ u \in Call
  BY <1>1 DEF m, e, c, u
<1>3. Worth(<<m>> \o s, need \ {v}, push, gain + 1)
  BY MallocBefore DEF m
<1>4. Worth(<<m>> \o (<<c>> \o s), need \ {v}, push, gain + 1)
  <2>1. Worth(<<c>> \o s, need, push, gain)
    BY <1>1, SkipBefore DEF c
  <2> QED
    BY <2>1, MallocBefore DEF m
<1>5. Worth(<<e>> \o (<<u>> \o s), need \ {v}, push, gain + 1)
  <2>1. Worth(<<u>> \o s, need, push, gain)
    BY <1>1, SkipBefore DEF u
  <2> QED
    BY <2>1, MallocBefore DEF e
<1>6. CombinedNone(v) \o s = <<e>> \o (<<u>> \o s)
  BY <1>1, <1>2, Two DEF CombinedNone, e, u
<1>7. CASE k > 0
  <2>1. Combined(v, n, k) = <<m>> \o <<c>>
    BY <1>7 DEF Combined, m, c
  <2>2. Combined(v, n, k) \o s = <<m>> \o (<<c>> \o s)
    BY <1>1, <1>2, <2>1, Together
  <2> QED
    BY <1>4, <1>5, <1>6, <2>2
<1>8. CASE ~(k > 0)
  <2>1. Combined(v, n, k) = <<m>> \o <<>>
    BY <1>8 DEF Combined, m
  <2>2. Combined(v, n, k) = <<m>>
    BY <1>2, <2>1
  <2> QED
    BY <1>3, <1>5, <1>6, <2>2
<1> QED
  BY <1>7, <1>8

LEMMA FreeBefore ==
  ASSUME NEW s, NEW need, NEW push \in BOOLEAN, NEW gain, Worth(s, need, push, gain),
         NEW v \in Pointers, v \notin need, v # "node"
  PROVE  Worth(<<Free(v)>> \o s, need \cup {v}, push, gain - 1)
<1>1. Free(v) \in Call /\ Free(v).call = "free" /\ Free(v).var = v
      /\ Consumed(Free(v)) = {v} /\ Allocated(Free(v)) = {}
  BY DEF Free, Call, Consumed, Allocated
<1> QED
  BY <1>1, Before DEF Worth, Orderly

LEMMA PushBefore ==
  ASSUME NEW s, NEW need, NEW gain, Worth(s, need, FALSE, gain),
         need \cap {"node", "name", "value"} = {}
  PROVE  Worth(<<Push>> \o s, need \cup {"node", "name", "value"}, TRUE, gain)
<1>1. Push \in Call /\ Push.call = "push"
      /\ Consumed(Push) = {"node", "name", "value"} /\ Allocated(Push) = {}
  BY DEF Push, Call, Consumed, Allocated, Pointers
<1>2. s \in Seq(Call) /\ Orderly(s) /\ Need(s) = need /\ ~Pushing(s)
      /\ gain \in Int /\ Gain(s) = gain
  BY DEF Worth, Orderly
<1> HIDE DEF Push
<1> DEFINE t == <<Push>> \o s
<1>3. /\ t \in Seq(Call) /\ Need(t) = Consumed(Push) \cup (Need(s) \ Allocated(Push))
      /\ Sound(t) <=> Sound(s) /\ Consumed(Push) \cap Need(s) = {}
      /\ Pushing(t) <=> Push.call = "push" \/ Pushing(s)
      /\ PushOnce(t) <=> PushOnce(s) /\ (Push.call = "push" => ~Pushing(s))
      /\ NoNodeFreed(t) <=> NoNodeFreed(s) /\ (Push.call = "free" => Push.var # "node")
  BY <1>1, <1>2, Before DEF Orderly
<1>4. Gain(t) = Gain(s) + 0
  BY <1>1, <1>2, Before DEF Orderly
<1> HIDE DEF t
<1>5. Need(t) = need \cup {"node", "name", "value"} /\ Orderly(t) /\ Pushing(t)
  BY <1>1, <1>2, <1>3 DEF Orderly
<1> QED
  BY <1>2, <1>3, <1>4, <1>5 DEF Worth, t

LEMMA WorthNothing == Worth(<<>>, {}, FALSE, 0)
BY AtEnd DEF Worth, Orderly

LEMMA SetVariableBefore ==
  ASSUME NEW l, l.name \in Nat, l.text \in Nat, NEW s, NEW need, NEW gain,
         Worth(s, need, FALSE, gain), need \cap {"node", "name", "value"} = {}
  PROVE  Worth(SetVariable(l) \o s, need \cup {"node"}, TRUE, gain + 3)
<1> DEFINE r == <<Push>> \o s
           values == IF l.exp THEN <<Malloc("value", NumberSize)>>
                     ELSE <<Malloc("value", l.text), Nul("value", l.text)>>
           q == values \o r
           name == Malloc("name", l.name)
<1>1. {"name", "value", "node"} \subseteq Pointers /\ NumberSize \in Nat
  BY DEF Pointers, NumberSize
<1>2. \A n \in Nat : \A v \in Pointers : Malloc(v, n) \in Call /\ Nul(v, n) \in Call
  BY DEF Malloc, Nul, Call
<1>3. s \in Seq(Call) /\ Push \in Call /\ gain \in Int
  BY DEF Worth, Push, Call, Pointers
<1>4. Worth(r, need \cup {"node", "name", "value"}, TRUE, gain)
  BY PushBefore
<1>5. r \in Seq(Call)
  BY <1>4 DEF Worth
<1> HIDE DEF r
<1>6. Worth(q, (need \cup {"node", "name", "value"}) \ {"value"}, TRUE, gain + 1)
  <2>1. CASE l.exp
    <3>1. q = <<Malloc("value", NumberSize)>> \o r
      BY <2>1
    <3> QED
      BY <1>1, <1>4, <3>1, MallocBefore
  <2>2. CASE ~l.exp
    <3> DEFINE m == Malloc("value", l.text)
               z == Nul("value", l.text)
    <3>3. m \in Call /\ z \in Call /\ values = <<m, z>>
      BY <1>1, <1>2, <2>2
    <3> HIDE DEF m, z, values
    <3>1. q = <<m>> \o (<<z>> \o r)
      BY <1>5, <3>3, Two
    <3> USE DEF m, z
    <3>2. Worth(<<Nul("value", l.text)>> \o r, need \cup {"node", "name", "value"}, TRUE, gain)
      BY <1>1, <1>4, NulBefore
    <3> QED
      BY <1>1, <3>1, <3>2, MallocBefore
  <2> QED
    BY <2>1, <2>2
<1>7. values \in Seq(Call) /\ q \in Seq(Call)
  BY <1>1, <1>2, <1>6 DEF Worth
<1>8. SetVariable(l) \o s = <<name>> \o (<<name>> \o (<<Nul("name", l.name)>> \o q))
  <2>1. <<name, name, Nul("name", l.name)>> \in Seq(Call) /\ name \in Call
    BY <1>1, <1>2
  <2> DEFINE three == <<name, name, Nul("name", l.name)>>
  <2>2. SetVariable(l) = (three \o values) \o <<Push>>
    BY DEF SetVariable
  <2> HIDE DEF three, values
  <2>3. ((three \o values) \o <<Push>>) \o s = three \o (values \o (<<Push>> \o s))
    <3>1. /\ three \in Seq(Call) /\ values \in Seq(Call)
          /\ <<Push>> \in Seq(Call) /\ s \in Seq(Call)
      BY <1>3, <1>7, <2>1 DEF three
    <3> DEFINE push == <<Push>>
    <3>2. push \in Seq(Call)
      BY <3>1
    <3> HIDE DEF push
    <3>3. Join(Join(Join(three, values), push), s) = Join(three, Join(values, Join(push, s)))
      BY <3>1, <3>2, RegroupAll
    <3> QED
      BY <3>3, Zenon DEF push, Join
  <2>4. three \o q = <<name>> \o (<<name>> \o (<<Nul("name", l.name)>> \o q))
    <3> DEFINE nul == Nul("name", l.name)
    <3>1. name \in Call /\ nul \in Call
      BY <1>1, <1>2
    <3> HIDE DEF name, nul, q, r, values, three
    <3>2. <<name, name, nul>> \o q = <<name>> \o (<<name>> \o (<<nul>> \o q))
      <4>1. q \in Seq(Call)
        BY <1>7
      <4> QED
        BY <3>1, <4>1, Three, Zenon
    <3> QED
      BY <3>2 DEF three, nul
  <2> QED
    BY <2>2, <2>3, <2>4 DEF r
<1> HIDE DEF q
<1> DEFINE n1 == (need \cup {"node", "name", "value"}) \ {"value"}
<1>9. Worth(<<Nul("name", l.name)>> \o q, n1, TRUE, gain + 1)
  BY <1>1, <1>6, NulBefore
<1>10. Worth(<<name>> \o (<<Nul("name", l.name)>> \o q), n1 \ {"name"}, TRUE, gain + 1 + 1)
  BY <1>1, <1>9, MallocBefore
<1>11. Worth(<<name>> \o (<<name>> \o (<<Nul("name", l.name)>> \o q)),
             (n1 \ {"name"}) \ {"name"}, TRUE, gain + 1 + 1 + 1)
  BY <1>1, <1>10, MallocBefore
<1>12. (n1 \ {"name"}) \ {"name"} = need \cup {"node"}
  OBVIOUS
<1>13. gain + 1 + 1 + 1 = gain + 3
  BY <1>3
<1> QED
  BY <1>8, <1>11, <1>12, <1>13

LEMMA VariablesPushBefore ==
  ASSUME NEW l, l.name \in Nat, l.text \in Nat, NEW s, NEW need, NEW gain,
         Worth(s, need, FALSE, gain), need \cap {"node", "name", "value"} = {}
  PROVE  Worth(VariablesPush(l) \o s, need \cup (IF Index(l.is) = {} THEN {} ELSE {"node"}),
               TRUE, gain + 3 + (IF Index(l.is) = {} THEN 1 ELSE 0))
<1>1. Worth(SetVariable(l) \o s, need \cup {"node"}, TRUE, gain + 3)
  BY SetVariableBefore
<1>2. SetVariable(l) \in Seq(Call) /\ s \in Seq(Call) /\ gain \in Int
  <2>1. \A n \in Nat : \A v \in Pointers : Malloc(v, n) \in Call /\ Nul(v, n) \in Call
    BY DEF Malloc, Nul, Call
  <2>2. {"name", "value", "node"} \subseteq Pointers /\ NumberSize \in Nat /\ Push \in Call
    BY DEF Pointers, NumberSize, Push, Call
  <2> QED
    BY <2>1, <2>2 DEF SetVariable, Worth
<1>3. CASE Index(l.is) = {}
  <2>1. "node" \in Pointers /\ NodeSize \in Nat /\ Malloc("node", NodeSize) \in Call
    BY DEF Pointers, NodeSize, Malloc, Call
  <2>2. VariablesPush(l) = <<Malloc("node", NodeSize)>> \o SetVariable(l)
    BY <1>3 DEF VariablesPush
  <2>3. VariablesPush(l) \o s = <<Malloc("node", NodeSize)>> \o (SetVariable(l) \o s)
    BY <1>2, <2>1, <2>2, Together
  <2>4. Worth(VariablesPush(l) \o s, (need \cup {"node"}) \ {"node"}, TRUE, gain + 3 + 1)
    BY <1>1, <2>1, <2>3, MallocBefore
  <2>5. (need \cup {"node"}) \ {"node"} = need \cup {}
    OBVIOUS
  <2> QED
    BY <1>3, <2>4, <2>5
<1>4. CASE Index(l.is) # {}
  <2>1. VariablesPush(l) = <<>> \o SetVariable(l)
    BY <1>4 DEF VariablesPush
  <2>2. VariablesPush(l) = SetVariable(l)
    BY <1>2, <2>1
  <2>3. gain + 3 + 0 = gain + 3
    BY <1>2
  <2> QED
    BY <1>1, <1>4, <2>2, <2>3
<1> QED
  BY <1>3, <1>4

LEMMA SetBefore ==
  ASSUME NEW l, l.name \in Nat, l.text \in Nat, l.rest \in Nat, NEW s,
         Worth(s, {"args"}, FALSE, 0 - 1)
  PROVE  Worth(Set(l) \o s, {"args"} \cup (IF Index(l.is) = {} THEN {} ELSE {"node"}),
               TRUE, 2 + (IF Index(l.is) = {} THEN 1 ELSE 0))
<1> DEFINE node == IF Index(l.is) = {} THEN {} ELSE {"node"}
           one == IF Index(l.is) = {} THEN 1 ELSE 0
           r == <<Free("data")>> \o s
           q == VariablesPush(l) \o r
           c == Combined("data", l.text, l.rest)
<1>1. "data" \in Pointers /\ s \in Seq(Call) /\ VariablesPush(l) \in Seq(Call)
  BY PushCalls DEF Pointers, Worth
<1>2. Free("data") \in Call /\ c \in Seq(Call)
  BY <1>1, CallsIn, CombinedCalls
<1>3. Worth(r, {"args"} \cup {"data"}, FALSE, 0 - 1 - 1)
  BY <1>1, FreeBefore
<1> HIDE DEF r
<1>4. Worth(q, ({"args"} \cup {"data"}) \cup node, TRUE, 0 - 1 - 1 + 3 + one)
  BY <1>3, VariablesPushBefore
<1>5. Set(l) \o s = c \o q
  <2> DEFINE f == Free("data")
             v == VariablesPush(l)
  <2>1. c \in Seq(Call) /\ f \in Call /\ v \in Seq(Call) /\ s \in Seq(Call)
    BY <1>1, <1>2
  <2>2. Set(l) = (c \o v) \o <<f>>
    BY DEF Set
  <2> HIDE DEF c, f, v
  <2>3. ((c \o v) \o <<f>>) \o s = c \o (v \o (<<f>> \o s))
    <3> DEFINE w == <<f>>
    <3>1. w \in Seq(Call)
      BY <2>1
    <3> HIDE DEF w
    <3>2. Join(Join(Join(c, v), w), s) = Join(c, Join(v, Join(w, s)))
      BY <2>1, <3>1, RegroupAll
    <3> QED
      BY <3>2, Zenon DEF w, Join
  <2> QED
    BY <2>2, <2>3 DEF f, v, r
<1> HIDE DEF q
<1>6. Worth(c \o q, (({"args"} \cup {"data"}) \cup node) \ {"data"},
            TRUE, 0 - 1 - 1 + 3 + one + 1)
  BY <1>1, <1>4, CombinedBefore
<1>7. (({"args"} \cup {"data"}) \cup node) \ {"data"} = {"args"} \cup node
      /\ 0 - 1 - 1 + 3 + one + 1 = 2 + one
  OBVIOUS
<1> QED
  BY <1>5, <1>6, <1>7

(* A path and what follows it, which frees it or not.                      *)
LEMMA PathThen ==
  ASSUME NEW l, l.path \in Nat, l.rest \in Nat, NEW s, NEW gain,
         Worth(s, {"args"}, FALSE, gain), NEW c, c = Combined("path", l.path, l.rest)
  PROVE  /\ c \in Seq(Call) /\ s \in Seq(Call) /\ gain \in Int
         /\ Worth(c \o s, {"args"}, FALSE, gain + 1)
         /\ Worth(c \o (<<Free("path")>> \o s), {"args"}, FALSE, gain)
         /\ Worth(c \o (<<Wild>> \o (<<Free("path")>> \o s)), {"args"}, FALSE, gain)
<1>1. "path" \in Pointers /\ s \in Seq(Call) /\ gain \in Int
  BY DEF Pointers, Worth
<1>2. c \in Seq(Call) /\ Wild \in Call /\ Wild.call = "wild"
  BY <1>1, CombinedCalls, Wilder DEF Wild
<1>3. Worth(c \o s, {"args"}, FALSE, gain + 1)
  <2>1. Worth(c \o s, {"args"} \ {"path"}, FALSE, gain + 1)
    BY <1>1, CombinedBefore
  <2> QED
    BY <2>1
<1>4. Worth(<<Free("path")>> \o s, {"args"} \cup {"path"}, FALSE, gain - 1)
  BY <1>1, FreeBefore
<1> DEFINE t == <<Free("path")>> \o s
<1>5. Worth(<<Wild>> \o t, {"args"} \cup {"path"}, FALSE, gain - 1)
  BY <1>2, <1>4, SkipBefore
<1> HIDE DEF t
<1>6. ({"args"} \cup {"path"}) \ {"path"} = {"args"} /\ gain - 1 + 1 = gain
  BY <1>1
<1>7. Worth(c \o t, ({"args"} \cup {"path"}) \ {"path"}, FALSE, gain - 1 + 1)
  BY <1>1, <1>4, CombinedBefore DEF t
<1> DEFINE w == <<Wild>> \o t
<1> HIDE DEF w
<1>8. Worth(c \o w, ({"args"} \cup {"path"}) \ {"path"}, FALSE, gain - 1 + 1)
  BY <1>1, <1>5, CombinedBefore DEF w
<1> QED
  BY <1>1, <1>2, <1>3, <1>6, <1>7, <1>8 DEF t, w

LEMMA PathBefore ==
  ASSUME NEW l, l.path \in Nat, l.rest \in Nat, NEW s, NEW gain, Worth(s, {"args"}, FALSE, gain)
  PROVE  /\ Path(l) \in Seq(Call)
         /\ Worth(Path(l) \o s, {"args"}, FALSE, gain + (IF l.found THEN 0 ELSE 1))
         /\ Worth(Create(l) \o s, {"args"}, FALSE, gain + (IF l.found THEN 0 ELSE 1))
<1> DEFINE c == Combined("path", l.path, l.rest)
           f == Free("path")
<1>1. /\ c \in Seq(Call) /\ s \in Seq(Call) /\ gain \in Int
      /\ Worth(c \o s, {"args"}, FALSE, gain + 1)
      /\ Worth(c \o (<<f>> \o s), {"args"}, FALSE, gain)
      /\ Worth(c \o (<<Wild>> \o (<<f>> \o s)), {"args"}, FALSE, gain)
  BY PathThen
<1>2. f \in Call /\ Wild \in Call
  BY CallsIn, Wilder DEF Pointers
<1>3. /\ l.found => Path(l) = c \o <<f>>
      /\ ~l.found => Path(l) = c \o <<>>
  BY DEF Path
<1>4. /\ l.found /\ l.outside => Create(l) = (c \o <<Wild>>) \o <<f>>
      /\ l.found /\ ~l.outside => Create(l) = (c \o <<>>) \o <<f>>
      /\ ~l.found => Create(l) = (c \o <<>>) \o <<>>
  BY DEF Create
<1> DEFINE w == Wild
<1>5. w \in Call /\ w = Wild
  BY <1>2
<1> HIDE DEF c, f, w
<1>6. /\ (c \o <<f>>) \o s = c \o (<<f>> \o s)
      /\ c \o <<>> = c /\ c \o <<f>> \in Seq(Call)
      /\ ((c \o <<w>>) \o <<f>>) \o s = c \o (<<w>> \o (<<f>> \o s))
  BY <1>1, <1>2, <1>5
<1>7. gain + 0 = gain
  BY <1>1
<1>8. CASE l.found /\ l.outside
  BY <1>1, <1>3, <1>4, <1>5, <1>6, <1>7, <1>8
<1>9. CASE l.found /\ ~l.outside
  BY <1>1, <1>3, <1>4, <1>6, <1>7, <1>9
<1>10. CASE ~l.found
  BY <1>1, <1>3, <1>4, <1>6, <1>10
<1> QED
  BY <1>8, <1>9, <1>10

LEMMA EditBefore ==
  ASSUME NEW l, l.path \in Nat, l.rest \in Nat, NEW s, NEW gain, Worth(s, {"args"}, FALSE, gain)
  PROVE  Worth(Edit(l) \o s, {"args"}, FALSE, gain + (IF l.found THEN 0 ELSE 1))
<1>1. Path(l) \in Seq(Call) /\ s \in Seq(Call) /\ Wild \in Call /\ Wild.call = "wild"
  BY PathBefore, Wilder DEF Worth, Wild
<1>2. Worth(<<Wild>> \o s, {"args"}, FALSE, gain)
  BY <1>1, SkipBefore
<1> DEFINE w == <<Wild>>
           r == w \o s
<1>3. w \in Seq(Call)
  BY <1>1
<1>4. CASE l.found
  <2>1. Edit(l) = Path(l) \o w
    BY <1>4 DEF Edit
  <2> HIDE DEF w
  <2>2. Edit(l) \o s = Path(l) \o r
    BY <1>1, <1>3, <2>1
  <2>3. Worth(r, {"args"}, FALSE, gain)
    BY <1>2 DEF w
  <2> HIDE DEF r
  <2> QED
    BY <2>2, <2>3, PathBefore
<1>5. CASE ~l.found
  <2>1. Edit(l) = Path(l) \o <<>>
    BY <1>5 DEF Edit
  <2>2. Edit(l) = Path(l)
    BY <1>1, <2>1
  <2> QED
    BY <2>2, PathBefore
<1> QED
  BY <1>4, <1>5

LEMMA LsBefore ==
  ASSUME NEW l, l.path \in Nat, l.rest \in Nat, NEW s, NEW gain, Worth(s, {"args"}, FALSE, gain)
  PROVE  Worth(Ls(l) \o s, {"args"}, FALSE, gain + 1)
<1>1. "path" \in Pointers /\ {"args"} \ {"path"} = {"args"}
  BY DEF Pointers
<1> DEFINE c == Combined("path", l.path, l.rest)
           e == CombinedNone("path")
<1>2. Ls(l) = IF l.path = 0 THEN e ELSE c
  BY DEF Ls
<1>3. /\ Worth(c \o s, {"args"} \ {"path"}, FALSE, gain + 1)
      /\ Worth(e \o s, {"args"} \ {"path"}, FALSE, gain + 1)
  BY <1>1, CombinedBefore
<1> HIDE DEF c, e
<1>4. Worth(c \o s, {"args"}, FALSE, gain + 1) /\ Worth(e \o s, {"args"}, FALSE, gain + 1)
  BY <1>1, <1>3
<1> QED
  BY <1>2, <1>4

LEMMA CatBefore ==
  ASSUME NEW l, l.path \in Nat, l.rest \in Nat, l.content \in Nat, l.beyond \in Nat,
         NEW s, Worth(s, {"args"}, FALSE, 0 - 1)
  PROVE  Worth(Cat(l) \o s, {"args"}, FALSE, 0 - 1 + (IF l.found THEN 0 ELSE 1))
<1> DEFINE c == Combined("data", l.content, l.beyond)
           f == Free("data")
           r == c \o (<<f>> \o s)
<1>1. "data" \in Pointers /\ s \in Seq(Call)
  BY DEF Pointers, Worth
<1>2. c \in Seq(Call) /\ f \in Call /\ Path(l) \in Seq(Call)
  BY <1>1, CombinedCalls, CallsIn, PathBefore
<1>3. Worth(r, {"args"}, FALSE, 0 - 1)
  <2>1. Worth(<<f>> \o s, {"args"} \cup {"data"}, FALSE, 0 - 1 - 1)
    BY <1>1, FreeBefore
  <2>2. Worth(r, ({"args"} \cup {"data"}) \ {"data"}, FALSE, 0 - 1 - 1 + 1)
    BY <1>1, <2>1, CombinedBefore
  <2>3. ({"args"} \cup {"data"}) \ {"data"} = {"args"} /\ 0 - 1 - 1 + 1 = 0 - 1
    OBVIOUS
  <2> QED
    BY <2>2, <2>3
<1>4. CASE l.found
  <2>1. Cat(l) = Path(l) \o (c \o <<f>>)
    BY <1>4 DEF Cat
  <2> DEFINE p == Path(l)
  <2> HIDE DEF c, f, p
  <2>2. (p \o (c \o <<f>>)) \o s = p \o (c \o (<<f>> \o s))
    <3> DEFINE w == <<f>>
    <3>1. p \in Seq(Call) /\ c \in Seq(Call) /\ w \in Seq(Call) /\ s \in Seq(Call)
      BY <1>1, <1>2 DEF p
    <3> HIDE DEF w
    <3>2. Join(Join(p, Join(c, w)), s) = Join(p, Join(c, Join(w, s)))
      BY <3>1, RegroupAll
    <3> QED
      BY <3>2, Zenon DEF w, Join
  <2>3. Cat(l) \o s = Path(l) \o r
    BY <2>1, <2>2 DEF p
  <2> HIDE DEF r
  <2> QED
    BY <1>3, <2>3, PathBefore
<1>5. CASE ~l.found
  <2>1. Cat(l) = Path(l) \o <<>>
    BY <1>5 DEF Cat
  <2>2. Cat(l) = Path(l)
    BY <1>2, <2>1
  <2> QED
    BY <2>2, PathBefore
<1> QED
  BY <1>4, <1>5

(* What a line leaves behind, by its calls.                                *)
Leaves(l) ==
  CASE l.command = "set" -> 3 + (IF Index(l.is) = {} THEN 1 ELSE 0)
    [] l.command = "ls" -> 1
    [] l.command \in {"touch", "mkdir", "cd", "edit", "cat"} -> IF l.found THEN 0 ELSE 1
    [] OTHER -> 0

LEMMA ExecutedIs ==
  ASSUME NEW l \in Lines
  PROVE  Worth(Executed(l), IF l.command = "set" /\ Index(l.is) # {} THEN {"node"} ELSE {},
               l.command = "set", Leaves(l))
<1> DEFINE m == Malloc("args", PointerSize * l.argc)
           f == Free("args")
           s == <<f>> \o <<>>
           node == IF l.command = "set" /\ Index(l.is) # {} THEN {"node"} ELSE {}
<1>1. "args" \in Pointers /\ PointerSize * l.argc \in Nat
  BY LinesAssumption DEF Pointers, PointerSize
<1>2. m \in Call /\ f \in Call
  BY <1>1 DEF Malloc, Free, Call
<1>3. Worth(s, {"args"}, FALSE, 0 - 1)
  <2>1. Worth(s, {} \cup {"args"}, FALSE, 0 - 1)
    BY <1>1, WorthNothing, FreeBefore
  <2> QED
    BY <2>1
<1>4. s \in Seq(Call) /\ s = <<f>>
  BY <1>2
<1> HIDE DEF s
<1>5. Command(l) \in Seq(Call)
      /\ Worth(Command(l) \o s, {"args"} \cup node, l.command = "set", Leaves(l) - 1)
  <2>1. Command(l) \in Seq(Call)
    BY CommandCalls
  <2>2. CASE l.command = "set"
    <3>1. l.name \in Nat /\ l.text \in Nat /\ l.rest \in Nat /\ Command(l) = Set(l)
      BY <2>2, LinesAssumption DEF Command
    <3>2. Worth(Command(l) \o s, {"args"} \cup node, TRUE, 2 + (IF Index(l.is) = {} THEN 1 ELSE 0))
      BY <1>3, <2>2, <3>1, SetBefore
    <3>3. 2 + (IF Index(l.is) = {} THEN 1 ELSE 0) = Leaves(l) - 1
      BY <2>2 DEF Leaves
    <3> QED
      BY <2>1, <2>2, <3>2, <3>3
  <2>3. CASE l.command \in Paths
    <3>1. l.path \in Nat /\ l.rest \in Nat /\ node = {} /\ {"args"} \cup node = {"args"}
          /\ (l.command = "set") = FALSE
      BY <2>3, LinesAssumption DEF Paths
    <3>2. 0 - 1 + Leaves(l) = Leaves(l) - 1
      BY DEF Leaves
    <3>3. Worth(Command(l) \o s, {"args"}, FALSE, 0 - 1 + Leaves(l))
      <4>1. CASE l.command = "cat"
        <5>1. Command(l) = Cat(l) /\ Leaves(l) = (IF l.found THEN 0 ELSE 1)
              /\ l.content \in Nat /\ l.beyond \in Nat
          BY <4>1, LinesAssumption DEF Command, Leaves
        <5> QED
          BY <1>3, <3>1, <5>1, CatBefore
      <4>2. CASE l.command = "ls"
        <5>1. Command(l) = Ls(l) /\ Leaves(l) = 1
          BY <4>2 DEF Command, Leaves
        <5> QED
          BY <1>3, <3>1, <5>1, LsBefore
      <4>3. CASE l.command = "cd"
        <5>1. Command(l) = Path(l) /\ Leaves(l) = (IF l.found THEN 0 ELSE 1)
          BY <4>3 DEF Command, Leaves
        <5> QED
          BY <1>3, <3>1, <5>1, PathBefore
      <4>4. CASE l.command = "edit"
        <5>1. Command(l) = Edit(l) /\ Leaves(l) = (IF l.found THEN 0 ELSE 1)
          BY <4>4 DEF Command, Leaves
        <5> QED
          BY <1>3, <3>1, <5>1, EditBefore
      <4>5. CASE l.command \in {"touch", "mkdir"}
        <5>1. Command(l) = Create(l) /\ Leaves(l) = (IF l.found THEN 0 ELSE 1)
          BY <4>5 DEF Command, Leaves
        <5> QED
          BY <1>3, <3>1, <5>1, PathBefore
      <4> QED
        BY <2>3, <4>1, <4>2, <4>3, <4>4, <4>5 DEF Paths
    <3> QED
      BY <2>1, <3>1, <3>2, <3>3
  <2>4. CASE l.command \notin {"set"} \cup Paths
    <3>1. Command(l) = <<>> /\ Leaves(l) = 0 /\ node = {}
      BY <2>4 DEF Command, Leaves, Paths
    <3>2. Command(l) \o s = s
      BY <1>4, <3>1
    <3>3. 0 - 1 = Leaves(l) - 1 /\ {"args"} \cup node = {"args"}
      BY <3>1
    <3>4. (l.command = "set") = FALSE
      BY <2>4
    <3> QED
      BY <1>3, <2>1, <3>2, <3>3, <3>4
  <2> QED
    BY <2>2, <2>3, <2>4
<1>6. Executed(l) = <<m>> \o (Command(l) \o s)
  <2>1. Executed(l) = (<<m>> \o Command(l)) \o <<f>>
    BY DEF Executed
  <2> HIDE DEF m, f
  <2>2. (<<m>> \o Command(l)) \o s = <<m>> \o (Command(l) \o s)
    BY <1>2, <1>4, <1>5, Together
  <2> QED
    BY <1>4, <2>1, <2>2
<1> DEFINE r == Command(l) \o s
<1> HIDE DEF r
<1>7. Worth(<<m>> \o r, ({"args"} \cup node) \ {"args"}, l.command = "set", Leaves(l) - 1 + 1)
  BY <1>1, <1>5, MallocBefore DEF r
<1>8. ({"args"} \cup node) \ {"args"} = node
  OBVIOUS
<1>9. Leaves(l) - 1 + 1 = Leaves(l)
  BY DEF Leaves
<1> QED
  BY <1>6, <1>7, <1>8, <1>9 DEF r

(* What the head does to what is needed, allocated and left.               *)
LEMMA Heads ==
  ASSUME todo \in Seq(Call), todo # <<>>, Orderly(todo)
  PROVE  /\ Called \in Call /\ Tail(todo) \in Seq(Call) /\ Orderly(Tail(todo))
         /\ Need(todo) = Consumed(Called) \cup (Need(Tail(todo)) \ Allocated(Called))
         /\ Consumed(Called) \cap Need(Tail(todo)) = {}
         /\ Pushing(todo) <=> Called.call = "push" \/ Pushing(Tail(todo))
         /\ Called.call = "push" => ~Pushing(Tail(todo))
         /\ Called.call = "free" => Called.var # "node"
         /\ Gain(Tail(todo)) \in Int
         /\ Gain(todo) = Gain(Tail(todo)) + (CASE Called.call = "malloc" -> 1
                                               [] Called.call = "free" -> 0 - 1
                                               [] OTHER -> 0)
<1>1. Called = Head(todo) /\ Called \in Call /\ Tail(todo) \in Seq(Call)
  BY Rests DEF Called
<1>2. Need(todo) = Consumed(Called) \cup (Need(Tail(todo)) \ Allocated(Called))
  BY <1>1, NeedStep
<1>3. Sound(Tail(todo)) /\ Consumed(Called) \cap Need(Tail(todo)) = {}
  BY <1>1, SoundStep DEF Orderly
<1>4. /\ Pushing(todo) <=> Called.call = "push" \/ Pushing(Tail(todo))
      /\ PushOnce(Tail(todo)) /\ (Called.call = "push" => ~Pushing(Tail(todo)))
  BY <1>1, PushStep DEF Orderly
<1>5. NoNodeFreed(Tail(todo)) /\ (Called.call = "free" => Called.var # "node")
  BY <1>1, NodeStep DEF Orderly
<1>6. /\ Gain(Tail(todo)) \in Int
      /\ Gain(todo) = Gain(Tail(todo)) + (CASE Called.call = "malloc" -> 1
                                            [] Called.call = "free" -> 0 - 1
                                            [] OTHER -> 0)
  BY <1>1, GainStep
<1> QED
  BY <1>1, <1>2, <1>3, <1>4, <1>5, <1>6 DEF Orderly

LEMMA InitBlocksInv ==
  ASSUME MemoryInit
  PROVE  BlocksInv
<1>1. /\ variables = <<>> /\ line = PwdLine /\ todo = VariablesPush(PwdLine) /\ before = {}
      /\ pc = "idle" /\ live = [p \in {} |-> 0]
  BY DEF MemoryInit, Init
<1>2. Index(line.is) = {} /\ line.command = "set"
  BY <1>1 DEF Index, PwdLine
<1>3. Worth(todo, {}, TRUE, 4)
  <2>1. PwdLine.name \in Nat /\ PwdLine.text \in Nat /\ Index(PwdLine.is) = {}
    BY <1>1, <1>2 DEF PwdLine
  <2>2. Worth(VariablesPush(PwdLine) \o <<>>, {} \cup {}, TRUE, 0 + 3 + 1)
    BY <2>1, WorthNothing, VariablesPushBefore
  <2>3. VariablesPush(PwdLine) \in Seq(Call)
    BY <2>1, PushCalls
  <2>4. VariablesPush(PwdLine) \o <<>> = todo /\ {} \cup {} = {} /\ 0 + 3 + 1 = 4
    BY <1>1, <2>3
  <2> QED
    BY <2>2, <2>4
<1>4. Need(todo) = {} /\ Pushing(todo) /\ Orderly(todo) /\ Gain(todo) = 4
  BY <1>3 DEF Worth
<1>5. NewName /\ Needed = {}
  BY <1>1, <1>2, <1>4 DEF NewName, Needed, Rest
<1>6. Total = 4
  BY <1>2, <1>4, <1>5 DEF Total, NewNode
<1>7. New = {} /\ IsFiniteSet(DOMAIN live) /\ before \subseteq DOMAIN live
  BY <1>1, FS_EmptySet DEF New
<1>8. Cardinality(New) = 0
  BY <1>7, FS_EmptySet, Zenon
<1>9. Counted
  BY <1>1, <1>4, <1>6, <1>7, <1>8 DEF Counted
<1>10. Listed
  BY <1>1 DEF Listed
<1>11. OnCourse /\ Kept /\ ToPush /\ NeededHeld
  BY <1>1, <1>2, <1>5 DEF OnCourse, Kept, ToPush, NeededHeld
<1> QED
  BY <1>4, <1>9, <1>10, <1>11 DEF BlocksInv

LEMMA EnterBlocksInv ==
  ASSUME MInv, BlocksInv, Enter
  PROVE  BlocksInv'
<1> PICK l \in Lines : line' = l /\ todo' = Executed(l)
  BY DEF Enter
<1>1. /\ pc = "idle" /\ pc' = "idle" /\ before' = DOMAIN live
      /\ UNCHANGED <<live, variables, ptr>>
  BY DEF Enter, Prompt, vars
<1> DEFINE node == IF l.command = "set" /\ Index(l.is) # {} THEN {"node"} ELSE {}
<1>2. Worth(todo', node, l.command = "set", Leaves(l))
  BY ExecutedIs
<1>3. Index(l.is)' = Index(l.is)
  BY <1>1 DEF Index
<1>4. /\ Orderly(todo)' /\ Need(todo)' = node /\ Gain(todo)' = Leaves(l)
      /\ Pushing(todo)' <=> l.command = "set"
  BY <1>2 DEF Worth, Orderly, Sound, PushOnce, NoNodeFreed, Need, Gain, CallsLeft, Pushing
<1>5. NewName' <=> l.command = "set" /\ Index(l.is) = {}
  BY <1>1 DEF NewName, Index
<1>6. Needed' = {}
  BY <1>1, <1>4, <1>5 DEF Needed, Rest
<1>7. NewNode' <=> l.command = "set" /\ Index(l.is) = {}
  <2>1. ASSUME NEW k \in DOMAIN variables
        PROVE  variables[k].node \in DOMAIN live
    <3>1. Of(variables[k])[1] \in DOMAIN live
      BY <2>1 DEF BlocksInv, Kept
    <3> QED
      BY <3>1 DEF Of
  <2> QED
    BY <1>1, <1>4, <1>5, <2>1 DEF NewNode
<1>8. Total' = Leaves(l)
  BY <1>7 DEF Total, Leaves
<1>9. New' = {} /\ IsFiniteSet(DOMAIN live)
  BY <1>1 DEF New, BlocksInv, Counted
<1>10. Cardinality(New') = 0
  BY <1>9, FS_EmptySet, Zenon
<1>11. Counted'
  <2>1. Leaves(l) \in Int
    BY DEF Leaves
  <2> QED
    BY <1>1, <1>4, <1>8, <1>9, <1>10, <2>1 DEF Counted
<1>12. Listed' /\ OnCourse' /\ Kept' /\ NeededHeld'
  BY <1>1, <1>6 DEF BlocksInv, Listed, OnCourse, Kept, NeededHeld
<1>13. ToPush'
  BY <1>1, <1>4 DEF BlocksInv, Kept, ToPush
<1> QED
  BY <1>4, <1>11, <1>12, <1>13 DEF BlocksInv

(* A block that is looked for is found.                                    *)
LEMMA HeaderOf ==
  ASSUME HeapInv, NEW p \in DOMAIN live
  PROVE  p \in Nat /\ p - HeaderSize \in DOMAIN seg /\ Base <= p - HeaderSize
<1>1. p \in Nat /\ p - HeaderSize \in DOMAIN seg
  BY DEF HeapInv, HasHeader
<1> QED
  BY <1>1 DEF HeapInv, Disjoint

LEMMA CallsBlocksInv ==
  ASSUME MInv, BlocksInv, Calls
  PROVE  BlocksInv'
<1>1. /\ pc = "idle" /\ todo # <<>> /\ todo \in Seq(Call) /\ HeapInv
      /\ UNCHANGED <<seg, live, todo, ptr, variables, line, before>>
      /\ curr' = Base
      /\ \/ pc' = "malloc" /\ Called.call = "malloc"
         \/ pc' = "free" /\ Called.call = "free" /\ arg' = ptr[Called.var]
  BY MInvParts DEF Calls, Doing, CallMalloc, CallFree, shell, ShellInv
<1>2. OnCourse'
  <2>1. CASE pc' = "malloc"
    BY <1>1, <2>1 DEF OnCourse, Called
  <2>2. CASE pc' = "free"
    <3>1. Called.call = "free" /\ arg' = ptr[Called.var] /\ Called' = Called
      BY <1>1, <2>2 DEF Called
    <3>2. Called.var \in Need(todo) /\ Called.var # "node"
      BY <1>1, <3>1, Heads DEF BlocksInv, Consumed
    <3>3. Called.var \in Needed
      BY <1>1, <3>2 DEF Needed, Rest
    <3>4. ptr[Called.var] \in DOMAIN live
      BY <3>3 DEF BlocksInv, NeededHeld, New
    <3>5. Payload(Base) <= ptr[Called.var] /\ Base # Null
      BY <1>1, <3>4, HeaderOf, Constants DEF Payload
    <3> QED
      BY <1>1, <2>2, <3>1, <3>5 DEF OnCourse, Payload
  <2> QED
    BY <1>1, <2>1, <2>2
<1>3. pc' # "merge" /\ Rest' = Rest
  BY <1>1 DEF Rest
<1>4. NewName' = NewName /\ Needed' = Needed /\ New' = New /\ NewNode' = NewNode
      /\ Total' = Total
  BY <1>1, <1>3 DEF NewName, Index, Needed, New, NewNode, Total
<1>5. NeededHeld' /\ ToPush' /\ Kept' /\ Listed'
  BY <1>1, <1>4 DEF BlocksInv, NeededHeld, ToPush, Kept, Listed
<1>6. Counted'
  BY <1>1, <1>3, <1>4 DEF BlocksInv, Counted
<1>7. Orderly(todo)'
  BY <1>1 DEF BlocksInv
<1> QED
  BY <1>2, <1>5, <1>6, <1>7 DEF BlocksInv

LEMMA AllocatesBlocksInv ==
  ASSUME MInv, BlocksInv, Allocates
  PROVE  BlocksInv'
<1> DEFINE p == Payload(curr)
           v == Called.var
<1>1. /\ pc = "malloc" /\ pc' = "idle" /\ todo # <<>> /\ todo \in Seq(Call) /\ HeapInv
      /\ curr \in DOMAIN seg /\ seg[curr].free
      /\ DOMAIN live' = DOMAIN live \cup {p}
      /\ ptr' = [ptr EXCEPT ![v] = p] /\ ptr \in [Pointers -> Nat] /\ todo' = Tail(todo)
      /\ UNCHANGED <<variables, line, before>>
  BY MInvParts DEF Allocates, MallocExact, MallocSplit, Exact, Splittable, HandOut, Return,
     Returned, ShellInv, HeapInv, CursorOK
<1>2. p \notin DOMAIN live
  BY <1>1, FreeIsFree
<1>3. /\ Called.call = "malloc" /\ Called \in Call /\ v \in Pointers
      /\ Consumed(Called) = {} /\ Allocated(Called) = {v}
  <2>1. Called.call = "malloc" /\ Called \in Call
    BY <1>1, Heads DEF BlocksInv, OnCourse
  <2> QED
    BY <2>1 DEF Consumed, Allocated, Call
<1>4. /\ Need(todo) = Need(todo') \ {v} /\ Orderly(todo')
      /\ Pushing(todo) <=> Pushing(todo')
      /\ Gain(todo') \in Int /\ Gain(todo) = Gain(todo') + 1
  BY <1>1, <1>3, Heads DEF BlocksInv
<1> HIDE DEF p, v
<1>5. New' = New \cup {p} /\ p \notin New
      /\ IsFiniteSet(DOMAIN live') /\ before' \subseteq DOMAIN live'
      /\ IsFiniteSet(New)
  <2>1. New' = New \cup {p} /\ p \notin New
    BY <1>1, <1>2 DEF New, BlocksInv, Counted
  <2>2. IsFiniteSet(DOMAIN live \cup {p})
    BY FS_AddElement DEF BlocksInv, Counted
  <2>3. IsFiniteSet(New)
    <3>1. New \in SUBSET DOMAIN live
      BY DEF New
    <3> QED
      BY <3>1, FS_Subset DEF BlocksInv, Counted
  <2> QED
    BY <1>1, <2>1, <2>2, <2>3 DEF BlocksInv, Counted
<1>6. Cardinality(New') = Cardinality(New) + 1 /\ Cardinality(New) \in Nat
  BY <1>5, FS_AddElement, FS_CardinalityType
<1>7. (NewName' <=> NewName) /\ (NewNode' <=> NewNode)
  BY <1>1, <1>4 DEF NewName, Index, NewNode, Pushing
<1>8. Total' = Total
  BY <1>1, <1>7 DEF Total
<1>9. Counted'
  <2>1. Gain(todo)' = Gain(todo')
    BY DEF Gain, CallsLeft
  <2>2. Cardinality(New) + Gain(todo) + 0 = Total
    BY <1>1 DEF BlocksInv, Counted
  <2>3. Cardinality(New') + Gain(todo') + 0 = Total
    BY <1>4, <1>6, <2>2
  <2> QED
    BY <1>1, <1>5, <1>8, <2>1, <2>3 DEF Counted
<1>10. \A w \in Needed' : /\ w = v => ptr'[w] = p
                          /\ w # v => w \in Needed /\ ptr'[w] = ptr[w]
  <2>1. Needed' \subseteq Need(todo') /\ Needed' \subseteq Pointers
        /\ \A w \in Needed' : w = "node" => NewName
    BY <1>1, <1>7 DEF Needed, Rest, Need
  <2> QED
    BY <1>1, <1>3, <1>4, <2>1 DEF Needed, Rest
<1>11. NeededHeld'
  <2>1. \A k \in DOMAIN variables : \A i \in 1 .. 3 : Of(variables[k])[i] # p
    BY <1>2 DEF BlocksInv, Kept
  <2>2. \A w \in Needed : ptr[w] \in New /\ ptr[w] # p
    BY <1>5 DEF BlocksInv, NeededHeld
  <2> QED
    BY <1>1, <1>5, <1>10, <2>1, <2>2 DEF BlocksInv, NeededHeld
<1>12. Kept' /\ Listed'
  BY <1>1 DEF BlocksInv, Kept, Listed
<1>13. ToPush' /\ OnCourse'
  BY <1>1, <1>4 DEF BlocksInv, ToPush, OnCourse, Pushing
<1>14. Orderly(todo)'
  BY <1>4 DEF Orderly, Sound, PushOnce, NoNodeFreed
<1> QED
  BY <1>9, <1>11, <1>12, <1>13, <1>14 DEF BlocksInv

LEMMA StaysBlocksInv ==
  ASSUME BlocksInv, UNCHANGED <<live, pc, shell>>, OnCourse'
  PROVE  BlocksInv'
<1>1. /\ NewName' = NewName /\ Needed' = Needed /\ New' = New /\ NewNode' = NewNode
      /\ Total' = Total
  BY DEF NewName, Index, Needed, Rest, New, NewNode, Total, shell
<1>2. NeededHeld' /\ ToPush' /\ Kept' /\ Listed' /\ Counted' /\ Orderly(todo)'
  BY <1>1 DEF BlocksInv, NeededHeld, ToPush, Kept, Listed, Counted, shell
<1> QED
  BY <1>2 DEF BlocksInv

LEMMA WalksBlocksInv ==
  ASSUME MInv, BlocksInv, Walks, ~FreeMark
  PROVE  BlocksInv'
<1>1. UNCHANGED <<live, pc, shell, arg>>
  BY DEF Walks, MallocNext, FreeNext, MergeAbsorb, MergeNext
<1>2. OnCourse'
  <2>1. CASE FreeNext
    <3>1. /\ pc = "free" /\ curr # Null /\ Payload(curr) # arg /\ curr' = seg[curr].next
          /\ Called.call = "free" /\ arg = ptr[Called.var] /\ Payload(curr) <= arg
          /\ todo # <<>> /\ todo \in Seq(Call) /\ HeapInv
      BY <2>1, MInvParts DEF FreeNext, BlocksInv, OnCourse, ShellInv
    <3>2. Called.var \in Needed
      BY <3>1, Heads DEF BlocksInv, Consumed, Needed, Rest
    <3>3. arg \in DOMAIN live
      BY <3>1, <3>2 DEF BlocksInv, NeededHeld, New
    <3>4. arg \in Nat /\ arg - HeaderSize \in DOMAIN seg /\ Base <= arg - HeaderSize
      BY <3>1, <3>3, HeaderOf
    <3>5. curr \in DOMAIN seg /\ curr \in Nat /\ seg[curr].next \in Nat
          /\ curr < arg - HeaderSize /\ arg - HeaderSize \in Nat
      <4>1. curr \in DOMAIN seg /\ curr \in Nat /\ arg - HeaderSize \in Nat
        BY <3>1, <3>4 DEF HeapInv, CursorOK
      <4>2. seg[curr] \in Header
        BY <3>1, <4>1 DEF HeapInv
      <4>3. curr < arg - HeaderSize
        BY <3>1, <3>4, <4>1, Constants DEF Payload
      <4> QED
        BY <4>1, <4>2, <4>3 DEF Header
    <3>6. curr' # Null /\ curr' <= arg - HeaderSize
      BY <3>1, <3>4, <3>5 DEF HeapInv, NextFollows
    <3>7. Payload(curr') <= arg
      BY <3>1, <3>4, <3>5, <3>6, Constants DEF Payload
    <3> QED
      BY <1>1, <3>1, <3>6, <3>7 DEF OnCourse, Called, shell, Payload
  <2>2. CASE ~FreeNext
    <3>1. pc # "free"
      BY <2>2 DEF Walks, MallocNext, MergeAbsorb, MergeNext
    <3> QED
      BY <1>1, <3>1 DEF BlocksInv, OnCourse, Called, shell
  <2> QED
    BY <2>1, <2>2
<1> QED
  BY <1>1, <1>2, StaysBlocksInv

LEMMA MarkBlocksInv ==
  ASSUME MInv, BlocksInv, Walks, FreeMark
  PROVE  BlocksInv'
<1> DEFINE v == Called.var
<1>1. /\ pc = "free" /\ pc' = "merge" /\ todo # <<>> /\ todo \in Seq(Call)
      /\ DOMAIN live' = DOMAIN live \ {arg}
      /\ Called.call = "free" /\ arg = ptr[v]
      /\ UNCHANGED <<todo, ptr, variables, line, before>>
  BY MInvParts DEF Walks, FreeMark, shell, BlocksInv, OnCourse, ShellInv,
     MallocNext, FreeNext, MergeAbsorb, MergeNext
<1>2. Called \in Call /\ Consumed(Called) = {v} /\ Allocated(Called) = {}
  <2>1. Called \in Call
    BY <1>1, Heads DEF BlocksInv
  <2> QED
    BY <1>1, <2>1 DEF Consumed, Allocated, Call
<1>3. Need(todo) = {v} \cup Need(Tail(todo)) /\ v \notin Need(Tail(todo)) /\ v # "node"
  BY <1>1, <1>2, Heads DEF BlocksInv
<1>4. NewName' = NewName /\ NewNode' = NewNode
  BY <1>1 DEF NewName, Index, NewNode
<1>5. Needed' \subseteq Needed \ {v} /\ v \in Needed
  BY <1>1, <1>3, <1>4 DEF Needed, Rest
<1>6. arg \in New /\ \A k \in DOMAIN variables : \A i \in 1 .. 3 : Of(variables[k])[i] # arg
  BY <1>1, <1>5 DEF BlocksInv, NeededHeld
<1>7. New' = New \ {arg} /\ arg \notin before /\ IsFiniteSet(New) /\ IsFiniteSet(DOMAIN live')
      /\ before' \subseteq DOMAIN live'
  <2>1. New' = New \ {arg} /\ arg \notin before
    BY <1>1, <1>6 DEF New
  <2>2. New \in SUBSET DOMAIN live /\ DOMAIN live' \in SUBSET DOMAIN live
    BY <1>1 DEF New
  <2> QED
    BY <1>1, <2>1, <2>2, FS_Subset DEF BlocksInv, Counted
<1>8. Cardinality(New') = Cardinality(New) - 1 /\ Cardinality(New) \in Nat
  BY <1>6, <1>7, FS_RemoveElement, FS_CardinalityType
<1>9. Total' = Total
  BY <1>1, <1>4 DEF Total
<1>10. Counted'
  <2>1. Gain(todo)' = Gain(todo) /\ Gain(todo) \in Int
    BY <1>1, GainStep
  <2> QED
    BY <1>1, <1>7, <1>8, <1>9, <2>1 DEF BlocksInv, Counted
<1>11. NeededHeld'
  <2>1. \A w \in Needed' : ptr[w] # arg
    BY <1>1, <1>5 DEF BlocksInv, NeededHeld
  <2> QED
    BY <1>1, <1>5, <1>7, <2>1 DEF BlocksInv, NeededHeld
<1>12. Kept'
  BY <1>1, <1>6 DEF BlocksInv, Kept
<1>13. Listed' /\ ToPush' /\ OnCourse' /\ Orderly(todo)'
  BY <1>1 DEF BlocksInv, Listed, ToPush, OnCourse, Called
<1> QED
  BY <1>10, <1>11, <1>12, <1>13 DEF BlocksInv

(* A block that a variable points to is not looked for in vain.            *)
LEMMA FreesBlocksInv ==
  ASSUME MInv, BlocksInv, Frees
  PROVE  BlocksInv'
<1>1. /\ pc = "merge" /\ pc' = "idle" /\ todo # <<>> /\ todo \in Seq(Call)
      /\ todo' = Tail(todo) /\ UNCHANGED <<live, ptr, variables, line, before>>
  BY MInvParts DEF Frees, FreeInvalid, MergeDone, Return, BlocksInv, OnCourse, ShellInv
<1>2. Called.call = "free"
  BY <1>1 DEF BlocksInv, OnCourse
<1>3. /\ Orderly(todo') /\ (Pushing(todo) <=> Pushing(todo'))
      /\ Gain(todo') \in Int /\ Gain(todo) = Gain(todo') - 1
  BY <1>1, <1>2, Heads DEF BlocksInv
<1>4. (NewName' <=> NewName) /\ (NewNode' <=> NewNode) /\ New' = New /\ Needed' = Needed
  BY <1>1, <1>3 DEF NewName, Index, NewNode, Pushing, New, Needed, Rest, Need
<1>5. Total' = Total
  BY <1>1, <1>4 DEF Total
<1>6. Counted'
  <2>1. Gain(todo)' = Gain(todo')
    BY DEF Gain, CallsLeft
  <2>2. Cardinality(New) \in Nat
    <3>1. New \in SUBSET DOMAIN live
      BY DEF New
    <3> QED
      BY <3>1, FS_Subset, FS_CardinalityType DEF BlocksInv, Counted
  <2> QED
    BY <1>1, <1>3, <1>4, <1>5, <2>1, <2>2 DEF BlocksInv, Counted
<1>7. Listed' /\ OnCourse' /\ NeededHeld' /\ Kept'
  BY <1>1, <1>4 DEF BlocksInv, Listed, OnCourse, NeededHeld, Kept
<1>8. ToPush' /\ Orderly(todo)'
  BY <1>1, <1>3 DEF BlocksInv, ToPush, Pushing, Orderly, Sound, PushOnce, NoNodeFreed
<1> QED
  BY <1>6, <1>7, <1>8 DEF BlocksInv

LEMMA StrayBlocksInv ==
  ASSUME MInv, BlocksInv, Stray \/ StrayUnder \/ Spills \/ Overwrites
  PROVE  BlocksInv'
<1>1. /\ pc = "idle" /\ pc' = "idle" /\ todo # <<>> /\ todo \in Seq(Call)
      /\ Called.call \in {"nul", "under", "spill", "wild"}
      /\ todo' = Tail(todo) /\ UNCHANGED <<live, ptr, variables, line, before>>
  BY MInvParts DEF Stray, StrayUnder, Spills, Overwrites, Doing, ShellInv, vars
<1>2. Consumed(Called) = {} /\ Allocated(Called) = {}
  BY <1>1 DEF Consumed, Allocated
<1>3. /\ Orderly(todo') /\ (Pushing(todo) <=> Pushing(todo')) /\ Need(todo') = Need(todo)
      /\ Gain(todo') \in Int /\ Gain(todo) = Gain(todo') + 0
  BY <1>1, <1>2, Heads DEF BlocksInv
<1>4. (NewName' <=> NewName) /\ (NewNode' <=> NewNode) /\ New' = New /\ Needed' = Needed
  BY <1>1, <1>3 DEF NewName, Index, NewNode, Pushing, New, Needed, Rest, Need
<1>5. Total' = Total
  BY <1>1, <1>4 DEF Total
<1>6. Counted'
  <2>1. Gain(todo)' = Gain(todo')
    BY DEF Gain, CallsLeft
  <2> QED
    BY <1>1, <1>3, <1>4, <1>5, <2>1 DEF BlocksInv, Counted
<1>7. Listed' /\ OnCourse' /\ NeededHeld' /\ Kept'
  BY <1>1, <1>4 DEF BlocksInv, Listed, OnCourse, NeededHeld, Kept
<1>8. ToPush' /\ Orderly(todo)'
  BY <1>1, <1>3 DEF BlocksInv, ToPush, Pushing, Orderly, Sound, PushOnce, NoNodeFreed
<1> QED
  BY <1>6, <1>7, <1>8 DEF BlocksInv

(* The list with a variable added in front, or set again as its last.      *)
LEMMA Listing ==
  ASSUME NEW x \in Entry, NEW k \in DOMAIN variables, variables \in Seq(Entry)
  PROVE  /\ <<x>> \o variables \in Seq(Entry)
         /\ DOMAIN (<<x>> \o variables) = 1 .. Len(variables) + 1
         /\ (<<x>> \o variables)[1] = x
         /\ \A j \in 2 .. Len(variables) + 1 : (<<x>> \o variables)[j] = variables[j - 1]
         /\ Append(SubSeq(variables, 1, k - 1), x) \in Seq(Entry)
         /\ DOMAIN Append(SubSeq(variables, 1, k - 1), x) = 1 .. k
         /\ \A j \in 1 .. k :
              Append(SubSeq(variables, 1, k - 1), x)[j] = IF j = k THEN x ELSE variables[j]
         /\ k \in 1 .. Len(variables)
OBVIOUS

LEMMA ListingNew ==
  ASSUME NEW x \in Entry, variables \in Seq(Entry)
  PROVE  /\ <<x>> \o variables \in Seq(Entry)
         /\ DOMAIN (<<x>> \o variables) = 1 .. Len(variables) + 1
         /\ (<<x>> \o variables)[1] = x
         /\ \A j \in 2 .. Len(variables) + 1 :
              j - 1 \in DOMAIN variables /\ (<<x>> \o variables)[j] = variables[j - 1]
OBVIOUS

LEMMA OfIs ==
  ASSUME NEW v
  PROVE  /\ Of(v)[1] = v.node /\ Of(v)[2] = v.name /\ Of(v)[3] = v.value
         /\ 1 .. 3 = {1, 2, 3}
BY DEF Of

(* Linking a block that no variable has keeps the variables apart.         *)
LEMMA LinksBlocksInv ==
  ASSUME MInv, BlocksInv, Links
  PROVE  BlocksInv'
<1> DEFINE new == [is |-> line.is, node |-> ptr["node"], name |-> ptr["name"],
                   value |-> ptr["value"]]
<1>1. /\ pc = "idle" /\ pc' = "idle" /\ todo # <<>> /\ todo \in Seq(Call) /\ Called.call = "push"
      /\ todo' = Tail(todo) /\ UNCHANGED <<live, ptr, line, before>>
      /\ ptr \in [Pointers -> Nat] /\ variables \in Seq(Entry)
  BY MInvParts DEF Links, Doing, ShellInv, vars, BlocksInv, Listed
<1>2. Consumed(Called) = {"node", "name", "value"} /\ Allocated(Called) = {}
  BY <1>1 DEF Consumed, Allocated
<1>3. /\ Orderly(todo') /\ Pushing(todo) /\ ~Pushing(todo')
      /\ Need(todo) = {"node", "name", "value"} \cup Need(todo')
      /\ {"node", "name", "value"} \cap Need(todo') = {}
      /\ Gain(todo') \in Int /\ Gain(todo) = Gain(todo') + 0
  BY <1>1, <1>2, Heads DEF BlocksInv
<1>4. /\ line.command = "set"
      /\ \A k \in DOMAIN variables : \A i \in 1 .. 3 : Of(variables[k])[i] \in before
  BY <1>3 DEF BlocksInv, ToPush
<1>5. NewName <=> Index(line.is) = {}
  BY <1>4 DEF NewName
<1>6. {"name", "value"} \cup Need(todo') \subseteq Needed /\ (NewName => "node" \in Needed)
  BY <1>1, <1>3 DEF Needed, Rest
<1>7. Needed' \subseteq Need(todo')
  BY <1>1 DEF Needed, Rest, Need
<1>8. new \in Entry
  <2>1. line.is \in {l.is : l \in Lines} \cup {PwdLine.is}
    BY DEF BlocksInv, Listed
  <2>2. ptr["node"] \in Nat /\ ptr["name"] \in Nat /\ ptr["value"] \in Nat
    BY <1>1 DEF Pointers
  <2> QED
    BY <2>1, <2>2 DEF Entry
<1>9. new.node = ptr["node"] /\ new.name = ptr["name"] /\ new.value = ptr["value"]
  OBVIOUS
<1> HIDE DEF new
<1>10. /\ ptr["name"] \in New /\ ptr["value"] \in New /\ ptr["name"] # ptr["value"]
       /\ NewName => /\ ptr["node"] \in New
                     /\ ptr["node"] # ptr["name"] /\ ptr["node"] # ptr["value"]
  BY <1>6 DEF BlocksInv, NeededHeld
<1>11. \A w \in Need(todo') : /\ ptr[w] \in New /\ ptr[w] # ptr["name"] /\ ptr[w] # ptr["value"]
                              /\ NewName => ptr[w] # ptr["node"]
  BY <1>3, <1>6 DEF BlocksInv, NeededHeld
<1>12. New' = New /\ New \cap before = {} /\ New \subseteq DOMAIN live
       /\ before \subseteq DOMAIN live
  BY <1>1 DEF New, BlocksInv, Counted
<1> DEFINE B(k, i) == Of(variables[k])[i]
           C(k, i) == Of(variables'[k])[i]
<1>13. /\ variables' \in Seq(Entry)
       /\ \A k \in DOMAIN variables' : \A i \in 1 .. 3 :
            C(k, i) \in DOMAIN live /\ \A w \in Need(todo') : ptr[w] # C(k, i)
       /\ \A j, k \in DOMAIN variables' : \A h, i \in 1 .. 3 : C(j, h) = C(k, i) => j = k /\ h = i
       /\ (\E k \in DOMAIN variables' : variables'[k].node \notin before) <=> NewName
  <2>1. CASE Index(line.is) = {}
    <3>1. variables' = <<new>> \o variables
      BY <1>1, <2>1 DEF Links, new
    <3>2. /\ variables' \in Seq(Entry) /\ DOMAIN variables' = 1 .. Len(variables) + 1
          /\ variables'[1] = new
          /\ \A j \in 2 .. Len(variables) + 1 :
               j - 1 \in DOMAIN variables /\ variables'[j] = variables[j - 1]
      BY <1>1, <1>8, <3>1, ListingNew
    <3>3. \A i \in 1 .. 3 : C(1, i) \in {ptr["node"], ptr["name"], ptr["value"]}
      BY <1>9, <3>2, OfIs
    <3>4. \A h, i \in 1 .. 3 : C(1, h) = C(1, i) => h = i
      BY <1>5, <1>9, <1>10, <2>1, <3>2, OfIs
    <3>5. \A i \in 1 .. 3 : C(1, i) \in New /\ \A w \in Need(todo') : ptr[w] # C(1, i)
      BY <1>5, <1>10, <1>11, <2>1, <3>3
    <3>6. \A j \in 2 .. Len(variables) + 1 : \A i \in 1 .. 3 :
            j - 1 \in DOMAIN variables /\ C(j, i) = B(j - 1, i) /\ C(j, i) \in before
      BY <1>4, <3>2
    <3>7. DOMAIN variables' = {1} \cup (2 .. Len(variables) + 1) /\ Len(variables) \in Nat
      BY <1>1, <3>2
    <3> HIDE DEF C
    <3>8. \A k \in DOMAIN variables' : \A i \in 1 .. 3 :
            C(k, i) \in DOMAIN live /\ \A w \in Need(todo') : ptr[w] # C(k, i)
      BY <1>11, <1>12, <3>5, <3>6, <3>7
    <3>9. ASSUME NEW j \in DOMAIN variables', NEW k \in DOMAIN variables', NEW h \in 1 .. 3,
                 NEW i \in 1 .. 3, C(j, h) = C(k, i)
          PROVE  j = k /\ h = i
      <4>1. CASE j = 1 /\ k = 1
        BY <3>4, <3>9, <4>1
      <4>2. CASE j = 1 /\ k # 1
        BY <1>12, <3>5, <3>6, <3>7, <3>9, <4>2
      <4>3. CASE j # 1 /\ k = 1
        BY <1>12, <3>5, <3>6, <3>7, <3>9, <4>3
      <4>4. CASE j # 1 /\ k # 1
        <5>1. /\ j - 1 \in DOMAIN variables /\ k - 1 \in DOMAIN variables
              /\ B(j - 1, h) = B(k - 1, i) /\ j \in Nat /\ k \in Nat
          BY <3>6, <3>7, <3>9, <4>4
        <5>2. j - 1 = k - 1 /\ h = i
          BY <5>1 DEF BlocksInv, Kept
        <5> QED
          BY <5>1, <5>2
      <4> QED
        BY <4>1, <4>2, <4>3, <4>4
    <3>10. \E k \in DOMAIN variables' : variables'[k].node \notin before
      <4>1. 1 \in DOMAIN variables' /\ variables'[1].node = ptr["node"]
        BY <1>9, <3>2, <3>7
      <4> QED
        BY <1>5, <1>10, <1>12, <2>1, <4>1
    <3> QED
      BY <1>5, <2>1, <3>2, <3>8, <3>9, <3>10 DEF C
  <2>2. CASE Index(line.is) # {}
    <3> DEFINE k0 == CHOOSE k \in Index(line.is) : TRUE
               x == [new EXCEPT !.node = variables[k0].node]
    <3>1. k0 \in DOMAIN variables
      <4>1. k0 \in Index(line.is)
        BY <2>2
      <4> QED
        BY <4>1 DEF Index
    <3>2. variables' = Append(SubSeq(variables, 1, k0 - 1), x)
      BY <1>1, <2>2 DEF Links, new
    <3>3. /\ x \in Entry /\ x.node = variables[k0].node
          /\ x.name = ptr["name"] /\ x.value = ptr["value"]
      <4>1. variables[k0] \in Entry
        BY <1>1, <3>1
      <4>2. variables[k0].node \in Nat
        BY <4>1 DEF Entry
      <4> QED
        BY <1>8, <1>9, <4>2 DEF Entry
    <3> HIDE DEF x, k0
    <3>4. /\ variables' \in Seq(Entry) /\ DOMAIN variables' = 1 .. k0
          /\ k0 \in 1 .. Len(variables)
          /\ \A j \in 1 .. k0 : variables'[j] = IF j = k0 THEN x ELSE variables[j]
      BY <1>1, <3>1, <3>2, <3>3, Listing
    <3>5. /\ k0 \in DOMAIN variables' /\ k0 \in Nat
          /\ \A j \in DOMAIN variables' : j \in DOMAIN variables
          /\ C(k0, 1) = B(k0, 1) /\ C(k0, 2) = ptr["name"] /\ C(k0, 3) = ptr["value"]
          /\ \A j \in DOMAIN variables' : j # k0 => \A i \in 1 .. 3 : C(j, i) = B(j, i)
      BY <1>1, <3>3, <3>4, OfIs
    <3>6. \A k \in DOMAIN variables : \A i \in 1 .. 3 : B(k, i) \in before
      BY <1>4
    <3>7. \A j, k \in DOMAIN variables : \A h, i \in 1 .. 3 : B(j, h) = B(k, i) => j = k /\ h = i
      BY DEF BlocksInv, Kept
    <3> HIDE DEF B, C
    <3>8. \A k \in DOMAIN variables' : \A i \in 1 .. 3 :
            \/ C(k, i) = B(k, i) /\ C(k, i) \in before
            \/ k = k0 /\ i = 2 /\ C(k, i) = ptr["name"]
            \/ k = k0 /\ i = 3 /\ C(k, i) = ptr["value"]
      BY <3>5, <3>6, OfIs
    <3>9. \A k \in DOMAIN variables' : \A i \in 1 .. 3 :
            C(k, i) \in DOMAIN live /\ \A w \in Need(todo') : ptr[w] # C(k, i)
      BY <1>10, <1>11, <1>12, <3>8
    <3>10. \A j, k \in DOMAIN variables' : \A h, i \in 1 .. 3 : C(j, h) = C(k, i) => j = k /\ h = i
      BY <1>10, <1>12, <3>5, <3>7, <3>8
    <3>11. \A k \in DOMAIN variables' : variables'[k].node \in before
      <4>1. \A k \in DOMAIN variables' : C(k, 1) \in before
        BY <3>5, <3>6, OfIs
      <4> QED
        BY <4>1, OfIs DEF C
    <3> QED
      BY <1>5, <2>2, <3>4, <3>9, <3>10, <3>11 DEF C
  <2> QED
    BY <2>1, <2>2
<1>14. (NewNode' <=> NewNode)
  BY <1>1, <1>3, <1>13 DEF NewNode, Pushing
<1>15. Total' = Total
  BY <1>1, <1>14 DEF Total
<1>16. Counted'
  <2>1. Gain(todo)' = Gain(todo')
    BY DEF Gain, CallsLeft
  <2> QED
    BY <1>1, <1>3, <1>12, <1>15, <2>1 DEF BlocksInv, Counted
<1>17. Kept'
  BY <1>1, <1>13 DEF Kept
<1>18. NeededHeld'
  <2>1. \A v, w \in Needed' : ptr[v] = ptr[w] => v = w
    BY <1>6, <1>7 DEF BlocksInv, NeededHeld
  <2>2. \A v \in Needed' : ptr[v] \in New' /\ \A k \in DOMAIN variables' : \A i \in 1 .. 3 :
          C(k, i) # ptr[v]
    BY <1>7, <1>11, <1>12, <1>13
  <2> QED
    BY <1>1, <2>1, <2>2 DEF NeededHeld
<1>19. Listed' /\ OnCourse'
  BY <1>1, <1>13 DEF BlocksInv, Listed, OnCourse
<1>20. ToPush' /\ Orderly(todo)'
  BY <1>3 DEF ToPush, Pushing, Orderly, Sound, PushOnce, NoNodeFreed
<1> QED
  BY <1>16, <1>17, <1>18, <1>19, <1>20 DEF BlocksInv

LEMMA MNextBlocksInv ==
  ASSUME MInv, BlocksInv, [MemoryNext]_<<vars, shell>>
  PROVE  BlocksInv'
<1>1. CASE UNCHANGED <<vars, shell>>
  <2>1. OnCourse'
    BY <1>1 DEF BlocksInv, OnCourse, Called, vars, shell
  <2> QED
    BY <1>1, <2>1, StaysBlocksInv DEF vars
<1>2. CASE Walks
  BY <1>2, WalksBlocksInv, MarkBlocksInv
<1> QED
  BY <1>1, <1>2, EnterBlocksInv, CallsBlocksInv, AllocatesBlocksInv, FreesBlocksInv,
     StrayBlocksInv, LinksBlocksInv
  DEF MemoryNext

LEMMA MemoryBlocksInv == MemorySpec => [](MInv /\ BlocksInv)
<1>1. MemoryInit => MInv /\ BlocksInv
  BY InitMInv, InitBlocksInv
<1>2. MInv /\ BlocksInv /\ [MemoryNext]_<<vars, shell>> => MInv' /\ BlocksInv'
  BY MNextMInv, MNextBlocksInv
<1> QED
  BY <1>1, <1>2, PTL DEF MemorySpec

(* Whatever lines are entered, what a variable points to is never freed,   *)
(* nor given to another, as long as the headers are intact.                *)
THEOREM VariablesStay == MemorySpec => []VariablesKept
<1>1. MInv /\ BlocksInv => VariablesKept
  BY DEF BlocksInv, VariablesKept
<1> QED
  BY <1>1, MemoryBlocksInv, PTL

(* Every line leaves exactly the blocks behind that Left counts, as long   *)
(* as the headers are intact.                                              *)
THEOREM LinesGiveBack == MemorySpec => []GivesBack
<1>1. ASSUME MInv, BlocksInv
      PROVE  GivesBack
  <2> SUFFICES ASSUME intact, Prompt
               PROVE  before \subseteq DOMAIN live /\ Cardinality(DOMAIN live \ before) = Left
    BY DEF GivesBack
  <2>1. todo = <<>> /\ pc = "idle"
    BY DEF Prompt
  <2>2. Gain(todo) = 0 /\ ~Pushing(todo)
    BY <2>1, AtEnd
  <2>3. NewNode <=>
          \E p \in DOMAIN live \ before : \E k \in DOMAIN variables : variables[k].node = p
    <3>1. ASSUME NEW k \in DOMAIN variables
          PROVE  variables[k].node \in DOMAIN live
      <4>1. Of(variables[k])[1] \in DOMAIN live
        BY <1>1 DEF BlocksInv, Kept
      <4> QED
        BY <4>1, OfIs
    <3> QED
      BY <2>2, <3>1 DEF NewNode
  <2>4. Total = Left
    BY <2>3 DEF Total, Left
  <2>5. Cardinality(New) \in Nat
    <3>1. New \in SUBSET DOMAIN live
      BY DEF New
    <3> QED
      BY <1>1, <3>1, FS_Subset, FS_CardinalityType DEF BlocksInv, Counted
  <2> QED
    BY <1>1, <2>1, <2>2, <2>4, <2>5 DEF BlocksInv, Counted, New
<1> QED
  BY <1>1, MemoryBlocksInv, PTL
=============================================================================
