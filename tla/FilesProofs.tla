---------------------------- MODULE FilesProofs ----------------------------
(***************************************************************************)
(* Proofs about the file system for every size of the device, every set of *)
(* names and paths and whatever the memory held at boot.                   *)
(*                                                                         *)
(* IInv is inductive, wherever paths may lead.  Then, that a path of the   *)
(* code leads where a path of the directory tree does, by induction along  *)
(* the path; that the entries make a directory tree, as long as they lie   *)
(* side by side in each directory under different names: TreeInv; and that *)
(* what tree prints is the whole of it, from the last inode up.            *)
(***************************************************************************)
EXTENDS Files, TLAPS, WellFoundedInduction

LEMMA InitInv == Init => IInv
<1> SUFFICES ASSUME Init PROVE IInv
  OBVIOUS
<1> USE FilesAssumption
<1>1. PICK i \in FirstUnset(InodesAtBoot, Inode),
            j \in Inode, b \in FirstUnset(BlocksAtBoot, Block) :
        j \in FirstUnset(InodesAtBoot \cup {i}, Inode) /\ Boot(i, j, b)
  BY DEF Init, FirstUnset
<1>2. j \in FirstUnset(InodesAtBoot \cup {i}, Inode)
  BY <1>1
<1>3. Boot(i, j, b)
  BY <1>1
<1>4. /\ i \in Inode /\ j \in Inode /\ b \in Block
      /\ \A x \in Inode : x < i => x \in InodesAtBoot
      /\ \A x \in Inode : x < j => x \in InodesAtBoot \cup {i}
      /\ j \notin InodesAtBoot \cup {i}
  BY <1>1, <1>2 DEF FirstUnset, Inode, Block
<1>5. i < j
  BY <1>4 DEF Inode
<1>6. b # Null /\ j # Null
  BY <1>4 DEF Inode, Block, Null
<1>7. /\ \A c \in Block, s \in Slot : ent[c][s].inode # Null =>
           c = b /\ s = 1 /\ ent[c][s].inode = j
      /\ \A x \in Inode, k \in Link : blocks[x][k] # Null =>
           x = i /\ k = 1 /\ blocks[x][k] = b
  BY <1>3 DEF Free, Boot
<1>8. TypeOK
  <2>1. NameLen[RootName] \in 0 .. 7 /\ RootName \in Name
    OBVIOUS
  <2>2. Free \in Entry /\ [name |-> RootName, len |-> NameLen[RootName], inode |-> j] \in Entry
    BY <2>1, <1>4 DEF Free, Entry
  <2>3. ent \in [Block -> [Slot -> Entry]]
    BY <2>2, <1>3 DEF Boot
  <2>4. /\ mode \in [Inode -> {"none", "file", "dir"}]
        /\ blocks \in [Inode -> [Link -> Block \cup {Null}]]
        /\ tail \in [1 .. (BLOCKS + 1) -> BOOLEAN]
    BY <1>3, <1>4 DEF Boot
  <2>5. heapOK \in BOOLEAN
    BY <1>3 DEF Outside, Boot
  <2>6. QED
    BY <2>3, <2>4, <2>5, <1>3, <1>4 DEF TypeOK, Boot
<1>9. OneEntry
  BY <1>7 DEF OneEntry
<1>10. OneOwner
  BY <1>7 DEF OneOwner
<1>11. Descends
  <2> SUFFICES ASSUME NEW x \in Inode, NEW k \in Link, NEW s \in Slot,
                      blocks[x][k] # Null, ent[blocks[x][k]][s].inode # Null
               PROVE  ent[blocks[x][k]][s].inode > x
    BY DEF Descends
  <2>1. x = i /\ blocks[x][k] = b
    BY <1>7
  <2>2. ent[b][s].inode = j
    BY <2>1, <1>4, <1>7
  <2>3. QED
    BY <2>1, <2>2, <1>4, <1>5 DEF Inode
<1>12. Created
  <2>1. mode[i] = "dir" /\ mode[j] = "dir"
        /\ \A x \in Inode : mode[x] # "none" => x \in {i, j}
    BY <1>3, <1>4 DEF Boot
  <2>2. QED
    BY <2>1, <1>3, <1>4, <1>7 DEF Created, Boot
<1>13. Increasing
  <2>1. \A x \in Inode : mode[x] # "none" => x \in {i, j}
    BY <1>3 DEF Boot
  <2> SUFFICES ASSUME NEW x \in {i, j}, NEW y \in Inode, y <= x
               PROVE  y \in inodeBits
    BY <2>1, <1>4 DEF Increasing
  <2>2. QED
    BY <1>3, <1>4, <1>5 DEF Inode, Boot
<1>14. QED
  BY <1>8, <1>9, <1>10, <1>11, <1>12, <1>13 DEF IInv

(* The inode that fs_create_inode returns is the first unused one.         *)
LEMMA NewInodeFacts ==
  ASSUME TypeOK, NEW i \in NewInode
  PROVE  /\ i \in Inode \cup {Null}
         /\ i # Null => /\ i \in Inode /\ i \notin inodeBits
                        /\ \A j \in Inode : j < i => j \in inodeBits
<1> USE FilesAssumption
<1>1. CASE inodeBits = Inode
  BY <1>1 DEF NewInode
<1>2. CASE inodeBits # Inode
  <2>1. i \in FirstUnset(inodeBits, Inode)
    BY <1>2 DEF NewInode
  <2>2. QED
    BY <2>1 DEF FirstUnset, Inode
<1>3. QED
  BY <1>1, <1>2

(* A name written over another is an entry again.                          *)
LEMMA WrittenEntry ==
  ASSUME NEW old \in Entry, NEW n \in Name \cup {NoName},
         NEW i \in Inode \cup {Null}
  PROVE  /\ Written(old, n, i) \in Entry
         /\ Written(old, n, i).inode = i
<1> USE FilesAssumption
<1>1. old.len \in 0 .. 7 /\ LenOf(n) \in 0 .. 7
  BY DEF Entry, LenOf
<1>2. QED
  BY <1>1 DEF Written, Entry

(* The inodes after a step that created inode i, or none if i is Null, and *)
(* may have given blocks to directories.                                   *)
LEMMA InodesKept ==
  ASSUME IInv,
         NEW i \in Inode \cup {Null}, NEW k \in {"file", "dir"},
         i # Null => i \notin inodeBits /\ \A j \in Inode : j < i => j \in inodeBits,
         \/ i = Null /\ UNCHANGED <<inodeBits, mode>>
         \/ /\ i # Null
            /\ inodeBits' = SetBit(inodeBits, i)
            /\ mode' = [mode EXCEPT ![i] = k]
  PROVE  /\ inodeBits' \subseteq Inode
         /\ mode' \in [Inode -> {"none", "file", "dir"}]
         /\ Increasing'
         /\ \A x \in Inode : mode'[x] # "none" => x \in inodeBits'
         /\ \A x \in Inode : mode[x] # "none" => mode'[x] = mode[x] /\ x # i
         /\ i # Null => mode'[i] # "none"
<1> USE DEF IInv, TypeOK
<1>1. CASE i = Null /\ UNCHANGED <<inodeBits, mode>>
  <2>1. \A x \in Inode : x # Null
    BY DEF Inode, Null
  <2>2. QED
    BY <1>1, <2>1 DEF Increasing, Created
<1>2. CASE /\ i # Null
           /\ inodeBits' = SetBit(inodeBits, i)
           /\ mode' = [mode EXCEPT ![i] = k]
  <2>1. /\ i \in Inode /\ i \notin inodeBits
        /\ \A j \in Inode : j < i => j \in inodeBits
    BY <1>2
  <2>2. /\ inodeBits' = inodeBits \cup {i}
        /\ \A x \in Inode : mode'[x] = IF x = i THEN k ELSE mode[x]
        /\ mode' \in [Inode -> {"none", "file", "dir"}]
    BY <1>2, <2>1 DEF SetBit
  <2>3. Increasing'
    <3> SUFFICES ASSUME NEW x \in Inode, mode'[x] # "none", NEW j \in Inode, j <= x
                 PROVE  j \in inodeBits'
      BY DEF Increasing
    <3>1. CASE x = i
      BY <3>1, <2>1, <2>2 DEF Inode
    <3>2. CASE x # i
      BY <3>2, <2>2 DEF Increasing
    <3>3. QED
      BY <3>1, <3>2
  <2>4. QED
    BY <2>1, <2>2, <2>3 DEF Created
<1>3. QED
  BY <1>1, <1>2

(* touch or mkdir take an entry of a block that directory d owns.          *)
LEMMA TakeEntryInv ==
  ASSUME IInv,
         NEW d \in Inode, mode[d] = "dir", NEW l \in Link, NEW s \in Slot,
         blocks[d][l] # Null,
         NEW n \in Name \cup {NoName}, NEW k \in {"file", "dir"},
         TakeEntry(blocks[d][l], s, n, k), UNCHANGED <<root, cwd>>
  PROVE  IInv'
<1> USE FilesAssumption DEF IInv
<1> DEFINE b == blocks[d][l]
<1>1. b \in Block
  BY DEF TypeOK
<1>2. PICK i \in NewInode :
        /\ ent' = [ent EXCEPT ![b][s] = Written(@, n, i)]
        /\ tail' = IF s = SLOTS THEN [tail EXCEPT ![b + 1] = TRUE] ELSE tail
        /\ \/ i = Null /\ UNCHANGED <<inodeBits, mode, blocks>>
           \/ /\ i # Null
              /\ inodeBits' = SetBit(inodeBits, i)
              /\ mode' = [mode EXCEPT ![i] = k]
              /\ blocks' = [blocks EXCEPT ![i] = NoBlocks]
        /\ UNCHANGED <<blockBits, heapOK>>
  BY DEF TakeEntry, CreateInode
<1>3. /\ i \in Inode \cup {Null}
      /\ i # Null => /\ i \in Inode /\ i \notin inodeBits
                     /\ \A j \in Inode : j < i => j \in inodeBits
  BY NewInodeFacts
<1>4. /\ inodeBits' \subseteq Inode
      /\ mode' \in [Inode -> {"none", "file", "dir"}]
      /\ Increasing'
      /\ \A x \in Inode : mode'[x] # "none" => x \in inodeBits'
      /\ \A x \in Inode : mode[x] # "none" => mode'[x] = mode[x] /\ x # i
      /\ i # Null => mode'[i] # "none"
  BY <1>2, <1>3, InodesKept
<1>5. /\ ent' \in [Block -> [Slot -> Entry]]
      /\ \A c \in Block, t \in Slot :
           ent'[c][t].inode = IF c = b /\ t = s THEN i ELSE ent[c][t].inode
  <2>1. ent[b][s] \in Entry
    BY <1>1 DEF TypeOK
  <2>2. Written(ent[b][s], n, i) \in Entry /\ Written(ent[b][s], n, i).inode = i
    BY <2>1, <1>3, WrittenEntry
  <2>3. QED
    BY <1>1, <1>2, <2>2 DEF TypeOK
<1>6. /\ blocks' \in [Inode -> [Link -> Block \cup {Null}]]
      /\ \A x \in Inode, m \in Link :
           blocks'[x][m] # Null => x # i /\ blocks'[x][m] = blocks[x][m]
  <2>1. CASE i = Null
    BY <2>1, <1>2 DEF TypeOK, Inode, Null
  <2>2. CASE i # Null
    <3>1. /\ NoBlocks \in [Link -> Block \cup {Null}]
          /\ \A m \in Link : NoBlocks[m] = Null
      BY DEF NoBlocks
    <3>2. /\ i \in Inode
          /\ blocks' = [blocks EXCEPT ![i] = NoBlocks]
      BY <2>2, <1>2, <1>3
    <3>3. QED
      BY <3>1, <3>2 DEF TypeOK
  <2>3. QED
    BY <2>1, <2>2
<1>7. TypeOK'
  <2>1. tail' \in [1 .. (BLOCKS + 1) -> BOOLEAN]
    BY <1>1, <1>2 DEF TypeOK, Block
  <2>2. QED
    BY <2>1, <1>2, <1>4, <1>5, <1>6 DEF TypeOK
<1>8. \A c \in Block, t \in Slot : i # Null => ent[c][t].inode # i
  BY <1>3 DEF Created, TypeOK, Entry
<1>9. OneEntry'
  BY <1>5, <1>8 DEF OneEntry
<1>10. OneOwner'
  BY <1>6 DEF OneOwner
<1>11. Descends'
  <2> SUFFICES ASSUME NEW x \in Inode, NEW m \in Link, NEW t \in Slot,
                      blocks'[x][m] # Null, ent'[blocks'[x][m]][t].inode # Null
               PROVE  ent'[blocks'[x][m]][t].inode > x
    BY DEF Descends
  <2>1. blocks'[x][m] = blocks[x][m] /\ blocks[x][m] \in Block
    BY <1>6 DEF TypeOK
  <2>2. CASE blocks[x][m] = b /\ t = s
    <3>1. x = d
      BY <2>1, <2>2 DEF OneOwner
    <3>2. i # Null /\ ent'[blocks'[x][m]][t].inode = i
      BY <2>1, <2>2, <1>5
    <3>3. i > d
      <4>1. d # i /\ d \in Inode /\ i \in Inode
        BY <1>3, <1>4, <3>2
      <4>2. ~(i < d)
        BY <4>1, <1>3, <3>2 DEF Increasing, Inode
      <4>3. QED
        BY <4>1, <4>2 DEF Inode
    <3>4. QED
      BY <3>1, <3>2, <3>3
  <2>3. CASE ~(blocks[x][m] = b /\ t = s)
    BY <2>1, <2>3, <1>5 DEF Descends
  <2>4. QED
    BY <2>2, <2>3
<1>12. Created'
  <2>1. \A c \in Block, t \in Slot :
          ent'[c][t].inode # Null => mode'[ent'[c][t].inode] # "none"
    <3> TAKE c \in Block, t \in Slot
    <3>1. ent[c][t].inode \in Inode \cup {Null}
      BY DEF TypeOK, Entry
    <3>2. QED
      BY <3>1, <1>4, <1>5 DEF Created
  <2>2. mode'[cwd'] # "none"
    BY <1>4 DEF Created, TypeOK
  <2>3. \A x \in Inode : mode'[x] # "none" => x \in inodeBits'
    BY <1>2, <1>4 DEF Created
  <2>4. ASSUME NEW x \in Inode, NEW m \in Link, blocks'[x][m] # Null
        PROVE  mode'[x] = "dir" /\ blocks'[x][m] \in blockBits'
    <3>1. x # i /\ blocks'[x][m] = blocks[x][m]
      BY <1>6, <2>4
    <3>2. mode[x] = "dir" /\ blocks[x][m] \in blockBits
      BY <2>4, <3>1 DEF Created
    <3>3. mode'[x] = mode[x]
      BY <1>4, <3>1, <3>2
    <3>4. QED
      BY <1>2, <3>1, <3>2, <3>3
  <2>5. QED
    BY <2>1, <2>2, <2>3, <2>4 DEF Created
<1>13. QED
  BY <1>4, <1>7, <1>9, <1>10, <1>11, <1>12

(* touch or mkdir add a block to directory d.                              *)
LEMMA AddBlockInv ==
  ASSUME IInv,
         NEW d \in Inode, mode[d] = "dir", NEW l \in Link, blocks[d][l] = Null,
         NEW b \in NewBlock,
         NEW n \in Name \cup {NoName}, NEW k \in {"file", "dir"},
         AddBlock(d, l, b, n, k), UNCHANGED <<root, cwd>>
  PROVE  IInv'
<1> USE FilesAssumption DEF IInv
<1>1. b \in Block /\ b \notin blockBits
  BY DEF NewBlock, FirstUnset
<1>2. /\ blockBits' = blockBits \cup {b}
      /\ heapOK' = ~Outside(b)
      /\ tail' = [tail EXCEPT ![b] = FALSE]
  BY DEF AddBlock, SetBit
<1>3. PICK i \in Inode \cup {Null} :
        /\ i # Null => i \notin inodeBits /\ \A j \in Inode : j < i => j \in inodeBits
        /\ \/ i = Null /\ UNCHANGED <<inodeBits, mode>>
           \/ /\ i # Null
              /\ inodeBits' = SetBit(inodeBits, i)
              /\ mode' = [mode EXCEPT ![i] = k]
        /\ ent' \in [Block -> [Slot -> Entry]]
        /\ \A t \in Slot : ent'[b][t].inode = IF t = 1 THEN i ELSE Null
        /\ \A c \in Block : c # b => ent'[c] = ent[c]
        /\ blocks' = IF i = Null THEN [blocks EXCEPT ![d][l] = b]
                     ELSE [blocks EXCEPT ![d][l] = b, ![i] = NoBlocks]
  <2>1. Free \in Entry /\ Free.inode = Null
    BY DEF Free, Entry
  <2>2. FreeBlock \in [Slot -> Entry] /\ \A t \in Slot : FreeBlock[t].inode = Null
    BY <2>1 DEF FreeBlock
  <2>3. CASE n = NoName
    <3>1. /\ ent' = [ent EXCEPT ![b] = FreeBlock]
          /\ blocks' = [blocks EXCEPT ![d][l] = b]
          /\ UNCHANGED <<inodeBits, mode>>
      BY <2>3 DEF AddBlock
    <3>2. /\ ent' \in [Block -> [Slot -> Entry]]
          /\ \A t \in Slot : ent'[b][t].inode = Null
          /\ \A c \in Block : c # b => ent'[c] = ent[c]
      BY <3>1, <2>2, <1>1 DEF TypeOK
    <3>3. QED
      BY <3>1, <3>2
  <2>4. CASE n # NoName
    <3>1. PICK i \in NewInode :
            /\ ent' = [ent EXCEPT ![b] = [FreeBlock EXCEPT ![1] = Written(Free, n, i)]]
            /\ \/ /\ i = Null
                  /\ blocks' = [blocks EXCEPT ![d][l] = b]
                  /\ UNCHANGED <<inodeBits, mode>>
               \/ /\ i # Null
                  /\ inodeBits' = SetBit(inodeBits, i)
                  /\ mode' = [mode EXCEPT ![i] = k]
                  /\ blocks' = [blocks EXCEPT ![d][l] = b, ![i] = NoBlocks]
      BY <2>4 DEF AddBlock
    <3>2. /\ i \in Inode \cup {Null}
          /\ i # Null => /\ i \in Inode /\ i \notin inodeBits
                         /\ \A j \in Inode : j < i => j \in inodeBits
      BY NewInodeFacts
    <3>3. Written(Free, n, i) \in Entry /\ Written(Free, n, i).inode = i
      BY <2>1, <3>2, WrittenEntry
    <3> DEFINE B == [FreeBlock EXCEPT ![1] = Written(Free, n, i)]
    <3>4. B \in [Slot -> Entry] /\ \A t \in Slot : B[t].inode = IF t = 1 THEN i ELSE Null
      BY <2>2, <3>3 DEF Slot
    <3>5. ent' = [ent EXCEPT ![b] = B]
      BY <3>1
    <3> HIDE DEF B
    <3>6. /\ ent' \in [Block -> [Slot -> Entry]]
          /\ ent'[b] = B
          /\ \A c \in Block : c # b => ent'[c] = ent[c]
      BY <3>4, <3>5, <1>1 DEF TypeOK
    <3>7. QED
      BY <3>1, <3>2, <3>4, <3>6
  <2>5. QED
    BY <2>3, <2>4
<1>4. /\ inodeBits' \subseteq Inode
      /\ mode' \in [Inode -> {"none", "file", "dir"}]
      /\ Increasing'
      /\ \A x \in Inode : mode'[x] # "none" => x \in inodeBits'
      /\ \A x \in Inode : mode[x] # "none" => mode'[x] = mode[x] /\ x # i
      /\ i # Null => mode'[i] # "none"
  BY <1>3, InodesKept
<1>5. d # i
  BY <1>4
<1>6. /\ blocks' \in [Inode -> [Link -> Block \cup {Null}]]
      /\ blocks'[d][l] = b
      /\ \A x \in Inode, m \in Link : blocks'[x][m] # Null =>
           \/ x = d /\ m = l
           \/ x # i /\ blocks'[x][m] = blocks[x][m]
  <2>1. /\ NoBlocks \in [Link -> Block \cup {Null}]
        /\ \A m \in Link : NoBlocks[m] = Null
    BY DEF NoBlocks
  <2>2. \A x \in Inode : x # Null
    BY DEF Inode, Null
  <2>3. CASE i = Null
    BY <2>2, <2>3, <1>1, <1>3 DEF TypeOK
  <2>4. CASE i # Null
    BY <2>1, <2>4, <1>1, <1>3, <1>5 DEF TypeOK
  <2>5. QED
    BY <2>3, <2>4
<1>7. TypeOK'
  <2>1. tail' \in [1 .. (BLOCKS + 1) -> BOOLEAN]
    BY <1>2 DEF TypeOK
  <2>2. heapOK' \in BOOLEAN
    BY <1>2 DEF Outside
  <2>3. QED
    BY <2>1, <2>2, <1>1, <1>2, <1>3, <1>4, <1>6 DEF TypeOK
<1>8. \A c \in Block, t \in Slot : i # Null => ent[c][t].inode # i
  BY <1>3 DEF Created, TypeOK, Entry
<1>9. \A x \in Inode, m \in Link : blocks[x][m] # b
  BY <1>1 DEF Created, Null, Block
<1>10. OneEntry'
  <2>1. \A c \in Block, t \in Slot : ent'[c][t].inode # Null =>
          \/ c = b /\ t = 1 /\ ent'[c][t].inode = i
          \/ c # b /\ ent'[c][t].inode = ent[c][t].inode /\ ent[c][t].inode # i
    BY <1>3, <1>8
  <2>2. QED
    BY <2>1 DEF OneEntry
<1>11. OneOwner'
  BY <1>6, <1>9 DEF OneOwner
<1>12. Descends'
  <2> SUFFICES ASSUME NEW x \in Inode, NEW m \in Link, NEW t \in Slot,
                      blocks'[x][m] # Null, ent'[blocks'[x][m]][t].inode # Null
               PROVE  ent'[blocks'[x][m]][t].inode > x
    BY DEF Descends
  <2>1. CASE x = d /\ m = l
    <3>1. i # Null /\ ent'[blocks'[x][m]][t].inode = i
      BY <2>1, <1>3, <1>6
    <3>2. ~(i < d)
      BY <3>1, <1>3 DEF Increasing, Inode
    <3>3. i \in Inode
      BY <3>1, <1>3
    <3>4. QED
      BY <2>1, <3>1, <3>2, <3>3, <1>5 DEF Inode
  <2>2. CASE ~(x = d /\ m = l)
    <3>1. blocks'[x][m] = blocks[x][m] /\ blocks[x][m] \in Block /\ blocks[x][m] # b
      BY <2>2, <1>6, <1>9 DEF TypeOK
    <3>2. QED
      BY <3>1, <1>3 DEF Descends
  <2>3. QED
    BY <2>1, <2>2
<1>13. Created'
  <2>1. \A c \in Block, t \in Slot :
          ent'[c][t].inode # Null => mode'[ent'[c][t].inode] # "none"
    <3> TAKE c \in Block, t \in Slot
    <3>1. ent[c][t].inode \in Inode \cup {Null}
      BY DEF TypeOK, Entry
    <3>2. QED
      BY <3>1, <1>3, <1>4 DEF Created
  <2>2. mode'[cwd'] # "none"
    BY <1>4 DEF Created, TypeOK
  <2>3. mode'[d] = "dir" /\ b \in blockBits'
    BY <1>2, <1>4
  <2>4. QED
    BY <2>1, <2>2, <2>3, <1>2, <1>4, <1>6 DEF Created
<1>14. QED
  BY <1>4, <1>7, <1>10, <1>11, <1>12, <1>13

(* Steps that only move current_dir, or break the heap.                    *)
LEMMA KeptInv ==
  ASSUME IInv, UNCHANGED <<inodeBits, blockBits, mode, blocks, ent, tail, root>>,
         cwd' \in Inode, mode[cwd'] # "none", heapOK' \in BOOLEAN
  PROVE  IInv'
<1> USE DEF IInv
<1>1. TypeOK'
  BY DEF TypeOK
<1>2. OneEntry' /\ OneOwner' /\ Descends' /\ Increasing'
  BY DEF OneEntry, OneOwner, Descends, Increasing
<1>3. Created'
  BY DEF Created
<1>4. QED
  BY <1>1, <1>2, <1>3

(* touch or mkdir find no block left for a directory.                      *)
LEMMA NoBlockInv ==
  ASSUME IInv, NEW k \in {"file", "dir"}, NoBlockLeft(k), UNCHANGED <<root, cwd>>
  PROVE  IInv'
<1> USE DEF IInv
<1>1. CASE UNCHANGED <<inodeBits, mode, blocks, heapOK>>
  BY <1>1, KeptInv DEF NoBlockLeft, TypeOK, Created
<1>2. CASE heapOK' = FALSE /\ \E i \in NewInode : CreateInode(i, k)
  <2>1. UNCHANGED <<blockBits, ent, tail>>
    BY DEF NoBlockLeft
  <2>2. PICK i \in NewInode :
          \/ i = Null /\ UNCHANGED <<inodeBits, mode, blocks>>
          \/ /\ i # Null
             /\ inodeBits' = SetBit(inodeBits, i)
             /\ mode' = [mode EXCEPT ![i] = k]
             /\ blocks' = [blocks EXCEPT ![i] = NoBlocks]
    BY <1>2 DEF CreateInode
  <2>3. /\ i \in Inode \cup {Null}
        /\ i # Null => /\ i \in Inode /\ i \notin inodeBits
                       /\ \A j \in Inode : j < i => j \in inodeBits
    BY NewInodeFacts
  <2>4. /\ inodeBits' \subseteq Inode
        /\ mode' \in [Inode -> {"none", "file", "dir"}]
        /\ Increasing'
        /\ \A x \in Inode : mode'[x] # "none" => x \in inodeBits'
        /\ \A x \in Inode : mode[x] # "none" => mode'[x] = mode[x] /\ x # i
    BY <2>2, <2>3, InodesKept
  <2>5. /\ blocks' \in [Inode -> [Link -> Block \cup {Null}]]
        /\ \A x \in Inode, m \in Link : blocks'[x][m] # Null => blocks'[x][m] = blocks[x][m]
    <3>1. /\ NoBlocks \in [Link -> Block \cup {Null}]
          /\ \A m \in Link : NoBlocks[m] = Null
      BY DEF NoBlocks
    <3>2. CASE i = Null
      BY <2>2, <3>2 DEF TypeOK
    <3>3. CASE i # Null
      <4>1. i \in Inode /\ blocks' = [blocks EXCEPT ![i] = NoBlocks]
        BY <2>2, <2>3, <3>3
      <4>2. QED
        BY <3>1, <4>1 DEF TypeOK
    <3>4. QED
      BY <3>2, <3>3
  <2>6. TypeOK'
    BY <1>2, <2>1, <2>4, <2>5 DEF TypeOK
  <2>7. OneEntry' /\ OneOwner' /\ Descends'
    <3>1. OneEntry'
      BY <2>1 DEF OneEntry
    <3>2. OneOwner'
      BY <2>5 DEF OneOwner
    <3>3. Descends'
      BY <2>1, <2>5 DEF Descends
    <3>4. QED
      BY <3>1, <3>2, <3>3
  <2>8. Created'
    <3>1. \A c \in Block, t \in Slot :
            ent'[c][t].inode # Null => mode'[ent'[c][t].inode] # "none"
      <4> TAKE c \in Block, t \in Slot
      <4>1. ent[c][t].inode \in Inode \cup {Null}
        BY DEF TypeOK, Entry
      <4>2. QED
        BY <2>1, <2>4, <4>1 DEF Created
    <3>2. mode'[cwd'] # "none"
      BY <2>4 DEF Created, TypeOK
    <3>3. ASSUME NEW x \in Inode, NEW m \in Link, blocks'[x][m] # Null
          PROVE  mode'[x] = "dir" /\ blocks'[x][m] \in blockBits'
      <4>1. blocks'[x][m] = blocks[x][m]
        BY <2>5, <3>3
      <4>2. mode[x] = "dir" /\ blocks[x][m] \in blockBits
        BY <3>3, <4>1 DEF Created
      <4>3. mode'[x] = mode[x]
        BY <2>4, <4>2
      <4>4. QED
        BY <2>1, <4>1, <4>2, <4>3
    <3>4. QED
      BY <2>4, <3>1, <3>2, <3>3 DEF Created
  <2>9. QED
    BY <2>4, <2>6, <2>7, <2>8
<1>3. QED
  BY <1>1, <1>2 DEF NoBlockLeft

LEMMA CreateInv ==
  ASSUME IInv, NEW p \in Path, NEW k \in {"file", "dir"}, Create(p, k)
  PROVE  IInv'
<1> USE FilesAssumption
<1> DEFINE n == p.last
<1>1. n \in Name \cup {NoName}
  OBVIOUS
<1>2. PICK d \in Inode : mode[d] = "dir" /\ AddEntry(d, n, k) /\ UNCHANGED <<root, cwd>>
  BY DEF Create
<1> HIDE DEF n
<1>3. PICK q \in First(Stops(d, n)) :
        LET b == blocks[d][q[1]] IN
        \/ b # Null /\ TakeEntry(b, q[2], n, k)
        \/ b = Null /\ \E c \in NewBlock : AddBlock(d, q[1], c, n, k)
        \/ NoBlockLeft(k)
  BY <1>2 DEF AddEntry
<1>4. q[1] \in Link /\ q[2] \in Slot
  BY DEF First, Stops, Position
<1>5. CASE blocks[d][q[1]] # Null /\ TakeEntry(blocks[d][q[1]], q[2], n, k)
  BY <1>1, <1>2, <1>4, <1>5, TakeEntryInv
<1>6. CASE blocks[d][q[1]] = Null /\ \E c \in NewBlock : AddBlock(d, q[1], c, n, k)
  BY <1>1, <1>2, <1>4, <1>6, AddBlockInv
<1>7. CASE NoBlockLeft(k)
  BY <1>2, <1>7, NoBlockInv
<1>8. QED
  BY <1>3, <1>5, <1>6, <1>7

(* What a name leads to was created.                                       *)
LEMMA FindsCreated ==
  ASSUME IInv, NEW p \in Path, NEW f \in Inode, Finds(p, f)
  PROVE  mode[f] # "none"
<1>1. PICK d \in Inode : f = Lookup(d, p.last)
  BY DEF Finds
<1> DEFINE found == First({q \in Position :
                             /\ blocks[d][q[1]] # Null
                             /\ Matches(ent[blocks[d][q[1]]][q[2]], p.last)})
           e == CHOOSE q \in found : TRUE
<1>2. f # Null
  BY DEF Inode, Null
<1>3. found # {} /\ f = ent[blocks[d][e[1]]][e[2]].inode
  BY <1>1, <1>2 DEF Lookup
<1>4. e \in found
  BY <1>3
<1> HIDE DEF e
<1>5. e[1] \in Link /\ e[2] \in Slot /\ blocks[d][e[1]] # Null
  BY <1>4 DEF First, Position
<1>6. blocks[d][e[1]] \in Block
  BY <1>5 DEF IInv, TypeOK
<1>7. QED
  BY <1>2, <1>3, <1>5, <1>6 DEF IInv, Created

LEMMA EditInv ==
  ASSUME IInv, NEW p \in Path, Edit(p)
  PROVE  IInv'
<1> USE DEF IInv
<1>1. CASE UNCHANGED <<blockBits, tail, ent>>
  BY <1>1, KeptInv DEF Edit, TypeOK, Created
<1>2. CASE \E b \in NewBlock : /\ blockBits' = SetBit(blockBits, b)
                              /\ tail' = [tail EXCEPT ![b] = FALSE]
                              /\ ent' = [ent EXCEPT ![b] = FreeBlock]
  <2>1. PICK b \in NewBlock : /\ blockBits' = blockBits \cup {b}
                              /\ tail' = [tail EXCEPT ![b] = FALSE]
                              /\ ent' = [ent EXCEPT ![b] = FreeBlock]
    BY <1>2 DEF SetBit
  <2>2. b \in Block /\ b \notin blockBits
    BY DEF NewBlock, FirstUnset
  <2>3. /\ heapOK' = FALSE
        /\ UNCHANGED <<inodeBits, mode, blocks, root, cwd>>
    BY DEF Edit
  <2>4. Free \in Entry /\ Free.inode = Null
    BY DEF Free, Entry
  <2>5. FreeBlock \in [Slot -> Entry] /\ \A s \in Slot : FreeBlock[s].inode = Null
    BY <2>4 DEF FreeBlock
  <2>6. /\ ent' \in [Block -> [Slot -> Entry]]
        /\ \A s \in Slot : ent'[b][s].inode = Null
        /\ \A c \in Block : c # b => ent'[c] = ent[c]
    BY <2>1, <2>2, <2>5 DEF TypeOK
  <2>7. \A i \in Inode, l \in Link : blocks[i][l] # b
    BY <2>2 DEF Created, Null, Block
  <2>8. TypeOK'
    BY <2>1, <2>2, <2>3, <2>6 DEF TypeOK
  <2>9. OneEntry'
    BY <2>6 DEF OneEntry
  <2>10. OneOwner' /\ Increasing'
    BY <2>3 DEF OneOwner, Increasing
  <2>11. Descends'
    BY <2>3, <2>6, <2>7 DEF Descends, TypeOK
  <2>12. Created'
    BY <2>1, <2>3, <2>6 DEF Created
  <2>13. QED
    BY <2>8, <2>9, <2>10, <2>11, <2>12
<1>3. QED
  BY <1>1, <1>2 DEF Edit

LEMMA NextInv == IInv /\ [Next]_vars => IInv'
<1> SUFFICES ASSUME IInv, [Next]_vars PROVE IInv'
  OBVIOUS
<1>1. ASSUME NEW p \in Path, Touch(p) PROVE IInv'
  BY <1>1, CreateInv DEF Touch
<1>2. ASSUME NEW p \in Path, Mkdir(p) PROVE IInv'
  BY <1>2, CreateInv DEF Mkdir
<1>3. ASSUME NEW p \in Path, Cd(p) PROVE IInv'
  <2>1. cwd' \in Inode /\ mode[cwd'] # "none"
    BY <1>3, FindsCreated DEF Cd
  <2>2. QED
    BY <1>3, <2>1, KeptInv DEF Cd, IInv, TypeOK
<1>4. ASSUME NEW p \in Path, Edit(p) PROVE IInv'
  BY <1>4, EditInv
<1>5. CASE UNCHANGED vars
  BY <1>5, KeptInv DEF vars, IInv, TypeOK, Created
<1>6. QED
  BY <1>1, <1>2, <1>3, <1>4, <1>5 DEF Next

(* Whatever touch, mkdir, cd and edit do, in any order, IInv holds.        *)
THEOREM FilesInvariance == Spec => []IInv
<1>1. QED
  BY InitInv, NextInv, PTL DEF Spec

(* The inode and block tables and the entries stay well typed.             *)
THEOREM FilesTypes == Spec => []TypeOK
<1>1. IInv => TypeOK
  BY DEF IInv
<1>2. QED
  BY <1>1, FilesInvariance, PTL

(* No inode has two entries: fs_create_inode never returns one in use.     *)
THEOREM InodesHaveOneEntry == Spec => []OneEntry
<1>1. IInv => OneEntry
  BY DEF IInv
<1>2. QED
  BY <1>1, FilesInvariance, PTL

(* No block is in two directories: fs_create_block never returns one in    *)
(* use.                                                                    *)
THEOREM BlocksHaveOneOwner == Spec => []OneOwner
<1>1. IInv => OneOwner
  BY DEF IInv
<1>2. QED
  BY <1>1, FilesInvariance, PTL

(* Directories have no cycles, so print_fs_tree ends.                      *)
THEOREM TreeDescends == Spec => []Descends
<1>1. IInv => Descends
  BY DEF IInv
<1>2. QED
  BY <1>1, FilesInvariance, PTL

(* Entries and current_dir point to what was created.                      *)
THEOREM EntriesCreated == Spec => []Created
<1>1. IInv => Created
  BY DEF IInv
<1>2. QED
  BY <1>1, FilesInvariance, PTL
-----------------------------------------------------------------------------
(* Of some natural numbers one is the least.                               *)
LEMMA Least ==
  ASSUME NEW T, T \subseteq Nat, T # {}
  PROVE \E x \in T : \A y \in T : x <= y
<1> DEFINE R == {ss \in Nat \X Nat : ss[1] < ss[2]}
<1>1. IsWellFoundedOn(R, Nat) BY NatLessThanWellFounded DEF OpToRel
<1>3. \A x, y \in Nat : <<y, x>> \notin R => x <= y OBVIOUS
<1> HIDE DEF R
<1>2. \E x \in T : \A y \in T : ~(<<y, x>> \in R) BY <1>1, WFMin
<1>4. PICK x \in T : \A y \in T : ~(<<y, x>> \in R) BY <1>2
<1>5. \A y \in T : x <= y 
  <2> TAKE y \in T
  <2>1. x \in Nat /\ y \in Nat OBVIOUS
  <2> QED BY <2>1, <1>3, <1>4
<1> QED BY <1>4, <1>5

(* Induction up to n, for a set.                                           *)
LEMMA Ind ==
  ASSUME NEW n \in Nat, NEW P, 0 \in P, \A k \in 0 .. (n - 1) : k \in P => k + 1 \in P
  PROVE \A k \in 0 .. n : k \in P
<1> SUFFICES ASSUME NEW k \in 0 .. n, k \notin P PROVE FALSE OBVIOUS
<1> DEFINE T == {j \in 0 .. n : j \notin P}
<1>1. PICK x \in T : \A y \in T : x <= y 
  <2>1. T \subseteq Nat /\ T # {} OBVIOUS
  <2> HIDE DEF T
  <2> QED BY <2>1, Least
<1>2. x \in 1 .. n BY <1>1
<1>3. x - 1 \in 0 .. n - 1 /\ x - 1 \notin T BY <1>1, <1>2
<1> QED BY <1>1, <1>2, <1>3

(* The greatest of the indices, by which the library folds a sequence.     *)
LEMMA MaxIs ==
  ASSUME NEW t, t \subseteq Nat, NEW n \in t, \A m \in t : m <= n
  PROVE Max(t) = n
<1>1. \E x \in t : \A y \in t : x >= y OBVIOUS
<1>2. Max(t) \in t /\ \A y \in t : Max(t) >= y BY <1>1 DEF Max
<1>3. Max(t) \in Nat /\ n \in Nat /\ Max(t) >= n /\ Max(t) <= n BY <1>2
<1> QED BY <1>3

LEMMA MaxUpTo ==
  ASSUME NEW n \in Nat, NEW t \in SUBSET (1 .. n), t # {}
  PROVE Max(t) \in t /\ \A m \in t : m <= Max(t)
<1> DEFINE U == {k \in 0 .. n : \A m \in t : m <= k}
<1>1. U \subseteq Nat /\ U # {} /\ 0 \notin U
  <2>1. n \in U OBVIOUS
  <2>2. PICK m \in t : m \in 1 .. n OBVIOUS
  <2> QED BY <2>1, <2>2
<1>2. PICK x \in U : \A y \in U : x <= y
  <2> HIDE DEF U
  <2> QED BY <1>1, Least
<1>3. x - 1 \in 0 .. n /\ x - 1 \notin U BY <1>1, <1>2
<1>4. PICK m \in t : ~(m <= x - 1) BY <1>3
<1>5. x \in t BY <1>2, <1>4
<1>6. \A y \in t : y <= x BY <1>2
<1>7. t \subseteq Nat /\ x \in Nat OBVIOUS
<1>8. Max(t) = x BY <1>7, <1>5, <1>6, MaxIs
<1> QED BY <1>5, <1>6, <1>8

(* F is the function by which the library defines a fold over a sequence   *)
(* of n elements, where f[v, k] is what the k-th makes of v.               *)
Folds(F, n, b, f) ==
  \A t \in SUBSET (1 .. n) :
    F[t] = IF t = {} THEN b ELSE f[<<F[t \ {Max(t)}], Max(t)>>]

(* There is one.                                                           *)
LEMMA FoldExists ==
  ASSUME NEW n \in Nat, NEW V, NEW b \in V, NEW f \in [V \X (1 .. n) -> V]
  PROVE \E F \in [SUBSET (1 .. n) -> V] : Folds(F, n, b, f)
<1> DEFINE Is(F, k) ==
       \A t \in SUBSET (1 .. k) :
         F[t] = IF t = {} THEN b ELSE f[<<F[t \ {Max(t)}], Max(t)>>]
    P == {k \in 0 .. n : \E F \in [SUBSET (1 .. k) -> V] : Is(F, k)}
<1>1. 0 \in P
  <2>1. [t \in SUBSET (1 .. 0) |-> b] \in [SUBSET (1 .. 0) -> V] OBVIOUS
  <2>2. \A t \in SUBSET (1 .. 0) : t = {} OBVIOUS
  <2>3. Is([t \in SUBSET (1 .. 0) |-> b], 0) BY <2>2
  <2>4. 0 \in 0 .. n OBVIOUS
  <2> HIDE DEF Is
  <2> QED BY <2>1, <2>3, <2>4
<1>2. \A k \in 0 .. (n - 1) : k \in P => k + 1 \in P
  <2> SUFFICES ASSUME NEW k \in 0 .. (n - 1), k \in P PROVE k + 1 \in P OBVIOUS
  <2>1. PICK F \in [SUBSET (1 .. k) -> V] : Is(F, k) OBVIOUS
  <2> DEFINE G == [t \in SUBSET (1 .. (k + 1)) |->
                     IF k + 1 \in t THEN f[<<F[t \ {k + 1}], k + 1>>] ELSE F[t]]
  <2>2. \A t \in SUBSET (1 .. (k + 1)) :
          /\ t \ {k + 1} \in SUBSET (1 .. k)
          /\ k + 1 \notin t => t \in SUBSET (1 .. k)
          /\ t \ {Max(t)} \in SUBSET (1 .. (k + 1))
    <3> TAKE t \in SUBSET (1 .. (k + 1))
    <3>1. \A j \in t : j \in 1 .. (k + 1) OBVIOUS
    <3>2. \A j \in t : j # k + 1 => j \in 1 .. k BY <3>1
    <3> QED BY <3>1, <3>2
  <2>3. G \in [SUBSET (1 .. (k + 1)) -> V]
    <3> SUFFICES ASSUME NEW t \in SUBSET (1 .. (k + 1))
                 PROVE (IF k + 1 \in t THEN f[<<F[t \ {k + 1}], k + 1>>] ELSE F[t]) \in V
      OBVIOUS
    <3>1. F[t \ {k + 1}] \in V BY <2>2
    <3>2. k + 1 \in 1 .. n OBVIOUS
    <3>3. f[<<F[t \ {k + 1}], k + 1>>] \in V BY <3>1, <3>2
    <3> QED BY <2>2, <3>3
  <2>4. ASSUME NEW t \in SUBSET (1 .. (k + 1)), t # {}
        PROVE G[t] = f[<<G[t \ {Max(t)}], Max(t)>>]
    <3>1. CASE k + 1 \in t
      <4>1. Max(t) = k + 1
        <5>1. \A m \in t : m <= k + 1 /\ m \in Nat OBVIOUS
        <5> QED BY <3>1, <5>1, MaxIs
      <4>2. G[t \ {k + 1}] = F[t \ {k + 1}] BY <2>2
      <4> QED BY <3>1, <4>1, <4>2
    <3>2. CASE k + 1 \notin t
      <4>1. t \in SUBSET (1 .. k) BY <2>2, <3>2
      <4>2. G[t] = F[t] BY <3>2
      <4>3. G[t \ {Max(t)}] = F[t \ {Max(t)}] BY <3>2, <2>2
      <4> QED BY <2>1, <2>4, <4>1, <4>2, <4>3
    <3> QED BY <3>1, <3>2
  <2>5. G[{}] = b
    <3>1. G[{}] = F[{}] OBVIOUS
    <3> QED BY <2>1, <3>1
  <2> HIDE DEF G
  <2>6. Is(G, k + 1) BY <2>4, <2>5
  <2>7. k + 1 \in 0 .. n OBVIOUS
  <2> HIDE DEF Is
  <2> QED BY <2>3, <2>6, <2>7
<1>3. n \in P
  <2> HIDE DEF P
  <2> QED BY <1>1, <1>2, Ind
<1> QED BY <1>3 DEF Folds

(* G is such a function as long as its values stay in V.                   *)
FoldsIn(G, n, V, b, f) ==
  /\ G[{}] = b
  /\ \A t \in SUBSET (1 .. n) :
       t # {} /\ G[t \ {Max(t)}] \in V => G[t] = f[<<G[t \ {Max(t)}], Max(t)>>]

(* The partial results a[0] .. a[n] of that fold.                          *)
StepsOf(a, G, n, V, b, f) ==
  /\ a \in [0 .. n -> V]
  /\ a[0] = b
  /\ \A k \in 1 .. n : a[k] = f[<<a[k - 1], k>>]
  /\ a[n] = G[1 .. n]

LEMMA FoldSteps ==
  ASSUME NEW n \in Nat, NEW V, NEW b \in V, NEW f \in [V \X (1 .. n) -> V], NEW G,
         FoldsIn(G, n, V, b, f)
  PROVE \E a : StepsOf(a, G, n, V, b, f)
<1>1. ASSUME NEW k \in 1 .. n
      PROVE (1 .. k) \ {Max(1 .. k)} = 1 .. (k - 1) /\ Max(1 .. k) = k
  <2>1. 1 .. k \subseteq Nat /\ k \in 1 .. k /\ \A m \in 1 .. k : m <= k OBVIOUS
  <2>2. Max(1 .. k) = k BY <2>1, MaxIs
  <2> QED BY <2>2
<1>2. ASSUME NEW k \in 1 .. n, G[1 .. (k - 1)] \in V
      PROVE G[1 .. k] = f[<<G[1 .. (k - 1)], k>>]
  <2>1. 1 .. k \in SUBSET (1 .. n) /\ 1 .. k # {} OBVIOUS
  <2> QED BY <1>1, <1>2, <2>1 DEF FoldsIn
<1>3. 1 .. 0 = {} OBVIOUS
<1> DEFINE P == {k \in 0 .. n : G[1 .. k] \in V}
<1>4. \A k \in 0 .. n : k \in P
  <2>1. 0 \in P BY <1>3 DEF FoldsIn
  <2>2. ASSUME NEW k \in 0 .. (n - 1), k \in P PROVE k + 1 \in P
    <3>1. k + 1 \in 1 .. n /\ (k + 1) - 1 = k OBVIOUS
    <3>2. G[1 .. (k + 1)] = f[<<G[1 .. k], k + 1>>] BY <1>2, <2>2, <3>1
    <3> QED BY <2>2, <3>1, <3>2
  <2> HIDE DEF P
  <2> QED BY <2>1, <2>2, Ind
<1> QED
  <2>1. ASSUME NEW k \in 1 .. n PROVE G[1 .. k] = f[<<G[1 .. (k - 1)], k>>]
    <3>1. k - 1 \in 0 .. n OBVIOUS
    <3> QED BY <1>2, <1>4, <3>1
  <2>2. 0 \in 0 .. n /\ \A k \in 1 .. n : k \in 0 .. n /\ k - 1 \in 0 .. n OBVIOUS
  <2> DEFINE a == [k \in 0 .. n |-> G[1 .. k]]
  <2>3. StepsOf(a, G, n, V, b, f) BY <1>3, <1>4, <2>1, <2>2 DEF StepsOf, FoldsIn
  <2> HIDE DEF a
  <2> QED BY <2>3

(* What a path may lead to.                                                *)
Place == Inode \cup {Null}

(* A name that is found leads to an inode, and only directories have any.  *)
LEMMA LookupPlace ==
  ASSUME TypeOK, NEW d \in Inode, NEW n
  PROVE  Lookup(d, n) \in Place
<1> DEFINE found == First({p \in Position :
                        /\ blocks[d][p[1]] # Null
                        /\ Matches(ent[blocks[d][p[1]]][p[2]], n)})
<1>1. CASE found = {}
  BY <1>1 DEF Lookup, Place
<1>2. CASE found # {}
  <2> DEFINE q == CHOOSE p \in found : TRUE
  <2>1. q \in found
    BY <1>2
  <2>2. Lookup(d, n) = ent[blocks[d][q[1]]][q[2]].inode
    BY <1>2 DEF Lookup
  <2>3. q \in Position /\ blocks[d][q[1]] # Null
    BY <2>1 DEF First
  <2> HIDE DEF q
  <2>4. q[1] \in Link /\ q[2] \in Slot
    BY <2>3 DEF Position
  <2>5. blocks[d][q[1]] \in Block
    BY <2>3, <2>4 DEF TypeOK
  <2>6. ent[blocks[d][q[1]]][q[2]] \in Entry
    BY <2>4, <2>5 DEF TypeOK
  <2>7. QED
    BY <2>2, <2>6 DEF Entry, Place
<1>3. QED
  BY <1>1, <1>2

LEMMA EnterType ==
  ASSUME TypeOK
  PROVE  \A d \in Place, n \in Name : Enter(d, n) \in Place
BY LookupPlace DEF Enter, Place

LEMMA DescendType ==
  ASSUME TypeOK
  PROVE  \A d \in Place, n \in Name : Tree!Descend(d, n) \in Place
<1> SUFFICES ASSUME NEW d \in Place, NEW n \in Name PROVE Tree!Descend(d, n) \in Place
  OBVIOUS
<1>1. d # Null => Child[d][n] = Lookup(d, n)
  BY DEF Child, Place
<1>2. d # Null => Lookup(d, n) \in Place
  BY LookupPlace DEF Place
<1>3. QED
  BY <1>1, <1>2 DEF Tree!Descend, Place

LEMMA EnterSteps ==
  ASSUME TypeOK, NEW x0 \in Place, NEW s \in Seq(Name)
  PROVE \E a \in [0 .. Len(s) -> Place] :
          /\ a[0] = x0
          /\ \A k \in 1 .. Len(s) : a[k] = Enter(a[k - 1], s[k])
          /\ FoldLeft(Enter, x0, s) = a[Len(s)]
<1> DEFINE n == Len(s)
           b == x0
           f == [x \in Place \X (1 .. n) |-> Enter(x[1], s[x[2]])]
           Is(F) == F = [t \in SUBSET DOMAIN s |->
                          IF t = {} THEN b ELSE Enter(F[t \ {Max(t)}], s[Max(t)])]
           G == CHOOSE F : Is(F)
<1>1. n \in Nat /\ DOMAIN s = 1 .. n /\ \A k \in 1 .. n : s[k] \in Name OBVIOUS
<1>2. b \in Place OBVIOUS
<1>3. f \in [Place \X (1 .. n) -> Place] BY EnterType, <1>1
<1>4. \A v \in Place, k \in 1 .. n : f[<<v, k>>] = Enter(v, s[k]) OBVIOUS
<1>5. \A t \in SUBSET (1 .. n) : t # {} => Max(t) \in 1 .. n /\ t \ {Max(t)} \in SUBSET (1 .. n)
  BY <1>1, MaxUpTo
<1>6. FoldLeft(Enter, x0, s) = G[1 .. n] BY <1>1 DEF FoldLeft, MapThenFoldSet
<1> HIDE DEF n, b, f
<1>7. PICK F \in [SUBSET (1 .. n) -> Place] : Folds(F, n, b, f)
  BY <1>1, <1>2, <1>3, FoldExists
<1>8. Is(F) BY <1>1, <1>4, <1>5, <1>7 DEF Folds
<1>9. Is(G) BY <1>8
<1> HIDE DEF G
<1>10. FoldsIn(G, n, Place, b, f) BY <1>1, <1>4, <1>5, <1>9 DEF FoldsIn
<1>11. PICK a : StepsOf(a, G, n, Place, b, f)
  BY <1>1, <1>2, <1>3, <1>10, FoldSteps
<1>12. \A k \in 1 .. n : a[k] = Enter(a[k - 1], s[k])
  <2> TAKE k \in 1 .. n
  <2>1. k - 1 \in 0 .. n BY <1>1
  <2> QED BY <2>1, <1>4, <1>11 DEF StepsOf
<1> QED BY <1>6, <1>11, <1>12 DEF StepsOf, n, b

LEMMA DescendSteps ==
  ASSUME TypeOK, NEW x0 \in Place, NEW s \in Seq(Name)
  PROVE \E a \in [0 .. Len(s) -> Place] :
          /\ a[0] = x0
          /\ \A k \in 1 .. Len(s) : a[k] = Tree!Descend(a[k - 1], s[k])
          /\ Tree!FoldLeft(Tree!Descend, x0, s) = a[Len(s)]
<1> DEFINE n == Len(s)
           b == x0
           f == [x \in Place \X (1 .. n) |-> Tree!Descend(x[1], s[x[2]])]
           Is(F) == F = [t \in SUBSET DOMAIN s |->
                          IF t = {} THEN b ELSE Tree!Descend(F[t \ {Tree!Max(t)}], s[Tree!Max(t)])]
           G == CHOOSE F : Is(F)
<1>0. \A t : Tree!Max(t) = Max(t) BY DEF Tree!Max, Max
<1>1. n \in Nat /\ DOMAIN s = 1 .. n /\ \A k \in 1 .. n : s[k] \in Name OBVIOUS
<1>2. b \in Place OBVIOUS
<1>3. f \in [Place \X (1 .. n) -> Place] BY DescendType, <1>1
<1>4. \A v \in Place, k \in 1 .. n : f[<<v, k>>] = Tree!Descend(v, s[k]) OBVIOUS
<1>5. \A t \in SUBSET (1 .. n) : t # {} => Max(t) \in 1 .. n /\ t \ {Max(t)} \in SUBSET (1 .. n)
  BY <1>1, MaxUpTo
<1>6. Tree!FoldLeft(Tree!Descend, x0, s) = G[1 .. n] BY <1>1 DEF Tree!FoldLeft, Tree!MapThenFoldSet
<1> HIDE DEF n, b, f
<1>7. PICK F \in [SUBSET (1 .. n) -> Place] : Folds(F, n, b, f)
  BY <1>1, <1>2, <1>3, FoldExists
<1>8. Is(F) BY <1>0, <1>1, <1>4, <1>5, <1>7 DEF Folds
<1>9. Is(G) BY <1>8
<1> HIDE DEF G
<1>10. FoldsIn(G, n, Place, b, f) BY <1>0, <1>1, <1>4, <1>5, <1>9 DEF FoldsIn
<1>11. PICK a : StepsOf(a, G, n, Place, b, f)
  BY <1>1, <1>2, <1>3, <1>10, FoldSteps
<1>12. \A k \in 1 .. n : a[k] = Tree!Descend(a[k - 1], s[k])
  <2> TAKE k \in 1 .. n
  <2>1. k - 1 \in 0 .. n BY <1>1
  <2> QED BY <2>1, <1>4, <1>11 DEF StepsOf
<1> QED BY <1>6, <1>11, <1>12 DEF StepsOf, n, b

(* fs_get_inode_dir follows the names of directories of two characters and *)
(* more: the paths lead through no others.                                 *)
LongNames == \A p \in Path : \A k \in 1 .. Len(p.via) : Followed(p.via[k])

LEMMA FileLeadsNowhere ==
  ASSUME IInv, NEW d \in Inode, mode[d] # "dir", NEW n
  PROVE  Lookup(d, n) = Null
<1>1. \A k \in Link : blocks[d][k] = Null
  BY DEF IInv, Created
<1>2. {p \in Position : /\ blocks[d][p[1]] # Null
                         /\ Matches(ent[blocks[d][p[1]]][p[2]], n)} = {}
  BY <1>1 DEF Position
<1>3. QED
  BY <1>2 DEF Lookup, First

(* A step of fs_get_inode_dir, x, beside one of the tree's, y: the former  *)
(* stops at a file that the path leads through, the latter behind it.      *)
Beside(x, y) == x = IF y # Null /\ mode[y] = "dir" THEN y ELSE Null

LEMMA OneStep ==
  ASSUME IInv, NEW x \in Place, NEW y \in Place, NEW n \in Name, Followed(n),
         Beside(x, y) \/ (x = y /\ x # Null)
  PROVE  Beside(Enter(x, n), Tree!Descend(y, n))
<1>1. CASE x = Null
  <2>1. Enter(x, n) = Null
    BY <1>1 DEF Enter
  <2>2. Tree!Descend(y, n) = Null
    BY <1>1 DEF Beside, Tree!Descend
  <2>3. QED
    BY <2>1, <2>2 DEF Beside
<1>2. CASE x # Null
  <2>1. x = y /\ x \in Inode
    BY <1>2 DEF Beside, Place
  <2>2. Lookup(x, n) \in Place
    BY <2>1, LookupPlace DEF IInv
  <2>3. Enter(x, n) = IF Lookup(x, n) # Null /\ mode[Lookup(x, n)] = "dir"
                      THEN Lookup(x, n) ELSE Null
    BY <1>2 DEF Enter
  <2>4. Tree!Descend(y, n) = Lookup(x, n)
    <3>1. Child[x][n] = Lookup(x, n)
      BY <2>1 DEF Child
    <3>2. mode[x] # "dir" => Lookup(x, n) = Null
      BY <2>1, FileLeadsNowhere
    <3>3. QED
      BY <1>2, <2>1, <3>1, <3>2 DEF Tree!Descend
  <2>5. QED
    BY <2>3, <2>4 DEF Beside
<1>3. QED
  BY <1>1, <1>2

(* Where touch, mkdir and cd get by a path, the tree's path gets, too.     *)
LEMMA WalkResolves ==
  ASSUME IInv, LongNames, NEW p \in Path
  PROVE  Walk(p) \in Place /\ (Walk(p) # Null => Tree!Resolve(p) = Walk(p))
<1> DEFINE s == p.via
           x0 == IF p.abs THEN root ELSE cwd
<1>1. /\ s \in Seq(Name) /\ x0 \in Inode /\ x0 \in Place /\ x0 # Null
      /\ \A k \in 1 .. Len(s) : Followed(s[k])
  BY FilesAssumption DEF IInv, TypeOK, Place, Inode, Null, LongNames
<1>2. Walk(p) = FoldLeft(Enter, x0, s)
  BY DEF Walk
<1>3. Tree!Resolve(p) = LET end == Tree!FoldLeft(Tree!Descend, x0, s)
                        IN IF s = <<>> \/ (end # Null /\ mode[end] = "dir")
                           THEN end ELSE Null
  BY DEF Tree!Resolve
<1> HIDE DEF s, x0
<1>4. PICK a \in [0 .. Len(s) -> Place] :
        /\ a[0] = x0
        /\ \A k \in 1 .. Len(s) : a[k] = Enter(a[k - 1], s[k])
        /\ FoldLeft(Enter, x0, s) = a[Len(s)]
  BY <1>1, EnterSteps DEF IInv
<1>5. PICK c \in [0 .. Len(s) -> Place] :
        /\ c[0] = x0
        /\ \A k \in 1 .. Len(s) : c[k] = Tree!Descend(c[k - 1], s[k])
        /\ Tree!FoldLeft(Tree!Descend, x0, s) = c[Len(s)]
  BY <1>1, DescendSteps DEF IInv
<1> DEFINE P == {k \in 0 .. Len(s) : Beside(a[k], c[k]) \/ (a[k] = c[k] /\ k = 0)}
<1>6. 0 \in P
  BY <1>1, <1>4, <1>5
<1>7. ASSUME NEW k \in 0 .. (Len(s) - 1), k \in P PROVE k + 1 \in P
  <2>1. k + 1 \in 1 .. Len(s) /\ (k + 1) - 1 = k /\ k \in 0 .. Len(s)
        /\ k + 1 \in 0 .. Len(s)
    BY <1>1
  <2>2. a[k + 1] = Enter(a[k], s[k + 1]) /\ c[k + 1] = Tree!Descend(c[k], s[k + 1])
    BY <1>4, <1>5, <2>1
  <2>3. s[k + 1] \in Name /\ Followed(s[k + 1]) /\ a[k] \in Place /\ c[k] \in Place
    BY <1>1, <2>1
  <2>4. Beside(a[k], c[k]) \/ (a[k] = c[k] /\ a[k] # Null)
    BY <1>1, <1>4, <1>7
  <2>5. Beside(a[k + 1], c[k + 1])
    BY <2>2, <2>3, <2>4, OneStep
  <2>6. QED
    BY <2>1, <2>5
<1>8. Len(s) \in 0 .. Len(s) /\ Len(s) \in Nat
  BY <1>1
<1>9. Beside(a[Len(s)], c[Len(s)]) \/ (a[Len(s)] = c[Len(s)] /\ Len(s) = 0)
  <2>1. Len(s) \in P
    <3> HIDE DEF P
    <3>1. QED
      BY <1>6, <1>7, <1>8, Ind
  <2>2. QED
    BY <2>1
<1>10. Len(s) = 0 => s = <<>>
  BY <1>1
<1>11. s = <<>> => a[Len(s)] = c[Len(s)]
  <2>1. s = <<>> => Len(s) = 0
    BY <1>1
  <2>2. QED
    BY <2>1, <1>4, <1>5
<1>12. a[Len(s)] \in Place
  BY <1>8
<1>13. QED
  BY <1>2, <1>3, <1>4, <1>5, <1>9, <1>10, <1>11, <1>12 DEF Beside

(* With paths through names of two characters and more, touch and mkdir    *)
(* say "path doesnt exist!" and change nothing unless the path does exist. *)
THEOREM NothingWithoutPath ==
  ASSUME LongNames
  PROVE  Spec => NoPathNoChange
<1>1. IInv /\ [Next]_vars =>
        [\A p \in Path : (Touch(p) \/ Mkdir(p)) => Tree!Resolve(p) # Null]_vars
  <2> SUFFICES ASSUME IInv, NEW p \in Path, Touch(p) \/ Mkdir(p)
               PROVE  Tree!Resolve(p) # Null
    OBVIOUS
  <2>1. Walk(p) \in Inode
    BY DEF Touch, Mkdir, Create
  <2>2. Walk(p) # Null
    BY <2>1 DEF Inode, Null
  <2>3. QED
    BY <2>2, WalkResolves
<1>2. QED
  BY <1>1, FilesInvariance, PTL DEF Spec, NoPathNoChange
-----------------------------------------------------------------------------
(* That the file system is a tree of names.  It is as long as no entry     *)
(* lies in a block's last slot, which runs over into the next block.       *)
LastFree ==
  \A d \in Inode : \A k \in Link :
    blocks[d][k] # Null => ent[blocks[d][k]][SLOTS] = Free

At(d, p) == ent[blocks[d][p[1]]][p[2]]
Holds(d, p) == blocks[d][p[1]] # Null /\ At(d, p) # Free

(* Entries have names, no two of a directory the same, and fill it from    *)
(* its first slot on.                                                      *)
Named ==
  \A b \in Block : \A s \in Slot : ent[b][s] # Free =>
    ent[b][s].name \in Name /\ ent[b][s].len = NameLen[ent[b][s].name]

Distinct ==
  \A d \in Inode : \A p, q \in Position :
    Holds(d, p) /\ Holds(d, q) /\ At(d, p).name = At(d, q).name => p = q

Packed ==
  \A d \in Inode : \A p, q \in Position :
    Holds(d, p) /\ Before(q, p) =>
      Holds(d, q) \/ (blocks[d][q[1]] # Null /\ q[2] = SLOTS)

TreeInv == IInv /\ Named /\ Distinct /\ Packed

(* What fs_get_inode_by_filename finds in such a directory.                *)
LookupFacts ==
  IInv /\ Named /\ Distinct =>
    \A d \in Inode :
      /\ \A n \in Name : \A p \in Position :
           Holds(d, p) /\ At(d, p).name = n => Lookup(d, n) = At(d, p).inode
      /\ \A n \in Name :
           (\A p \in Position : ~(Holds(d, p) /\ At(d, p).name = n)) =>
             Lookup(d, n) = Null
      /\ Lookup(d, NoName) = Null

LEMMA EntryOf ==
  ASSUME IInv, NEW d \in Inode, NEW p \in Position, blocks[d][p[1]] # Null
  PROVE  /\ p[1] \in Link /\ p[2] \in Slot
         /\ blocks[d][p[1]] \in Block /\ At(d, p) \in Entry
<1>1. p[1] \in Link /\ p[2] \in Slot
  BY DEF Position
<1>2. blocks[d][p[1]] \in Block
  BY <1>1 DEF IInv, TypeOK
<1>3. At(d, p) \in Entry
  BY <1>1, <1>2 DEF IInv, TypeOK, At
<1>4. QED
  BY <1>1, <1>2, <1>3

LEMMA LookupHere == LookupFacts
<1> SUFFICES ASSUME IInv, Named, Distinct, NEW d \in Inode
             PROVE  /\ \A n \in Name : \A p \in Position :
                         Holds(d, p) /\ At(d, p).name = n => Lookup(d, n) = At(d, p).inode
                    /\ \A n \in Name :
                         (\A p \in Position : ~(Holds(d, p) /\ At(d, p).name = n)) =>
                           Lookup(d, n) = Null
                    /\ Lookup(d, NoName) = Null
  BY DEF LookupFacts
<1> DEFINE S(n) == {p \in Position : /\ blocks[d][p[1]] # Null
                                     /\ Matches(ent[blocks[d][p[1]]][p[2]], n)}
<1>1. NoName \notin Name
  BY FilesAssumption
<1>2. ASSUME NEW n \in Name, NEW p \in S(n)
      PROVE  p \in Position /\ Holds(d, p) /\ At(d, p).name = n
  BY <1>1 DEF Holds, At, Matches, Free
<1>3. ASSUME NEW n \in Name, NEW p \in Position, Holds(d, p), At(d, p).name = n
      PROVE  Lookup(d, n) = At(d, p).inode
  <2>1. At(d, p).len = NameLen[n]
    BY <1>3, EntryOf DEF Named, Holds, At
  <2>2. p \in S(n)
    BY <1>1, <1>3, <2>1 DEF Holds, At, Matches, LenOf
  <2>3. \A q \in S(n) : q = p
    BY <1>2, <1>3 DEF Distinct
  <2> HIDE DEF S
  <2>4. p[1] \in Int /\ p[2] \in Int
    BY FilesAssumption DEF Position, Link, Slot
  <2>5. First(S(n)) = {p}
    BY <2>2, <2>3, <2>4 DEF First, Before
  <2>6. QED
    BY <2>5 DEF Lookup, At, S
<1>4. ASSUME NEW n \in Name,
             \A p \in Position : ~(Holds(d, p) /\ At(d, p).name = n)
      PROVE  Lookup(d, n) = Null
  <2>1. S(n) = {}
    BY <1>2, <1>4
  <2>2. QED
    BY <2>1 DEF Lookup, First
<1>5. Lookup(d, NoName) = Null
  <2>1. CASE First(S(NoName)) = {}
    BY <2>1 DEF Lookup
  <2>2. CASE First(S(NoName)) # {}
    <3> DEFINE q == CHOOSE p \in First(S(NoName)) : TRUE
    <3>1. q \in S(NoName)
      BY <2>2 DEF First
    <3>2. Lookup(d, NoName) = At(d, q).inode
      BY <2>2 DEF Lookup, At
    <3>3. q \in Position /\ blocks[d][q[1]] # Null /\ At(d, q).name = NoName
      BY <3>1 DEF At, Matches
    <3> HIDE DEF q
    <3>4. At(d, q) = Free
      BY <1>1, <3>3, EntryOf DEF Named, At
    <3>5. QED
      BY <3>2, <3>4 DEF Free
  <2>3. QED
    BY <2>1, <2>2
<1>6. QED
  BY <1>3, <1>4, <1>5

LEMMA LookupThere == LookupFacts'
BY LookupHere, PTL

(* Nothing but one entry in directory d, at p, is added: its name is new   *)
(* there.                                                                  *)
Same(x, q) == (Holds(x, q)' <=> Holds(x, q)) /\ (Holds(x, q) => At(x, q)' = At(x, q))

Added(d, p, n, i) ==
  /\ \A x \in Inode : \A q \in Position : ~(x = d /\ q = p) => Same(x, q)
  /\ ~Holds(d, p)
  /\ Holds(d, p)' /\ At(d, p)'.name = n /\ At(d, p)'.inode = i
  /\ \A q \in Position : ~(Holds(d, q) /\ At(d, q).name = n)

LEMMA ChildIs ==
  ASSUME NEW x \in Inode, NEW m \in Name
  PROVE  Child[x][m] = Lookup(x, m) /\ (Child[x][m])' = Lookup(x, m)'
BY DEF Child

LEMMA SameTree ==
  ASSUME IInv, Named, Distinct, IInv', Named',
         \A x \in Inode : \A q \in Position : Same(x, q)
  PROVE  Distinct' /\ Child' = Child
<1>1. Distinct'
  BY DEF Same, Distinct
<1>2. ASSUME NEW x \in Inode, NEW m \in Name
      PROVE  Lookup(x, m)' = Lookup(x, m)
  <2>1. CASE \E q \in Position : Holds(x, q) /\ At(x, q).name = m
    <3>1. PICK q \in Position : Holds(x, q) /\ At(x, q).name = m
      BY <2>1
    <3>2. Lookup(x, m) = At(x, q).inode
      BY <3>1, LookupHere DEF LookupFacts
    <3>3. Holds(x, q)' /\ At(x, q)' = At(x, q)
      BY <3>1 DEF Same
    <3>4. Lookup(x, m)' = At(x, q)'.inode
      BY <1>1, <3>1, <3>3, LookupThere DEF LookupFacts
    <3>5. QED
      BY <3>2, <3>3, <3>4
  <2>2. CASE ~\E q \in Position : Holds(x, q) /\ At(x, q).name = m
    <3>1. Lookup(x, m) = Null
      BY <2>2, LookupHere DEF LookupFacts
    <3>2. \A q \in Position : ~(Holds(x, q)' /\ At(x, q)'.name = m)
      BY <2>2 DEF Same
    <3>3. Lookup(x, m)' = Null
      BY <1>1, <3>2, LookupThere DEF LookupFacts
    <3>4. QED
      BY <3>1, <3>3
  <2>3. QED
    BY <2>1, <2>2
<1>3. QED
  BY <1>1, <1>2 DEF Child

LEMMA AddedTree ==
  ASSUME IInv, Named, Distinct, IInv', Named', NEW d \in Inode, NEW p \in Position,
         NEW n \in Name, NEW i \in Place, Added(d, p, n, i)
  PROVE  /\ Distinct'
         /\ Child[d][n] = Null
         /\ Child' = [Child EXCEPT ![d][n] = i]
<1>1. Distinct'
  <2> SUFFICES ASSUME NEW x \in Inode, NEW q \in Position, NEW r \in Position,
                      Holds(x, q)', Holds(x, r)', At(x, q)'.name = At(x, r)'.name
               PROVE  q = r
    BY DEF Distinct
  <2>1. CASE x # d \/ (q # p /\ r # p)
    BY <2>1 DEF Distinct, Added, Same
  <2>2. CASE x = d /\ q = p /\ r # p
    <3>1. Holds(d, r) /\ At(d, r).name = n
      BY <2>2 DEF Added, Same
    <3>2. QED
      BY <3>1 DEF Added
  <2>3. CASE x = d /\ q # p /\ r = p
    <3>1. Holds(d, q) /\ At(d, q).name = n
      BY <2>3 DEF Added, Same
    <3>2. QED
      BY <3>1 DEF Added
  <2>4. QED
    BY <2>1, <2>2, <2>3
<1>2. Lookup(d, n) = Null
  BY LookupHere DEF Added, LookupFacts
<1>3. Lookup(d, n)' = i
  BY <1>1, LookupThere DEF Added, LookupFacts
<1>4. ASSUME NEW x \in Inode, NEW m \in Name, x # d \/ m # n
      PROVE  Lookup(x, m)' = Lookup(x, m)
  <2>1. CASE \E q \in Position : Holds(x, q) /\ At(x, q).name = m
    <3>1. PICK q \in Position : Holds(x, q) /\ At(x, q).name = m
      BY <2>1
    <3>2. Lookup(x, m) = At(x, q).inode
      BY <3>1, LookupHere DEF LookupFacts
    <3>3. Holds(x, q)' /\ At(x, q)' = At(x, q)
      <4>1. Same(x, q)
        <5>1. ~(x = d /\ q = p)
          BY <3>1 DEF Added
        <5>2. QED
          BY <5>1 DEF Added
      <4>2. QED
        BY <3>1, <4>1 DEF Same
    <3>4. Lookup(x, m)' = At(x, q)'.inode
      BY <1>1, <3>1, <3>3, LookupThere DEF LookupFacts
    <3>5. QED
      BY <3>2, <3>3, <3>4
  <2>2. CASE ~\E q \in Position : Holds(x, q) /\ At(x, q).name = m
    <3>1. Lookup(x, m) = Null
      BY <2>2, LookupHere DEF LookupFacts
    <3>2. ASSUME NEW q \in Position PROVE ~(Holds(x, q)' /\ At(x, q)'.name = m)
      <4>1. CASE x = d /\ q = p
        BY <1>4, <4>1 DEF Added
      <4>2. CASE ~(x = d /\ q = p)
        BY <2>2, <4>2 DEF Added, Same
      <4>3. QED
        BY <4>1, <4>2
    <3>3. Lookup(x, m)' = Null
      BY <1>1, <3>2, LookupThere DEF LookupFacts
    <3>4. QED
      BY <3>1, <3>3
  <2>3. QED
    BY <2>1, <2>2
<1>5. Child \in [Inode -> [Name -> Place]] /\ Child' \in [Inode -> [Name -> Place]]
  <2>1. Child \in [Inode -> [Name -> Place]]
    BY LookupPlace DEF Child, IInv
  <2>2. ASSUME NEW x \in Inode, NEW m \in Name PROVE Lookup(x, m)' \in Place
    BY <1>2, <1>3, <1>4, LookupPlace DEF IInv
  <2>3. Child' \in [Inode -> [Name -> Place]]
    BY <2>2 DEF Child
  <2>4. QED
    BY <2>1, <2>3
<1>6. \A x \in Inode, m \in Name :
        Child'[x][m] = IF x = d /\ m = n THEN i ELSE Child[x][m]
  BY <1>3, <1>4 DEF Child
<1>7. Child' = [Child EXCEPT ![d][n] = i]
  <2> DEFINE e == [Child EXCEPT ![d][n] = i]
  <2>1. e \in [Inode -> [Name -> Place]]
    BY <1>5
  <2>2. \A x \in Inode, m \in Name : e[x][m] = IF x = d /\ m = n THEN i ELSE Child[x][m]
    BY <1>5
  <2> HIDE DEF e
  <2>3. \A x \in Inode : Child'[x] = e[x]
    <3> TAKE x \in Inode
    <3>1. Child'[x] \in [Name -> Place] /\ e[x] \in [Name -> Place]
      BY <1>5, <2>1
    <3>2. \A m \in Name : Child'[x][m] = e[x][m]
      BY <1>6, <2>2
    <3>3. QED
      BY <3>1, <3>2
  <2>4. Child' = e
    BY <1>5, <2>1, <2>3
  <2>5. QED
    BY <2>4 DEF e
<1>8. QED
  BY <1>1, <1>2, <1>7 DEF Child

(* The order of positions.                                                 *)
LEMMA PositionOrder ==
  ASSUME NEW p \in Position, NEW q \in Position
  PROVE  /\ p[1] \in Link /\ p[2] \in Slot /\ p = <<p[1], p[2]>>
         /\ Before(p, q) \/ p = q \/ Before(q, p)
         /\ ~(Before(p, q) /\ Before(q, p)) /\ ~Before(p, p)
<1>1. /\ p[1] \in Link /\ p[2] \in Slot /\ p = <<p[1], p[2]>>
      /\ q[1] \in Link /\ q[2] \in Slot /\ q = <<q[1], q[2]>>
  BY DEF Position
<1>2. /\ p[1] \in Nat /\ p[2] \in Nat /\ q[1] \in Nat /\ q[2] \in Nat
  BY <1>1, FilesAssumption DEF Link, Slot
<1>3. Before(p, q) \/ p = q \/ Before(q, p)
  BY <1>1, <1>2 DEF Before
<1>4. ~(Before(p, q) /\ Before(q, p)) /\ ~Before(p, p)
  BY <1>2 DEF Before
<1>5. QED
  BY <1>1, <1>3, <1>4

(* The place that fs_dir_add_entry finds lies behind all entries.          *)
LEMMA PlaceIsLast ==
  ASSUME TreeInv, LastFree, NEW d \in Inode, NEW n \in Name,
         NEW p \in First(Stops(d, n)), ~Holds(d, p),
         blocks[d][p[1]] # Null => p[2] # SLOTS
  PROVE  /\ p \in Position
         /\ \A q \in Position : Holds(d, q) => Before(q, p) /\ At(d, q).name # n
         /\ \A q \in Position : Before(q, p) =>
              Holds(d, q) \/ (blocks[d][q[1]] # Null /\ q[2] = SLOTS)
<1>1. p \in Position /\ \A q \in Position : Before(q, p) => q \notin Stops(d, n)
  BY PositionOrder DEF First, Stops
<1>2. ASSUME NEW q \in Position, Before(q, p)
      PROVE  /\ Holds(d, q) \/ (blocks[d][q[1]] # Null /\ q[2] = SLOTS)
             /\ Holds(d, q) => At(d, q).name # n
  <2>1. /\ blocks[d][q[1]] # Null /\ Taken(blocks[d][q[1]], q[2])
        /\ ~Matches(At(d, q), n)
    BY <1>1, <1>2 DEF Stops, At
  <2>2. Holds(d, q) => At(d, q).name # n
    <3>1. SUFFICES ASSUME Holds(d, q), At(d, q).name = n PROVE FALSE
      OBVIOUS
    <3>2. At(d, q).len = NameLen[n]
      BY <3>1, EntryOf DEF TreeInv, Named, Holds, At
    <3>3. n # NoName
      BY FilesAssumption
    <3>4. QED
      BY <2>1, <3>1, <3>2, <3>3 DEF Matches, LenOf
  <2>3. QED
    BY <2>1, <2>2 DEF Taken, Holds, At
<1>3. ASSUME NEW q \in Position, Holds(d, q) PROVE Before(q, p)
  <2>1. q # p
    BY <1>3
  <2>2. ~Before(p, q)
    <3>1. SUFFICES ASSUME Before(p, q) PROVE FALSE
      OBVIOUS
    <3>2. Holds(d, p) \/ (blocks[d][p[1]] # Null /\ p[2] = SLOTS)
      BY <1>1, <1>3, <3>1 DEF TreeInv, Packed
    <3>3. QED
      BY <3>2
  <2>3. QED
    BY <1>1, <2>1, <2>2, PositionOrder
<1>4. QED
  BY <1>1, <1>2, <1>3

LEMMA AddedPacked ==
  ASSUME TreeInv, NEW d \in Inode, NEW p \in Position, NEW n \in Name, NEW i \in Place,
         Added(d, p, n, i),
         \A x \in Inode, k \in Link : blocks[x][k] # Null => blocks'[x][k] # Null,
         \A q \in Position : Holds(d, q) => Before(q, p),
         \A q \in Position : Before(q, p) =>
           Holds(d, q) \/ (blocks[d][q[1]] # Null /\ q[2] = SLOTS)
  PROVE  Packed'
<1> SUFFICES ASSUME NEW x \in Inode, NEW r \in Position, NEW q \in Position,
                    Holds(x, r)', Before(q, r)
             PROVE  Holds(x, q)' \/ (blocks'[x][q[1]] # Null /\ q[2] = SLOTS)
  BY DEF Packed
<1>1. Before(q, r) => (Before(q, p) \/ r # p)
  OBVIOUS
<1>2. CASE x = d /\ r = p
  <2>1. Holds(d, q) \/ (blocks[d][q[1]] # Null /\ q[2] = SLOTS)
    BY <1>2
  <2>2. q # p
    BY <1>2, PositionOrder
  <2>3. QED
    BY <1>2, <2>1, <2>2, PositionOrder DEF Added, Same
<1>3. CASE ~(x = d /\ r = p)
  <2>1. Holds(x, r)
    BY <1>3 DEF Added, Same
  <2>2. Holds(x, q) \/ (blocks[x][q[1]] # Null /\ q[2] = SLOTS)
    BY <2>1 DEF TreeInv, Packed
  <2>3. QED
    BY <2>2, PositionOrder DEF Added, Same
<1>4. QED
  BY <1>2, <1>3

(* Directory d has got name n for a new inode, of kind k, or for none.     *)
Grows(d, n, k) ==
  /\ n \in Name /\ Child[d][n] = Null
  /\ \E i \in Place :
       /\ Child' = [Child EXCEPT ![d][n] = i]
       /\ i = Null => mode' = mode
       /\ i # Null => mode[i] = "none" /\ mode' = [mode EXCEPT ![i] = k]

(* The inode that fs_create_inode returns had no blocks.                   *)
LEMMA NewInodeBlocks ==
  ASSUME IInv, NEW i \in NewInode
  PROVE  /\ i \in Place
         /\ i # Null => /\ i \in Inode /\ mode[i] = "none"
                        /\ \A l \in Link : blocks[i][l] = Null
<1>1. i \in Place /\ (i # Null => i \in Inode /\ i \notin inodeBits)
  BY NewInodeFacts DEF IInv, Place
<1>2. i # Null => mode[i] = "none"
  BY <1>1 DEF IInv, TypeOK, Created
<1>3. QED
  BY <1>1, <1>2 DEF IInv, Created

LEMMA TakeTree ==
  ASSUME TreeInv, IInv', LastFree, LastFree', NEW d \in Inode,
         NEW n \in Name \cup {NoName}, NEW k \in {"file", "dir"},
         NEW p \in First(Stops(d, n)), blocks[d][p[1]] # Null,
         ~Matches(ent[blocks[d][p[1]]][p[2]], n),
         TakeEntry(blocks[d][p[1]], p[2], n, k)
  PROVE  Named' /\ Distinct' /\ Packed' /\ Grows(d, n, k)
<1> DEFINE b == blocks[d][p[1]]
           s == p[2]
<1>1. IInv /\ Named /\ Distinct /\ Packed /\ TypeOK /\ OneOwner
  BY DEF TreeInv, IInv
<1>2. p \in Position /\ p[1] \in Link /\ s \in Slot /\ b \in Block /\ p = <<p[1], s>>
  <2>1. p \in Position
    BY DEF First, Stops
  <2>2. QED
    BY <1>1, <2>1, EntryOf, PositionOrder
<1>3. ~Taken(b, s) /\ ~Matches(ent[b][s], n)
  BY DEF First, Stops
<1>4. PICK i \in NewInode :
        /\ ent' = [ent EXCEPT ![b][s] = Written(@, n, i)]
        /\ IF i = Null THEN UNCHANGED <<inodeBits, mode, blocks>>
           ELSE /\ mode' = [mode EXCEPT ![i] = k]
                /\ blocks' = [blocks EXCEPT ![i] = NoBlocks]
  BY DEF TakeEntry, CreateInode
<1>5. /\ i \in Place
      /\ i # Null => /\ i \in Inode /\ mode[i] = "none"
                     /\ \A l \in Link : blocks[i][l] = Null
  BY <1>1, NewInodeBlocks
<1>6. \A x \in Inode, l \in Link : blocks'[x][l] = blocks[x][l]
  BY <1>1, <1>4, <1>5 DEF TypeOK, NoBlocks
<1> HIDE DEF b, s
<1>7. ent[b][s] = Free
  <2>1. CASE s = SLOTS
    BY <1>2, <2>1 DEF LastFree, b
  <2>2. CASE s # SLOTS
    BY <1>3, <2>2 DEF Taken
  <2>3. QED
    BY <2>1, <2>2
<1>8. n \in Name /\ n # NoName
  <2>1. n # NoName
    BY <1>3, <1>7 DEF Matches, LenOf, Free
  <2>2. QED
    BY <2>1
<1> DEFINE e == [name |-> n, inode |-> i, len |-> NameLen[n]]
<1>9. Written(ent[b][s], n, i) = e
  <2>1. NameLen[n] \in 1 .. 7
    BY <1>8, FilesAssumption
  <2>2. QED
    BY <1>7, <1>8, <2>1 DEF Written, Free, LenOf
<1>10. /\ e # Free /\ e.name = n /\ e.inode = i /\ e.len = NameLen[n]
  BY <1>8 DEF Free
<1> HIDE DEF e
<1>11. /\ ent'[b][s] = e
       /\ \A c \in Block, r \in Slot : ~(c = b /\ r = s) => ent'[c][r] = ent[c][r]
  BY <1>1, <1>2, <1>4, <1>9 DEF TypeOK
<1>12. s # SLOTS
  <2>1. blocks'[d][p[1]] = b /\ b # Null
    BY <1>2, <1>6 DEF b
  <2>2. ent'[b][SLOTS] = Free
    BY <1>2, <2>1 DEF LastFree
  <2>3. QED
    BY <1>10, <1>11, <2>2
<1>13. ~Holds(d, p)
  BY <1>7 DEF Holds, At, b, s
<1>14. /\ \A q \in Position : Holds(d, q) => Before(q, p) /\ At(d, q).name # n
       /\ \A q \in Position : Before(q, p) =>
            Holds(d, q) \/ (blocks[d][q[1]] # Null /\ q[2] = SLOTS)
  BY <1>8, <1>12, <1>13, PlaceIsLast DEF s
<1>15. ASSUME NEW x \in Inode, NEW q \in Position, ~(x = d /\ q = p)
       PROVE  Same(x, q)
  <2>1. q[1] \in Link /\ q[2] \in Slot /\ q = <<q[1], q[2]>>
    BY PositionOrder
  <2>2. blocks'[x][q[1]] = blocks[x][q[1]]
    BY <1>6, <2>1
  <2>3. CASE blocks[x][q[1]] = Null
    BY <2>2, <2>3 DEF Same, Holds
  <2>4. CASE blocks[x][q[1]] # Null
    <3>1. ~(blocks[x][q[1]] = b /\ q[2] = s)
      BY <1>1, <1>2, <1>15, <2>1, <2>4 DEF OneOwner, b
    <3>2. blocks[x][q[1]] \in Block
      BY <1>1, <2>4, EntryOf
    <3>3. ent'[blocks[x][q[1]]][q[2]] = ent[blocks[x][q[1]]][q[2]]
      BY <1>11, <2>1, <3>1, <3>2
    <3>4. QED
      BY <2>2, <3>3 DEF Same, Holds, At
  <2>5. QED
    BY <2>3, <2>4
<1>16. Added(d, p, n, i)
  <2>1. /\ Holds(d, p)' /\ At(d, p)'.name = n /\ At(d, p)'.inode = i
    BY <1>2, <1>6, <1>10, <1>11 DEF Holds, At, b, s
  <2>2. QED
    BY <1>13, <1>14, <1>15, <2>1 DEF Added
<1>17. Named'
  BY <1>1, <1>2, <1>8, <1>10, <1>11 DEF Named
<1>18. Distinct' /\ Child[d][n] = Null /\ Child' = [Child EXCEPT ![d][n] = i]
  BY <1>1, <1>2, <1>5, <1>8, <1>16, <1>17, AddedTree
<1>19. Packed'
  BY <1>2, <1>5, <1>6, <1>8, <1>14, <1>16, AddedPacked
<1>20. QED
  BY <1>4, <1>5, <1>8, <1>17, <1>18, <1>19 DEF Grows

LEMMA SamePacked ==
  ASSUME Packed, \A x \in Inode : \A q \in Position : Same(x, q),
         \A x \in Inode, k \in Link : blocks[x][k] # Null => blocks'[x][k] # Null
  PROVE  Packed'
<1> SUFFICES ASSUME NEW x \in Inode, NEW r \in Position, NEW q \in Position,
                    Holds(x, r)', Before(q, r)
             PROVE  Holds(x, q)' \/ (blocks'[x][q[1]] # Null /\ q[2] = SLOTS)
  BY DEF Packed
<1>1. Holds(x, q) \/ (blocks[x][q[1]] # Null /\ q[2] = SLOTS)
  BY DEF Same, Packed
<1>2. QED
  BY <1>1, PositionOrder DEF Same

LEMMA AddBlockTree ==
  ASSUME TreeInv, IInv', LastFree, NEW d \in Inode, mode[d] = "dir",
         NEW n \in Name \cup {NoName}, NEW k \in {"file", "dir"},
         NEW p \in First(Stops(d, n)), blocks[d][p[1]] = Null,
         NEW c \in NewBlock, AddBlock(d, p[1], c, n, k)
  PROVE  /\ Named' /\ Distinct' /\ Packed'
         /\ Grows(d, n, k) \/ (Child' = Child /\ mode' = mode)
<1> DEFINE l == p[1]
<1>1. IInv /\ Named /\ Distinct /\ Packed /\ TypeOK
  BY DEF TreeInv, IInv
<1>2. p \in Position /\ l \in Link /\ p[2] \in Slot /\ p = <<l, p[2]>>
  BY PositionOrder DEF First, Stops
<1>3. c \in Block /\ c # Null /\ c \notin blockBits
  BY DEF NewBlock, FirstUnset, Block, Null
<1>4. \A x \in Inode, m \in Link : blocks[x][m] # c
  BY <1>1, <1>3 DEF IInv, Created
<1>5. 1 \in Slot /\ SLOTS \in Slot
  BY FilesAssumption DEF Slot
<1>6. PICK i \in NewInode :
        \/ /\ n = NoName
           /\ ent' = [ent EXCEPT ![c] = FreeBlock]
           /\ blocks' = [blocks EXCEPT ![d][l] = c]
           /\ UNCHANGED mode
        \/ /\ n # NoName
           /\ ent' = [ent EXCEPT ![c] = [FreeBlock EXCEPT ![1] = Written(Free, n, i)]]
           /\ \/ i = Null /\ blocks' = [blocks EXCEPT ![d][l] = c] /\ UNCHANGED mode
              \/ /\ i # Null
                 /\ blocks' = [blocks EXCEPT ![d][l] = c, ![i] = NoBlocks]
                 /\ mode' = [mode EXCEPT ![i] = k]
  <2>1. CASE n = NoName
    <3>1. /\ ent' = [ent EXCEPT ![c] = FreeBlock]
          /\ blocks' = [blocks EXCEPT ![d][l] = c]
          /\ UNCHANGED mode
      BY <2>1 DEF AddBlock
    <3>2. \E i : i \in NewInode
      <4>1. CASE inodeBits = Inode
        BY <4>1 DEF NewInode
      <4>2. CASE inodeBits # Inode
        <5> DEFINE T == Inode \ inodeBits
        <5>0. inodeBits \subseteq Inode /\ Inode \subseteq Nat
          BY <1>1 DEF TypeOK, Inode
        <5>1. T \subseteq Nat /\ T # {}
          BY <4>2, <5>0
        <5> HIDE DEF T
        <5>2. PICK i \in T : \A j \in T : i <= j
          BY <5>1, Least
        <5>3. QED
          BY <4>2, <5>2 DEF NewInode, FirstUnset, T
      <4>3. QED
        BY <4>1, <4>2
    <3>3. QED
      BY <2>1, <3>1, <3>2
  <2>2. CASE n # NoName
    BY <2>2 DEF AddBlock
  <2>3. QED
    BY <2>1, <2>2
<1>7. /\ i \in Place
      /\ i # Null => /\ i \in Inode /\ i # d /\ mode[i] = "none"
                     /\ \A m \in Link : blocks[i][m] = Null
  BY <1>1, NewInodeBlocks
<1> HIDE DEF l
<1>8. \A x \in Inode, m \in Link :
        blocks'[x][m] = IF x = d /\ m = l THEN c ELSE blocks[x][m]
  <2>1. CASE blocks' = [blocks EXCEPT ![d][l] = c]
    BY <1>1, <1>2, <2>1 DEF TypeOK
  <2>2. CASE i # Null /\ blocks' = [blocks EXCEPT ![d][l] = c, ![i] = NoBlocks]
    <3> DEFINE e == [blocks EXCEPT ![d][l] = c]
    <3>1. \A x \in Inode, m \in Link : e[x][m] =
            IF x = d /\ m = l THEN c ELSE blocks[x][m]
      BY <1>1, <1>2 DEF TypeOK
    <3>2. DOMAIN e = Inode /\ blocks' = [e EXCEPT ![i] = NoBlocks]
      BY <1>1, <2>2 DEF TypeOK
    <3> HIDE DEF e
    <3>3. /\ \A m \in Link : NoBlocks[m] = Null
          /\ blocks'[i] = NoBlocks
          /\ \A x \in Inode : x # i => blocks'[x] = e[x]
      BY <1>7, <2>2, <3>2 DEF NoBlocks
    <3> SUFFICES ASSUME NEW x \in Inode, NEW m \in Link
                 PROVE  blocks'[x][m] = IF x = d /\ m = l THEN c ELSE blocks[x][m]
      OBVIOUS
    <3>4. CASE x = i
      BY <1>7, <2>2, <3>3, <3>4
    <3>5. CASE x # i
      BY <3>1, <3>3, <3>5
    <3>6. QED
      BY <3>4, <3>5
  <2>3. QED
    BY <1>6, <2>1, <2>2
<1>9. \A x \in Inode, m \in Link : blocks[x][m] # Null => blocks'[x][m] # Null
  BY <1>3, <1>8
<1>10. \A b \in Block \ {c} : ent'[b] = ent[b]
  BY <1>1, <1>6 DEF TypeOK
<1>11. ASSUME NEW x \in Inode, NEW q \in Position,
              ~(x = d /\ q[1] = l) \/ ent'[c][q[2]] = Free
       PROVE  Same(x, q)
  <2>1. q[1] \in Link /\ q[2] \in Slot
    BY PositionOrder
  <2>2. CASE x = d /\ q[1] = l
    BY <1>3, <1>8, <1>11, <2>1, <2>2 DEF Same, Holds, At, l
  <2>3. CASE ~(x = d /\ q[1] = l)
    <3>1. blocks'[x][q[1]] = blocks[x][q[1]] /\ blocks[x][q[1]] # c
      BY <1>4, <1>8, <2>1, <2>3
    <3>2. CASE blocks[x][q[1]] = Null
      BY <3>1, <3>2 DEF Same, Holds
    <3>3. CASE blocks[x][q[1]] # Null
      <4>1. blocks[x][q[1]] \in Block
        BY <1>1, <3>3, EntryOf
      <4>2. ent'[blocks[x][q[1]]] = ent[blocks[x][q[1]]]
        BY <1>10, <3>1, <4>1
      <4>3. QED
        BY <3>1, <4>2 DEF Same, Holds, At
    <3>4. QED
      BY <3>2, <3>3
  <2>4. QED
    BY <2>2, <2>3
<1>12. CASE n = NoName
  <2>1. ent'[c] = FreeBlock /\ mode' = mode
    BY <1>1, <1>3, <1>6, <1>12 DEF TypeOK
  <2>2. \A r \in Slot : ent'[c][r] = Free
    BY <2>1 DEF FreeBlock
  <2>3. \A x \in Inode : \A q \in Position : Same(x, q)
    BY <1>11, <2>2, PositionOrder
  <2>4. Named'
    BY <1>1, <1>10, <2>2 DEF Named
  <2>5. Distinct' /\ Child' = Child
    BY <1>1, <2>3, <2>4, SameTree
  <2>6. Packed'
    BY <1>1, <1>9, <2>3, SamePacked
  <2>7. QED
    BY <2>1, <2>4, <2>5, <2>6
<1>13. CASE n # NoName
  <2> DEFINE e == [name |-> n, inode |-> i, len |-> NameLen[n]]
  <2>1. n \in Name
    BY <1>13
  <2>2. Written(Free, n, i) = e
    <3>1. NameLen[n] \in 1 .. 7
      BY <2>1, FilesAssumption
    <3>2. QED
      BY <1>13, <3>1 DEF Written, Free, LenOf
  <2>3. e # Free /\ e.name = n /\ e.inode = i /\ e.len = NameLen[n]
    BY <1>13 DEF Free
  <2> HIDE DEF e
  <2>4. ent'[c][1] = e /\ \A r \in Slot : r # 1 => ent'[c][r] = Free
    <3>1. ent'[c] = [FreeBlock EXCEPT ![1] = e]
      BY <1>1, <1>3, <1>6, <1>13, <2>2 DEF TypeOK
    <3>2. QED
      BY <1>5, <3>1 DEF FreeBlock
  <2>5. p[2] = 1
    <3> DEFINE p0 == <<l, 1>>
    <3>1. p0 \in Position /\ p0[1] = l /\ p0[2] = 1
      BY <1>2, <1>5 DEF Position
    <3>2. p0 \in Stops(d, n)
      <4>1. blocks[d][p0[1]] = Null
        BY <3>1 DEF l
      <4>2. QED
        BY <3>1, <4>1 DEF Stops
    <3>3. ~Before(p0, p)
      BY <3>2 DEF First
    <3>4. p[1] = l /\ p[2] \in Nat /\ p[2] >= 1
      BY <1>2 DEF Slot, l
    <3>5. QED
      BY <3>1, <3>3, <3>4 DEF Before
  <2>6. ~Holds(d, p)
    BY DEF Holds
  <2>7. /\ \A q \in Position : Holds(d, q) => Before(q, p) /\ At(d, q).name # n
        /\ \A q \in Position : Before(q, p) =>
             Holds(d, q) \/ (blocks[d][q[1]] # Null /\ q[2] = SLOTS)
    BY <2>1, <2>6, PlaceIsLast
  <2>8. Added(d, p, n, i)
    <3>1. ASSUME NEW x \in Inode, NEW q \in Position, ~(x = d /\ q = p)
          PROVE  Same(x, q)
      <4>1. q[1] \in Link /\ q[2] \in Slot /\ q = <<q[1], q[2]>>
        BY PositionOrder
      <4>2. ~(x = d /\ q[1] = l) \/ ent'[c][q[2]] = Free
        BY <1>2, <2>4, <2>5, <3>1, <4>1
      <4>3. QED
        BY <1>11, <4>2
    <3>2. blocks'[d][p[1]] = c
      BY <1>2, <1>8 DEF l
    <3>3. Holds(d, p)' /\ At(d, p)'.name = n /\ At(d, p)'.inode = i
      BY <1>3, <2>3, <2>4, <2>5, <3>2 DEF Holds, At
    <3>4. QED
      BY <2>6, <2>7, <3>1, <3>3 DEF Added
  <2>9. Named'
    BY <1>1, <1>10, <2>1, <2>3, <2>4 DEF Named, Free
  <2>10. Distinct' /\ Child[d][n] = Null /\ Child' = [Child EXCEPT ![d][n] = i]
    BY <1>1, <1>2, <1>7, <2>1, <2>8, <2>9, AddedTree
  <2>11. Packed'
    BY <1>2, <1>7, <1>9, <2>1, <2>7, <2>8, AddedPacked
  <2>12. Grows(d, n, k)
    <3>1. /\ i = Null => mode' = mode
          /\ i # Null => mode[i] = "none" /\ mode' = [mode EXCEPT ![i] = k]
      BY <1>6, <1>7, <1>13
    <3>2. QED
      BY <1>7, <2>1, <2>10, <3>1 DEF Grows
  <2>13. QED
    BY <2>9, <2>10, <2>11, <2>12
<1>14. QED
  BY <1>12, <1>13

(* A directory that has got a name is what the tree's Create makes, unless *)
(* there was no inode left for it.                                         *)
LEMMA GrowsTree ==
  ASSUME IInv, LongNames, NEW p \in Path, NEW k \in {"file", "dir"}, NEW d \in Inode,
         d = Walk(p), mode[d] = "dir", Grows(d, p.last, k), UNCHANGED <<root, cwd>>
  PROVE  Tree!Create(p, k) \/ UNCHANGED <<mode, Child, root, cwd>>
<1> DEFINE n == p.last
<1>1. d # Null /\ Tree!Resolve(p) = d
  BY WalkResolves DEF Inode, Null
<1>2. n \in Name /\ Child[d][n] = Null
  BY DEF Grows
<1>3. PICK i \in Place :
        /\ Child' = [Child EXCEPT ![d][n] = i]
        /\ i = Null => mode' = mode
        /\ i # Null => mode[i] = "none" /\ mode' = [mode EXCEPT ![i] = k]
  BY DEF Grows
<1>4. CASE i # Null
  <2>1. i \in Inode
    BY <1>4 DEF Place
  <2>2. QED
    BY <1>1, <1>2, <1>3, <1>4, <2>1 DEF Tree!Create
<1>5. CASE i = Null
  <2>1. PICK c : c = Child
    OBVIOUS
  <2>2. c \in [Inode -> [Name -> Place]]
    BY <2>1, LookupPlace DEF Child, IInv
  <2>3. [c EXCEPT ![d][n] = c[d][n]] = c
    BY <1>2, <2>2
  <2>4. Child' = Child
    BY <1>2, <1>3, <1>5, <2>1, <2>3
  <2>5. QED
    BY <1>3, <1>5, <2>4
<1>6. QED
  BY <1>4, <1>5

(* touch and mkdir, as long as there is a block left or nothing is written *)
(* where no block is.                                                      *)
LEMMA CreateGrows ==
  ASSUME TreeInv, IInv', LastFree, LastFree', heapOK' \/ NewBlock # {},
         NEW p \in Path, NEW k \in {"file", "dir"}, Create(p, k)
  PROVE  /\ Named' /\ Distinct' /\ Packed'
         /\ UNCHANGED <<root, cwd>>
         /\ \E d \in Inode : /\ d = Walk(p) /\ mode[d] = "dir"
                             /\ Grows(d, p.last, k) \/ UNCHANGED <<mode, Child>>
<1> DEFINE n == p.last
<1>1. n \in Name \cup {NoName}
  BY FilesAssumption
<1>2. PICK d \in Inode : /\ d = Walk(p) /\ mode[d] = "dir" /\ AddEntry(d, n, k)
                         /\ UNCHANGED <<root, cwd>>
  BY DEF Create
<1>3. IInv /\ Named /\ Distinct /\ Packed
  BY DEF TreeInv
<1>4. SUFFICES /\ Named' /\ Distinct' /\ Packed'
               /\ Grows(d, n, k) \/ (Child' = Child /\ mode' = mode)
  BY <1>2
<1> HIDE DEF n
<1>5. PICK q \in First(Stops(d, n)) :
        \/ /\ blocks[d][q[1]] # Null
           /\ ~Matches(ent[blocks[d][q[1]]][q[2]], n)
           /\ TakeEntry(blocks[d][q[1]], q[2], n, k)
        \/ /\ blocks[d][q[1]] = Null
           /\ \E c \in NewBlock : AddBlock(d, q[1], c, n, k)
        \/ UNCHANGED <<mode, blocks, ent>>
  BY <1>2 DEF AddEntry, NoBlockLeft
<1>6. CASE /\ blocks[d][q[1]] # Null
           /\ ~Matches(ent[blocks[d][q[1]]][q[2]], n)
           /\ TakeEntry(blocks[d][q[1]], q[2], n, k)
  BY <1>1, <1>6, TakeTree
<1>7. CASE /\ blocks[d][q[1]] = Null
           /\ \E c \in NewBlock : AddBlock(d, q[1], c, n, k)
  BY <1>1, <1>2, <1>7, AddBlockTree
<1>8. CASE UNCHANGED <<mode, blocks, ent>>
  <2>1. \A x \in Inode : \A r \in Position : Same(x, r)
    BY <1>8 DEF Same, Holds, At
  <2>2. Named'
    BY <1>3, <1>8 DEF Named
  <2>3. Distinct' /\ Child' = Child
    BY <1>3, <2>1, <2>2, SameTree
  <2>4. Packed'
    BY <1>3, <1>8, <2>1, SamePacked
  <2>5. QED
    BY <1>8, <2>2, <2>3, <2>4
<1>9. QED
  BY <1>5, <1>6, <1>7, <1>8

LEMMA CreateTree ==
  ASSUME LongNames, TreeInv, IInv', LastFree, LastFree', NewBlock # {},
         NEW p \in Path, NEW k \in {"file", "dir"}, Create(p, k)
  PROVE  /\ Named' /\ Distinct' /\ Packed'
         /\ Tree!Create(p, k) \/ UNCHANGED <<mode, Child, root, cwd>>
<1>1. /\ Named' /\ Distinct' /\ Packed' /\ UNCHANGED <<root, cwd>>
      /\ \E d \in Inode : /\ d = Walk(p) /\ mode[d] = "dir"
                          /\ Grows(d, p.last, k) \/ UNCHANGED <<mode, Child>>
  BY CreateGrows
<1>2. IInv
  BY DEF TreeInv
<1> QED
  BY <1>1, <1>2, GrowsTree

LEMMA SameKeeps ==
  ASSUME TreeInv, IInv', UNCHANGED <<mode, blocks, ent>>
  PROVE  Named' /\ Distinct' /\ Packed' /\ UNCHANGED <<mode, Child>>
<1>1. IInv /\ Named /\ Distinct /\ Packed
  BY DEF TreeInv
<1>2. \A x \in Inode : \A r \in Position : Same(x, r)
  BY DEF Same, Holds, At
<1>3. Named'
  BY <1>1 DEF Named
<1>4. Distinct' /\ Child' = Child
  BY <1>1, <1>2, <1>3, SameTree
<1>5. Packed'
  BY <1>1, <1>2, SamePacked
<1> QED
  BY <1>3, <1>4, <1>5

(* cd: only a directory has names, so what it finds is in one.             *)
LEMMA CdTree ==
  ASSUME LongNames, TreeInv, IInv', NEW p \in Path, Cd(p)
  PROVE  Named' /\ Distinct' /\ Packed' /\ Tree!Chdir(p)
<1>1. IInv /\ Named /\ Distinct /\ Packed
  BY DEF TreeInv
<1>2. PICK d \in Inode, f \in Inode : d = Walk(p) /\ f = Lookup(d, p.last) /\ cwd' = f
  BY DEF Cd, Finds
<1>3. UNCHANGED <<mode, blocks, ent, root>>
  BY DEF Cd
<1>4. Named' /\ Distinct' /\ Packed' /\ Child' = Child
  BY <1>3, SameKeeps
<1>5. d # Null /\ f # Null /\ Tree!Resolve(p) = d
  BY <1>1, <1>2, WalkResolves DEF Inode, Null
<1>6. mode[d] = "dir"
  BY <1>1, <1>2, <1>5, FileLeadsNowhere
<1>7. p.last \in Name
  <2>1. p.last # NoName
    BY <1>1, <1>2, <1>5, LookupHere DEF LookupFacts
  <2>2. QED
    BY <2>1, FilesAssumption
<1>8. Child[d][p.last] = f
  BY <1>2, <1>7 DEF Child
<1>9. Tree!Chdir(p)
  BY <1>2, <1>3, <1>4, <1>5, <1>6, <1>7, <1>8 DEF Tree!Chdir
<1>10. QED
  BY <1>4, <1>9

(* edit: the block it takes belongs to no directory.                       *)
LEMMA EditTree ==
  ASSUME TreeInv, IInv', NEW p \in Path, Edit(p)
  PROVE  Named' /\ Distinct' /\ Packed' /\ UNCHANGED <<mode, Child, root, cwd>>
<1>1. IInv /\ Named /\ Distinct /\ Packed /\ TypeOK
  BY DEF TreeInv, IInv
<1>2. UNCHANGED <<mode, blocks, root, cwd>>
  BY DEF Edit
<1>3. \/ \E b \in NewBlock : ent' = [ent EXCEPT ![b] = FreeBlock]
      \/ ent' = ent
  BY DEF Edit
<1>4. \A b \in Block : \A s \in Slot :
        ent'[b][s] # ent[b][s] => b \in NewBlock /\ ent'[b][s] = Free
  BY <1>1, <1>3 DEF TypeOK, FreeBlock
<1>5. \A x \in Inode : \A r \in Position : Same(x, r)
  <2> SUFFICES ASSUME NEW x \in Inode, NEW r \in Position, blocks[x][r[1]] # Null
               PROVE  At(x, r)' = At(x, r)
    BY <1>2 DEF Same, Holds
  <2>1. /\ r[1] \in Link /\ r[2] \in Slot /\ blocks[x][r[1]] \in Block
        /\ blocks[x][r[1]] \in blockBits
    BY <1>1, EntryOf DEF IInv, Created
  <2>2. blocks[x][r[1]] \notin NewBlock
    BY <2>1 DEF NewBlock, FirstUnset
  <2>3. QED
    BY <1>2, <1>4, <2>1, <2>2 DEF At
<1>6. Named'
  BY <1>1, <1>4 DEF Named
<1>7. Distinct' /\ Child' = Child
  BY <1>1, <1>5, <1>6, SameTree
<1>8. Packed'
  BY <1>1, <1>2, <1>5, SamePacked
<1>9. QED
  BY <1>2, <1>6, <1>7, <1>8

(* kernel_main: the root, and the directory "root" in it.                  *)
LEMMA InitTree == Init => Named /\ Distinct /\ Packed /\ Tree!Init
<1> SUFFICES ASSUME Init PROVE Named /\ Distinct /\ Packed /\ Tree!Init
  OBVIOUS
<1>1. PICK i \in Inode, j \in Inode, b \in Block : i # j /\ Boot(i, j, b)
  BY DEF Init, FirstUnset
<1> DEFINE e == [name |-> RootName, len |-> NameLen[RootName], inode |-> j]
<1>2. /\ RootName \in Name /\ 1 \in Link /\ 1 \in Slot /\ b # Null
      /\ NoName \notin Name
  BY FilesAssumption DEF Link, Slot, Block, Null
<1>3. e # Free /\ e.name = RootName /\ e.len = NameLen[RootName] /\ e.inode = j
  BY <1>2 DEF Free
<1> HIDE DEF e
<1>4. /\ root = i /\ cwd = i
      /\ mode = [x \in Inode |-> IF x \in {i, j} THEN "dir" ELSE "none"]
      /\ \A x \in Inode, k \in Link :
           blocks[x][k] = IF x = i /\ k = 1 THEN b ELSE Null
      /\ \A c \in Block, s \in Slot :
           ent[c][s] = IF c = b /\ s = 1 THEN e ELSE Free
  BY <1>1 DEF Boot, e
<1>5. Named
  BY <1>2, <1>3, <1>4 DEF Named
<1> DEFINE q0 == <<1, 1>>
<1>6. q0 \in Position /\ Holds(i, q0) /\ At(i, q0) = e
  BY <1>1, <1>2, <1>3, <1>4 DEF Position, Holds, At
<1>7. ASSUME NEW x \in Inode, NEW q \in Position, Holds(x, q) PROVE x = i /\ q = q0
  <2>1. q[1] \in Link /\ q[2] \in Slot /\ q = <<q[1], q[2]>>
    BY PositionOrder
  <2>2. x = i /\ q[1] = 1
    BY <1>4, <1>7, <2>1 DEF Holds
  <2>3. ent[b][q[2]] # Free
    BY <1>2, <1>4, <1>7, <2>1, <2>2 DEF Holds, At
  <2>4. q[2] = 1
    BY <1>1, <1>4, <2>1, <2>3
  <2>5. QED
    BY <2>1, <2>2, <2>4
<1>8. Distinct
  BY <1>7 DEF Distinct
<1>9. Packed
  <2> SUFFICES ASSUME NEW d \in Inode, NEW p \in Position, NEW q \in Position,
                      Holds(d, p), Before(q, p)
               PROVE  FALSE
    BY DEF Packed
  <2>1. p = q0
    BY <1>7
  <2>2. q[1] \in Link /\ q[2] \in Slot
    BY PositionOrder
  <2>3. q[1] \in Nat /\ q[1] >= 1 /\ q[2] \in Nat /\ q[2] >= 1
    BY <2>2, FilesAssumption DEF Link, Slot
  <2>4. QED
    BY <2>1, <2>3 DEF Before
<1>10. IInv
  BY InitInv
<1> HIDE DEF q0
<1>11. Lookup(i, RootName) = j
  BY <1>2, <1>3, <1>5, <1>6, <1>8, <1>10, LookupHere DEF LookupFacts
<1>12. ASSUME NEW x \in Inode, NEW m \in Name, ~(x = i /\ m = RootName)
       PROVE  Lookup(x, m) = Null
  <2>1. \A q \in Position : ~(Holds(x, q) /\ At(x, q).name = m)
    BY <1>3, <1>6, <1>7, <1>12
  <2>2. QED
    BY <1>5, <1>8, <1>10, <2>1, LookupHere DEF LookupFacts
<1>13. Child = [x \in Inode |-> [m \in Name |->
                  IF x = root /\ m = RootName THEN j ELSE Null]]
  BY <1>4, <1>11, <1>12 DEF Child
<1>14. Tree!Init
  BY <1>1, <1>2, <1>4, <1>13 DEF Tree!Init
<1>15. QED
  BY <1>5, <1>8, <1>9, <1>14

(* The last block, as FirstDataBlock places it, lies outside the device.   *)
LEMMA LastOutside ==
  ASSUME BLOCKS \in Block PROVE Outside(BLOCKS)
<1> DEFINE a == SUPERBLOCK + BITSET_SIZE(INODES) + BITSET_SIZE(BLOCKS)
           t == INODES * INODE + BLOCKS * BLOCK_SIZE
<1>1. INODES \in Nat /\ BLOCKS \in Nat
  BY FilesAssumption
<1>2. a \in Int /\ a > 0
  BY <1>1 DEF SUPERBLOCK, BITSET_SIZE
<1>3. t \in Int
  BY <1>1 DEF INODE, BLOCK_SIZE
<1>4. Size = a + t
  <2>1. INODE * INODES = INODES * INODE /\ BLOCK_SIZE * BLOCKS = BLOCKS * BLOCK_SIZE
    BY <1>1 DEF INODE, BLOCK_SIZE
  <2>2. QED
    BY <1>1, <2>1 DEF Size, SUPERBLOCK, BITSET_SIZE, INODE, BLOCK_SIZE
<1>5. FirstDataBlock + BLOCKS * BLOCK_SIZE = 40 * a + t
  BY <1>1 DEF FirstDataBlock, FirstInode, SUPERBLOCK, BITSET_SIZE, INODE, BLOCK_SIZE
<1> HIDE DEF a, t
<1>6. 40 * a + t > a + t
  BY <1>2, <1>3
<1>7. QED
  BY <1>4, <1>5, <1>6 DEF Outside

(* So it is left for as long as nothing was written beyond the device.     *)
Spare == heapOK => BLOCKS \in Block \ blockBits

LEMMA SpareInit == Init /\ BLOCKS \notin BlocksAtBoot => Spare
<1> SUFFICES ASSUME Init, BLOCKS \notin BlocksAtBoot, heapOK
             PROVE  BLOCKS \in Block \ blockBits
  BY DEF Spare
<1>1. PICK b \in Block : blockBits = BlocksAtBoot \cup {b} /\ heapOK = ~Outside(b)
  BY DEF Init, Boot, FirstUnset
<1>2. BLOCKS \in Block
  BY <1>1, FilesAssumption DEF Block
<1>3. QED
  BY <1>1, <1>2, LastOutside

LEMMA SpareNext == Spare /\ [Next]_vars => Spare'
<1> SUFFICES ASSUME Spare, [Next]_vars, heapOK'
             PROVE  BLOCKS \in Block \ blockBits'
  BY DEF Spare
<1>1. CASE \E p \in Path : \E k \in {"file", "dir"} : Create(p, k)
  <2>1. PICK p \in Path, k \in {"file", "dir"} : Create(p, k)
    BY <1>1
  <2>2. BLOCKS \in Block \ blockBits
    BY <2>1 DEF Create, Spare
  <2>3. \/ UNCHANGED blockBits
        \/ \E c \in NewBlock : blockBits' = blockBits \cup {c} /\ heapOK' = ~Outside(c)
    BY <2>1 DEF Create, AddEntry, TakeEntry, AddBlock, NoBlockLeft, SetBit
  <2>4. QED
    BY <2>2, <2>3, LastOutside
<1>2. CASE \E p \in Path : Cd(p)
  BY <1>2 DEF Cd, Spare
<1>3. CASE \E p \in Path : Edit(p)
  BY <1>3 DEF Edit
<1>4. CASE UNCHANGED vars
  BY <1>4 DEF vars, Spare
<1>5. QED
  BY <1>1, <1>2, <1>3, <1>4 DEF Next, Touch, Mkdir

LEMMA SpareBlock ==
  ASSUME heapOK, Spare PROVE NewBlock # {}
<1> DEFINE S == Block \ blockBits
<1>1. S # {} /\ S \subseteq Nat
  BY DEF Spare, Block
<1>2. \E b \in S : \A c \in S : b <= c
  BY <1>1, Least
<1>3. QED
  BY <1>2 DEF NewBlock, FirstUnset

(* As long as no entry lies in a block's last slot, and with paths through *)
(* names of two characters and more, touch, mkdir and cd make the tree of  *)
(* names that their users expect.  The memory that fs_initialize takes     *)
(* over must not show the last block as taken, or the blocks could run out *)
(* before anything is written beyond the device.                           *)
THEOREM IsTree ==
  ASSUME LongNames, BLOCKS \notin BlocksAtBoot
  PROVE  Spec /\ []LastFree => IsDirectoryTree
<1>1. Init => TreeInv /\ Spare /\ Tree!Init
  BY InitInv, InitTree, SpareInit DEF TreeInv
<1>2. TreeInv /\ Spare /\ IInv' /\ LastFree /\ LastFree' /\ [Next]_vars =>
        TreeInv' /\ Spare' /\ [Tree!Next]_<<mode, Child, root, cwd>>
  <2> SUFFICES ASSUME TreeInv, Spare, IInv', LastFree, LastFree', [Next]_vars
               PROVE  TreeInv' /\ [Tree!Next]_<<mode, Child, root, cwd>>
    BY SpareNext
  <2>1. CASE \E p \in Path : \E k \in {"file", "dir"} : Create(p, k)
    <3>1. PICK p \in Path, k \in {"file", "dir"} : Create(p, k)
      BY <2>1
    <3>2. NewBlock # {}
      BY <3>1, SpareBlock DEF Create
    <3>3. /\ Named' /\ Distinct' /\ Packed'
          /\ Tree!Create(p, k) \/ UNCHANGED <<mode, Child, root, cwd>>
      BY <3>1, <3>2, CreateTree
    <3>4. QED
      BY <3>3 DEF TreeInv, Tree!Next
  <2>2. CASE \E p \in Path : Cd(p)
    BY <2>2, CdTree DEF TreeInv, Tree!Next
  <2>3. CASE \E p \in Path : Edit(p)
    BY <2>3, EditTree DEF TreeInv
  <2>4. CASE UNCHANGED vars
    <3>1. UNCHANGED <<mode, blocks, ent, root, cwd>>
      BY <2>4 DEF vars
    <3>2. Named' /\ Distinct' /\ Packed' /\ UNCHANGED <<mode, Child>>
      BY <3>1, SameKeeps
    <3> QED
      BY <3>1, <3>2 DEF TreeInv
  <2>5. QED
    BY <2>1, <2>2, <2>3, <2>4 DEF Next, Touch, Mkdir
<1>3. QED
  BY <1>1, <1>2, FilesInvariance, PTL DEF Spec, IsDirectoryTree, Tree!Spec, Tree!vars
-----------------------------------------------------------------------------
(* What tree prints.  First, a sequence of sequences is flattened one by   *)
(* one.                                                                    *)
LEMMA FlattenSteps ==
  ASSUME NEW V, NEW s \in Seq(Seq(V)), Len(s) >= 1
  PROVE  \E a \in [0 .. Len(s) -> Seq(V)] :
           /\ a[0] = <<>>
           /\ \A k \in 1 .. Len(s) : a[k] = a[k - 1] \o s[k]
           /\ FlattenSeq(s) = a[Len(s)]
<1> DEFINE n == Len(s)
           Up(a, k) == \A j \in 1 .. k : a[j] = a[j - 1] \o s[j]
           P == {k \in 0 .. n : \E a \in [0 .. n -> Seq(V)] : a[0] = <<>> /\ Up(a, k)}
           Is(F) == F = [i \in 1 .. Len(s) |->
                          IF i = 1 THEN s[i] ELSE F[i - 1] \o s[i]]
           G == CHOOSE F : Is(F)
<1>1. n \in Nat /\ n >= 1 /\ \A k \in 1 .. n : s[k] \in Seq(V)
  OBVIOUS
<1>2. 0 \in P
  <2>1. <<>> \in Seq(V)
    OBVIOUS
  <2> DEFINE a == [k \in 0 .. n |-> <<>>]
  <2>2. a \in [0 .. n -> Seq(V)] /\ a[0] = <<>> /\ Up(a, 0)
    BY <1>1, <2>1
  <2> HIDE DEF a, Up
  <2> QED
    BY <1>1, <2>2
<1>3. ASSUME NEW k \in 0 .. (n - 1), k \in P
      PROVE  k + 1 \in P
  <2>1. PICK a \in [0 .. n -> Seq(V)] : a[0] = <<>> /\ Up(a, k)
    BY <1>3
  <2>2. k \in 0 .. n /\ k + 1 \in 1 .. n /\ k + 1 \in 0 .. n
    BY <1>1
  <2> DEFINE e == a[k] \o s[k + 1]
             c == [a EXCEPT ![k + 1] = e]
  <2>3. e \in Seq(V)
    <3>1. a[k] \in Seq(V) /\ s[k + 1] \in Seq(V)
      BY <1>1, <2>1, <2>2
    <3> QED
      BY <3>1
  <2> HIDE DEF e
  <2>4. c \in [0 .. n -> Seq(V)] /\ c[k + 1] = e
        /\ \A j \in 0 .. n : j # k + 1 => c[j] = a[j]
    BY <2>2, <2>3
  <2> HIDE DEF c
  <2>5. c[0] = <<>>
    BY <1>1, <2>1, <2>2, <2>4
  <2>6. ASSUME NEW j \in 1 .. (k + 1)
        PROVE  c[j] = c[j - 1] \o s[j]
    <3>1. CASE j = k + 1
      <4>1. c[k] = a[k] /\ (k + 1) - 1 = k
        BY <2>2, <2>4
      <4> QED
        BY <2>4, <3>1, <4>1 DEF e
    <3>2. CASE j # k + 1
      <4>1. j \in 1 .. k /\ j \in 0 .. n /\ j - 1 \in 0 .. n /\ j - 1 # k + 1
        BY <2>2, <3>2
      <4> QED
        BY <2>1, <2>4, <3>2, <4>1
    <3> QED
      BY <3>1, <3>2
  <2>7. Up(c, k + 1)
    BY <2>6
  <2> HIDE DEF Up
  <2> QED
    BY <2>2, <2>4, <2>5, <2>7
<1>4. n \in P
  <2>1. n \in 0 .. n
    BY <1>1
  <2> HIDE DEF P, n
  <2> QED
    BY <1>1, <1>2, <1>3, <2>1, Ind
<1>5. PICK a \in [0 .. n -> Seq(V)] : a[0] = <<>> /\ Up(a, n)
  BY <1>4
<1>6. \E F : Is(F)
  <2> DEFINE F == [i \in 1 .. n |-> a[i]]
  <2>1. ASSUME NEW i \in 1 .. n
        PROVE  a[i] = IF i = 1 THEN s[i] ELSE F[i - 1] \o s[i]
    <3>1. CASE i = 1
      <4>1. 1 \in 1 .. n /\ 1 - 1 = 0 /\ s[1] \in Seq(V)
        BY <1>1
      <4>2. a[1] = a[0] \o s[1]
        BY <1>5, <4>1
      <4>3. <<>> \o s[1] = s[1]
        BY <4>1
      <4> QED
        BY <1>5, <3>1, <4>2, <4>3
    <3>2. CASE i # 1
      <4>1. i - 1 \in 1 .. n
        BY <3>2
      <4> QED
        BY <1>5, <3>2, <4>1
    <3> QED
      BY <3>1, <3>2
  <2>2. Is(F)
    BY <2>1
  <2> QED
    BY <2>2
<1>7. Is(G)
  BY <1>6
<1> HIDE DEF G
<1> DEFINE Q == {k \in 0 .. n : k = 0 \/ G[k] = a[k]}
<1>8. n \in Q
  <2>1. 0 \in Q
    BY <1>1
  <2>2. ASSUME NEW k \in 0 .. (n - 1), k \in Q
        PROVE  k + 1 \in Q
    <3>1. k + 1 \in 1 .. n /\ k + 1 \in 0 .. n /\ (k + 1) - 1 = k
      BY <1>1
    <3>2. a[k + 1] = a[k] \o s[k + 1]
      BY <1>5, <3>1
    <3>3. G[k + 1] = IF k + 1 = 1 THEN s[k + 1] ELSE G[k] \o s[k + 1]
      BY <1>7, <3>1
    <3>4. CASE k = 0
      <4>1. <<>> \o s[1] = s[1] /\ k + 1 = 1
        BY <1>1, <3>4
      <4>2. a[1] = a[0] \o s[1] /\ G[1] = s[1]
        BY <3>2, <3>3, <3>4, <4>1
      <4>3. G[1] = a[1]
        BY <1>5, <4>1, <4>2
      <4> QED
        BY <3>1, <4>1, <4>3
    <3>5. CASE k # 0
      <4>1. k + 1 # 1
        BY <3>5
      <4> QED
        BY <2>2, <3>1, <3>2, <3>3, <3>5, <4>1
    <3> QED
      BY <3>4, <3>5
  <2>3. n \in 0 .. n
    BY <1>1
  <2> HIDE DEF Q, n
  <2> QED
    BY <1>1, <2>1, <2>2, <2>3, Ind
<1>9. FlattenSeq(s) = G[n]
  BY <1>1 DEF FlattenSeq, G
<1>10. FlattenSeq(s) = a[n]
  BY <1>1, <1>8, <1>9
<1> QED
  BY <1>5, <1>10

(* The outline of a list of lines below directory d: where TreeShows looks *)
(* for the directory of each line, it finds it.                            *)
Line == [level : Nat, name : Name \cup {NoName}, inode : Place]

Above(L, k) == {j \in 1 .. (k - 1) : L[j].level < L[k].level}
Directory(L, d, k) == IF Above(L, k) = {} THEN d ELSE L[Max(Above(L, k))].inode
Inodes(L) == {L[k].inode : k \in DOMAIN L} \ {Null}

Fits(L, d, k) ==
  /\ Above(L, k) = {} => L[k].level = 0
  /\ L[k].inode # Null =>
       /\ Directory(L, d, k) \in Inodes(L) \cup {d}
       /\ L[k].name \in Name
       /\ Child[Directory(L, d, k)][L[k].name] = L[k].inode

Outline(L, d) == L \in Seq(Line) /\ \A k \in DOMAIN L : Fits(L, d, k)

Once(L) ==
  \A j, k \in DOMAIN L : L[j].inode = L[k].inode /\ L[k].inode # Null => j = k

(* Nothing is missing below what is listed, and of what is in d itself the *)
(* entries at the positions in S are.                                      *)
Closed(L) == \A x \in Inodes(L) : \A n \in Name :
               Child[x][n] # Null => Child[x][n] \in Inodes(L)
Lists(L, d, S) == \A q \in Position :
                    Holds(d, q) /\ At(d, q).inode # Null =>
                      (At(d, q).inode \in Inodes(L) <=> q \in S)

Part(L, d, S) ==
  /\ Outline(L, d) /\ Once(L) /\ Closed(L) /\ Lists(L, d, S)
  /\ \A x \in Inodes(L) : x > d

(* The tree that Child is, seen from below: every inode in it has one      *)
(* directory, which was created before it, and one entry there.            *)
TreeFacts ==
  /\ \A d \in Inode, n \in Name : Child[d][n] \in Place
  /\ \A d \in Inode, n \in Name : Child[d][n] # Null =>
       /\ Child[d][n] > d /\ mode[d] = "dir"
       /\ \E q \in Position : /\ Holds(d, q) /\ At(d, q).name = n
                              /\ At(d, q).inode = Child[d][n]
  /\ \A d, e \in Inode : \A n, m \in Name :
       Child[d][n] # Null /\ Child[d][n] = Child[e][m] => d = e
  /\ \A d \in Inode, q \in Position : Holds(d, q) =>
       /\ At(d, q) \in Entry /\ At(d, q).name \in Name
       /\ Child[d][At(d, q).name] = At(d, q).inode
  /\ \A d \in Inode : \A p, q \in Position :
       Holds(d, p) /\ Holds(d, q) /\ At(d, p).inode # Null
         /\ At(d, p).inode = At(d, q).inode => p = q

LEMMA TreeIsTree ==
  ASSUME IInv, Named, Distinct
  PROVE  TreeFacts
<1>1. ASSUME NEW d \in Inode, NEW n \in Name
      PROVE  /\ Child[d][n] = Lookup(d, n) /\ Child[d][n] \in Place
             /\ Child[d][n] # Null =>
                  \E q \in Position : /\ Holds(d, q) /\ At(d, q).name = n
                                      /\ At(d, q).inode = Child[d][n]
  <2>1. Child[d][n] = Lookup(d, n) /\ Lookup(d, n) \in Place
    BY LookupPlace DEF Child, IInv
  <2>2. CASE \E q \in Position : Holds(d, q) /\ At(d, q).name = n
    <3>1. PICK q \in Position : Holds(d, q) /\ At(d, q).name = n
      BY <2>2
    <3>2. Lookup(d, n) = At(d, q).inode
      BY <3>1, LookupHere DEF LookupFacts
    <3> QED
      BY <2>1, <3>1, <3>2
  <2>3. CASE ~\E q \in Position : Holds(d, q) /\ At(d, q).name = n
    <3>1. Lookup(d, n) = Null
      BY <2>3, LookupHere DEF LookupFacts
    <3> QED
      BY <2>1, <3>1
  <2> QED
    BY <2>2, <2>3
<1>2. ASSUME NEW d \in Inode, NEW q \in Position, Holds(d, q)
      PROVE  /\ q[1] \in Link /\ q[2] \in Slot /\ q = <<q[1], q[2]>>
             /\ blocks[d][q[1]] \in Block /\ blocks[d][q[1]] # Null
             /\ At(d, q) = ent[blocks[d][q[1]]][q[2]]
             /\ At(d, q) \in Entry /\ At(d, q).name \in Name
             /\ Child[d][At(d, q).name] = At(d, q).inode
  <2>1. blocks[d][q[1]] # Null /\ At(d, q) # Free
    BY <1>2 DEF Holds
  <2>2. /\ q[1] \in Link /\ q[2] \in Slot
        /\ blocks[d][q[1]] \in Block /\ At(d, q) \in Entry
    BY <2>1, EntryOf
  <2>3. At(d, q).name \in Name
    BY <2>1, <2>2 DEF Named, At
  <2>4. Lookup(d, At(d, q).name) = At(d, q).inode
    BY <1>2, <2>3, LookupHere DEF LookupFacts
  <2>5. q = <<q[1], q[2]>>
    BY PositionOrder
  <2> QED
    BY <1>1, <2>1, <2>2, <2>3, <2>4, <2>5 DEF At
<1>3. ASSUME NEW d \in Inode, NEW e \in Inode, NEW p \in Position, NEW q \in Position,
             Holds(d, p), Holds(e, q), At(d, p).inode # Null,
             At(d, p).inode = At(e, q).inode
      PROVE  d = e /\ p = q
  <2>1. blocks[d][p[1]] = blocks[e][q[1]] /\ p[2] = q[2]
    BY <1>2, <1>3 DEF IInv, OneEntry
  <2>2. d = e /\ p[1] = q[1]
    BY <1>2, <1>3, <2>1 DEF IInv, OneOwner
  <2> QED
    BY <1>2, <1>3, <2>1, <2>2
<1>4. ASSUME NEW d \in Inode, NEW n \in Name, Child[d][n] # Null
      PROVE  Child[d][n] > d /\ mode[d] = "dir"
  <2>1. PICK q \in Position : Holds(d, q) /\ At(d, q).inode = Child[d][n]
    BY <1>1, <1>4
  <2>2. /\ q[1] \in Link /\ q[2] \in Slot
        /\ blocks[d][q[1]] # Null /\ ent[blocks[d][q[1]]][q[2]].inode = Child[d][n]
    BY <1>2, <2>1
  <2>3. Child[d][n] > d
    BY <1>4, <2>2 DEF IInv, Descends
  <2>4. mode[d] = "dir"
    BY <2>2 DEF IInv, Created
  <2> QED
    BY <2>3, <2>4
<1>5. ASSUME NEW d \in Inode, NEW e \in Inode, NEW n \in Name, NEW m \in Name,
             Child[d][n] # Null, Child[d][n] = Child[e][m]
      PROVE  d = e
  <2>1. PICK p \in Position : Holds(d, p) /\ At(d, p).inode = Child[d][n]
    BY <1>1, <1>5
  <2>2. PICK q \in Position : Holds(e, q) /\ At(e, q).inode = Child[e][m]
    BY <1>1, <1>5
  <2> QED
    BY <1>3, <1>5, <2>1, <2>2
<1> QED
  BY <1>1, <1>2, <1>3, <1>4, <1>5 DEF TreeFacts

LEMMA AboveIn ==
  ASSUME NEW L, NEW k \in Nat, Above(L, k) # {}
  PROVE  /\ Max(Above(L, k)) \in Above(L, k)
         /\ \A j \in Above(L, k) : j <= Max(Above(L, k))
<1>1. k \in Nat /\ k - 1 \in Nat /\ Above(L, k) \in SUBSET (1 .. (k - 1))
  <2>1. PICK j \in 1 .. (k - 1) : TRUE
    BY DEF Above
  <2> QED
    BY <2>1 DEF Above
<1> HIDE DEF Above
<1> QED
  BY <1>1, MaxUpTo

LEMMA AboveOf ==
  ASSUME NEW L, NEW k, NEW j
  PROVE  j \in Above(L, k) <=> j \in 1 .. (k - 1) /\ L[j].level < L[k].level
BY DEF Above

(* A line whose directory is in list M has it in J, too, where M is moved  *)
(* by l lines and c levels.                                                *)
Moved(J, M, l, c, t) ==
  \A j \in 1 .. t : /\ M[j].level \in Nat
                    /\ J[l + j].level = M[j].level + c
                    /\ J[l + j].inode = M[j].inode

Follows(J, M, l, t) ==
  Above(M, t) # {} =>
    /\ Above(J, l + t) # {}
    /\ \A d, e : Directory(J, d, l + t) = Directory(M, e, t)

LEMMA MovedAbove ==
  ASSUME NEW J, NEW M, NEW l \in Nat, NEW c \in Nat, NEW t \in Nat,
         Moved(J, M, l, c, t)
  PROVE  Follows(J, M, l, t)
<1> SUFFICES ASSUME Above(M, t) # {}
             PROVE  /\ Above(J, l + t) # {}
                    /\ \A d, e : Directory(J, d, l + t) = Directory(M, e, t)
  BY DEF Follows
<1> DEFINE a == Max(Above(M, t))
<1>0. \A j \in 1 .. t : /\ M[j].level \in Nat
                       /\ J[l + j].level = M[j].level + c
                       /\ J[l + j].inode = M[j].inode
  BY DEF Moved
<1>1. /\ a \in 1 .. (t - 1) /\ M[a].level < M[t].level
      /\ \A j \in 1 .. (t - 1) : M[j].level < M[t].level => j <= a
  BY AboveIn, AboveOf
<1> HIDE DEF a
<1>2. a \in 1 .. t /\ t \in 1 .. t /\ l + a \in 1 .. ((l + t) - 1) /\ l + a \in Nat
  BY <1>1
<1>3. l + a \in Above(J, l + t)
  <2>1. /\ M[a].level \in Nat /\ J[l + a].level = M[a].level + c
        /\ M[t].level \in Nat /\ J[l + t].level = M[t].level + c
    BY <1>0, <1>2
  <2>2. J[l + a].level < J[l + t].level
    BY <1>1, <2>1
  <2> QED
    BY <1>2, <2>2, AboveOf
<1>4. ASSUME NEW j \in Above(J, l + t)
      PROVE  j <= l + a
  <2>1. j \in 1 .. ((l + t) - 1) /\ J[j].level < J[l + t].level
    BY <1>4, AboveOf
  <2>2. CASE j <= l
    BY <1>1, <2>1, <2>2
  <2>3. CASE ~(j <= l)
    <3>1. PICK i \in 1 .. (t - 1) : j = l + i
      <4>1. j - l \in 1 .. (t - 1) /\ j = l + (j - l)
        BY <2>1, <2>3
      <4> QED
        BY <4>1
    <3>2. M[i].level < M[t].level
      <4>1. i \in 1 .. t /\ t \in 1 .. t
        BY <3>1
      <4>2. /\ M[i].level \in Nat /\ M[t].level \in Nat
            /\ J[l + i].level = M[i].level + c /\ J[l + t].level = M[t].level + c
        BY <1>0, <4>1
      <4>3. M[i].level + c < M[t].level + c
        BY <2>1, <3>1, <4>2
      <4> QED
        BY <4>2, <4>3
    <3> QED
      BY <1>1, <3>1, <3>2
  <2> QED
    BY <2>1, <2>2, <2>3
<1>5. Above(J, l + t) \subseteq Nat
  BY DEF Above
<1>6. Max(Above(J, l + t)) = l + a
  <2> DEFINE A == Above(J, l + t)
             b == l + a
  <2>1. A \subseteq Nat /\ b \in A /\ \A j \in A : j <= b
    BY <1>3, <1>4, <1>5
  <2> HIDE DEF A, b
  <2>2. Max(A) = b
    BY <2>1, MaxIs
  <2> QED
    BY <2>2 DEF A, b
<1>7. J[l + a].inode = M[a].inode
  BY <1>0, <1>2
<1> QED
  BY <1>3, <1>6, <1>7 DEF Directory, a

LEMMA InodesOf ==
  ASSUME NEW L, NEW x
  PROVE  x \in Inodes(L) <=> x # Null /\ \E k \in DOMAIN L : L[k].inode = x
BY DEF Inodes

LEMMA LinesOf ==
  ASSUME NEW L \in Seq(Line)
  PROVE  /\ Len(L) \in Nat /\ DOMAIN L = 1 .. Len(L)
         /\ \A k \in DOMAIN L : /\ L[k] \in Line /\ L[k].level \in Nat
                                /\ L[k].inode \in Place
         /\ Inodes(L) \subseteq Inode
<1>1. \A k \in DOMAIN L : L[k] \in Line
  OBVIOUS
<1>2. \A k \in DOMAIN L : L[k].level \in Nat /\ L[k].inode \in Place
  BY <1>1 DEF Line
<1> QED
  BY <1>1, <1>2 DEF Inodes, Place

LEMMA JoinIs ==
  ASSUME NEW V, NEW L \in Seq(V), NEW M \in Seq(V)
  PROVE  /\ L \o M \in Seq(V) /\ DOMAIN (L \o M) = 1 .. (Len(L) + Len(M))
         /\ Len(L) \in Nat /\ Len(M) \in Nat
         /\ \A k \in 1 .. Len(L) : (L \o M)[k] = L[k]
         /\ \A k \in 1 .. Len(M) : (L \o M)[Len(L) + k] = M[k]
OBVIOUS

LEMMA JoinLines ==
  \A L, M \in Seq(Line) :
    /\ L \o M \in Seq(Line) /\ DOMAIN (L \o M) = 1 .. (Len(L) + Len(M))
    /\ Len(L) \in Nat /\ Len(M) \in Nat
    /\ \A k \in 1 .. Len(L) : (L \o M)[k] = L[k]
    /\ \A k \in 1 .. Len(M) : (L \o M)[Len(L) + k] = M[k]
BY JoinIs

(* Two lists of lines below d, one behind the other.                       *)
Joined(L, M, d) ==
  /\ Outline(L \o M, d)
  /\ Inodes(L \o M) = Inodes(L) \cup Inodes(M)

LEMMA JoinOutline ==
  ASSUME NEW d, NEW L, NEW M, Outline(L, d), Outline(M, d)
  PROVE  Joined(L, M, d)
<1> DEFINE J == L \o M
           l == Len(L)
           m == Len(M)
<1>1. L \in Seq(Line) /\ M \in Seq(Line)
  BY DEF Outline
<1>2. /\ J \in Seq(Line) /\ DOMAIN J = 1 .. (l + m) /\ l \in Nat /\ m \in Nat
      /\ \A k \in 1 .. l : J[k] = L[k]
      /\ \A k \in 1 .. m : J[l + k] = M[k]
      /\ DOMAIN L = 1 .. l /\ DOMAIN M = 1 .. m
  BY <1>1, JoinIs, LinesOf
<1> HIDE DEF J, l, m
<1>3. ASSUME NEW k \in DOMAIN J
      PROVE  k \in 1 .. l \/ \E t \in 1 .. m : k = l + t
  <2>1. k \notin 1 .. l => k - l \in 1 .. m /\ k = l + (k - l)
    BY <1>2
  <2> QED
    BY <2>1
<1>4. (\A k \in 1 .. l : k \in DOMAIN J) /\ (\A t \in 1 .. m : l + t \in DOMAIN J)
  BY <1>2
<1>5. \A x : x \in Inodes(J) <=> x \in Inodes(L) \/ x \in Inodes(M)
  <2>1. ASSUME NEW x \in Inodes(J)
        PROVE  x \in Inodes(L) \/ x \in Inodes(M)
    <3>1. PICK k \in DOMAIN J : x # Null /\ J[k].inode = x
      BY InodesOf
    <3>2. CASE k \in 1 .. l
      BY <1>2, <3>1, <3>2, InodesOf
    <3>3. CASE \E t \in 1 .. m : k = l + t
      <4>1. PICK t \in 1 .. m : k = l + t
        BY <3>3
      <4>2. t \in DOMAIN M /\ M[t].inode = x
        BY <1>2, <3>1, <4>1
      <4> QED
        BY <3>1, <4>2, InodesOf
    <3> QED
      BY <1>3, <3>2, <3>3
  <2>2. ASSUME NEW x \in Inodes(L)
        PROVE  x \in Inodes(J)
    <3>1. PICK k \in DOMAIN L : x # Null /\ L[k].inode = x
      BY InodesOf
    <3>2. k \in DOMAIN J /\ J[k].inode = x
      BY <1>2, <1>4, <3>1
    <3> QED
      BY <3>1, <3>2, InodesOf
  <2>3. ASSUME NEW x \in Inodes(M)
        PROVE  x \in Inodes(J)
    <3>1. PICK t \in DOMAIN M : x # Null /\ M[t].inode = x
      BY InodesOf
    <3>2. l + t \in DOMAIN J /\ J[l + t].inode = x
      BY <1>2, <1>4, <3>1
    <3> QED
      BY <3>1, <3>2, InodesOf
  <2> QED
    BY <2>1, <2>2, <2>3
<1>6. ASSUME NEW k \in 1 .. l
      PROVE  Fits(J, d, k)
  <2>1. Fits(L, d, k) /\ k \in Nat /\ J[k] = L[k]
    BY <1>2 DEF Outline
  <2>2. Above(J, k) = Above(L, k)
    <3>1. \A j \in 1 .. (k - 1) : j \in 1 .. l
      BY <1>2
    <3>2. \A j \in 1 .. (k - 1) : J[j] = L[j]
      BY <1>2, <3>1
    <3> QED
      BY <2>1, <3>2 DEF Above
  <2>3. Directory(J, d, k) = Directory(L, d, k)
    <3>1. CASE Above(L, k) = {}
      BY <2>2, <3>1 DEF Directory
    <3>2. CASE Above(L, k) # {}
      <4>1. Max(Above(L, k)) \in 1 .. l
        <5>1. Max(Above(L, k)) \in 1 .. (k - 1)
          BY <2>1, <3>2, AboveIn, AboveOf
        <5> QED
          BY <1>2, <5>1
      <4> QED
        BY <1>2, <2>2, <3>2, <4>1 DEF Directory
    <3> QED
      BY <3>1, <3>2
  <2> QED
    BY <1>5, <2>1, <2>2, <2>3 DEF Fits
<1>7. ASSUME NEW t \in 1 .. m
      PROVE  Fits(J, d, l + t)
  <2>1. Fits(M, d, t) /\ t \in Nat /\ J[l + t] = M[t]
    BY <1>2 DEF Outline
  <2>2. Moved(J, M, l, 0, t)
    <3> SUFFICES ASSUME NEW j \in 1 .. t
                 PROVE  /\ M[j].level \in Nat
                        /\ J[l + j].level = M[j].level + 0
                        /\ J[l + j].inode = M[j].inode
      BY DEF Moved
    <3>1. j \in 1 .. m
      BY <1>2
    <3>2. M[j].level \in Nat /\ J[l + j] = M[j]
      BY <1>1, <1>2, <3>1, LinesOf
    <3> QED
      BY <3>2
  <2>3. CASE Above(M, t) # {}
    <3>1. Above(J, l + t) # {} /\ Directory(J, d, l + t) = Directory(M, d, t)
      <4> DEFINE c == 0
      <4>1. c \in Nat /\ Moved(J, M, l, c, t)
        BY <2>2
      <4> HIDE DEF c
      <4>2. Follows(J, M, l, t)
        BY <1>2, <2>1, <4>1, MovedAbove
      <4> QED
        BY <2>3, <4>2 DEF Follows
    <3> QED
      BY <1>5, <2>1, <3>1 DEF Fits
  <2>4. CASE Above(M, t) = {}
    <3>1. J[l + t].level = 0
      BY <2>1, <2>4 DEF Fits
    <3>2. Above(J, l + t) = {}
      <4>1. \A j \in 1 .. ((l + t) - 1) : j \in DOMAIN J
        BY <1>2
      <4>2. \A j \in DOMAIN J : ~(J[j].level < 0)
        <5>1. \A j \in DOMAIN J : J[j].level \in Nat
          BY <1>2, LinesOf
        <5> QED
          BY <5>1
      <4> QED
        BY <3>1, <4>1, <4>2 DEF Above
    <3>3. Directory(J, d, l + t) = Directory(M, d, t)
      BY <2>4, <3>2 DEF Directory
    <3> QED
      BY <1>5, <2>1, <3>1, <3>3 DEF Fits
  <2> QED
    BY <2>3, <2>4
<1>8. \A k \in DOMAIN J : Fits(J, d, k)
  BY <1>3, <1>6, <1>7
<1> QED
  BY <1>2, <1>5, <1>8 DEF Joined, Outline, J

LEMMA ParentIn ==
  ASSUME NEW d \in Inode, NEW L, Outline(L, d), NEW x \in Inodes(L)
  PROVE  x \in Inode /\ x # Null
         /\ \E y \in Inodes(L) \cup {d}, n \in Name : y \in Inode /\ Child[y][n] = x
<1>1. L \in Seq(Line)
  BY DEF Outline
<1>2. PICK k \in DOMAIN L : L[k].inode = x
  BY InodesOf
<1>3. x # Null /\ Fits(L, d, k)
  BY InodesOf DEF Outline
<1>4. Inodes(L) \subseteq Inode
  BY <1>1, LinesOf
<1> QED
  BY <1>2, <1>3, <1>4 DEF Fits

(* What is listed below different entries of a directory has nothing in    *)
(* common: of an inode in both lists the directory would be in both.       *)
LEMMA NothingCommon ==
  ASSUME TreeFacts, NEW d \in Inode, NEW L, NEW M, NEW S, NEW T, S \cap T = {},
         Part(L, d, S), Part(M, d, T)
  PROVE  Inodes(L) \cap Inodes(M) = {}
<1> DEFINE B == Inodes(L) \cap Inodes(M)
<1> SUFFICES ASSUME B # {} PROVE FALSE
  OBVIOUS
<1>1. Outline(L, d) /\ Outline(M, d) /\ Lists(L, d, S) /\ Lists(M, d, T)
  BY DEF Part
<1>2. Inodes(L) \subseteq Inode /\ Inodes(M) \subseteq Inode
  BY <1>1, LinesOf DEF Outline
<1>3. PICK x \in B : \A y \in B : x <= y
  <2>1. B \subseteq Nat
    BY <1>2 DEF Inode
  <2> HIDE DEF B
  <2> QED
    BY <2>1, Least
<1>4. x \in Inodes(L) /\ x \in Inodes(M) /\ x # Null
  BY <1>1, InodesOf
<1>5. PICK y \in Inodes(L) \cup {d}, n \in Name : y \in Inode /\ Child[y][n] = x
  BY <1>1, <1>4, ParentIn
<1>6. PICK z \in Inodes(M) \cup {d}, m \in Name : z \in Inode /\ Child[z][m] = x
  BY <1>1, <1>4, ParentIn
<1>7. y = z /\ x > y
  BY <1>4, <1>5, <1>6 DEF TreeFacts
<1>8. CASE y = d
  <2>1. PICK q \in Position : Holds(d, q) /\ At(d, q).inode = x
    BY <1>4, <1>5, <1>8 DEF TreeFacts
  <2>2. q \in S /\ q \in T
    BY <1>1, <1>4, <2>1 DEF Lists
  <2> QED
    BY <2>2
<1>9. CASE y # d
  <2>1. y \in B
    BY <1>5, <1>6, <1>7, <1>9
  <2>2. x <= y /\ x \in Nat /\ y \in Nat
    BY <1>2, <1>3, <1>5, <2>1 DEF Inode
  <2> QED
    BY <1>7, <2>2
<1> QED
  BY <1>8, <1>9

LEMMA JoinParts ==
  ASSUME TreeFacts, NEW d \in Inode, NEW L, NEW M, NEW S, NEW T, S \cap T = {},
         Part(L, d, S), Part(M, d, T)
  PROVE  Part(L \o M, d, S \cup T)
<1> DEFINE J == L \o M
           l == Len(L)
           m == Len(M)
<1>1. /\ Outline(L, d) /\ Once(L) /\ Closed(L) /\ Lists(L, d, S)
      /\ Outline(M, d) /\ Once(M) /\ Closed(M) /\ Lists(M, d, T)
      /\ \A x \in Inodes(L) : x > d
      /\ \A x \in Inodes(M) : x > d
  BY DEF Part
<1>2. Outline(J, d) /\ Inodes(J) = Inodes(L) \cup Inodes(M)
  <2>1. Joined(L, M, d)
    BY <1>1, JoinOutline
  <2> QED
    BY <2>1 DEF Joined
<1>3. L \in Seq(Line) /\ M \in Seq(Line)
  BY <1>1 DEF Outline
<1>4. /\ DOMAIN J = 1 .. (l + m) /\ l \in Nat /\ m \in Nat
      /\ \A k \in 1 .. l : J[k] = L[k]
      /\ \A k \in 1 .. m : J[l + k] = M[k]
      /\ DOMAIN L = 1 .. l /\ DOMAIN M = 1 .. m
  BY <1>3, JoinIs, LinesOf
<1> HIDE DEF J, l, m
<1>5. Inodes(L) \cap Inodes(M) = {}
  BY NothingCommon
<1>6. Once(J)
  <2> SUFFICES ASSUME NEW j \in DOMAIN J, NEW k \in DOMAIN J,
                      J[j].inode = J[k].inode, J[k].inode # Null
               PROVE  j = k
    BY DEF Once
  <2>1. ASSUME NEW i \in DOMAIN J
        PROVE  i \in 1 .. l \/ \E t \in 1 .. m : i = l + t
    <3>1. i \notin 1 .. l => i - l \in 1 .. m /\ i = l + (i - l)
      BY <1>4
    <3> QED
      BY <3>1
  <2>2. CASE j \in 1 .. l /\ k \in 1 .. l
    BY <1>1, <1>4, <2>2 DEF Once
  <2>3. CASE (\E t \in 1 .. m : j = l + t) /\ (\E t \in 1 .. m : k = l + t)
    <3>1. PICK t \in 1 .. m : j = l + t
      BY <2>3
    <3>2. PICK u \in 1 .. m : k = l + u
      BY <2>3
    <3>3. M[t].inode = M[u].inode /\ M[u].inode # Null
      BY <1>4, <3>1, <3>2
    <3>4. t = u
      BY <1>1, <1>4, <3>3 DEF Once
    <3> QED
      BY <3>1, <3>2, <3>4
  <2>4. CASE j \in 1 .. l /\ \E t \in 1 .. m : k = l + t
    <3>1. PICK t \in 1 .. m : k = l + t
      BY <2>4
    <3>2. L[j].inode = M[t].inode /\ L[j].inode # Null
      BY <1>4, <2>4, <3>1
    <3>3. L[j].inode \in Inodes(L) /\ M[t].inode \in Inodes(M)
      BY <1>4, <2>4, <3>2, InodesOf
    <3> QED
      BY <1>5, <3>2, <3>3
  <2>5. CASE k \in 1 .. l /\ \E t \in 1 .. m : j = l + t
    <3>1. PICK t \in 1 .. m : j = l + t
      BY <2>5
    <3>2. L[k].inode = M[t].inode /\ L[k].inode # Null
      BY <1>4, <2>5, <3>1
    <3>3. L[k].inode \in Inodes(L) /\ M[t].inode \in Inodes(M)
      BY <1>4, <2>5, <3>2, InodesOf
    <3> QED
      BY <1>5, <3>2, <3>3
  <2> QED
    BY <2>1, <2>2, <2>3, <2>4, <2>5
<1>7. Closed(J)
  BY <1>1, <1>2 DEF Closed
<1>8. Lists(J, d, S \cup T)
  BY <1>1, <1>2 DEF Lists
<1>9. \A x \in Inodes(J) : x > d
  BY <1>1, <1>2
<1> QED
  BY <1>2, <1>6, <1>7, <1>8, <1>9 DEF Part, J

(* An entry that has no inode, or is not taken, adds nothing.              *)
LEMMA PartNothing ==
  ASSUME NEW d, NEW S, \A q \in S : Holds(d, q) => At(d, q).inode = Null
  PROVE  Part(<<>>, d, S)
<1>1. <<>> \in Seq(Line) /\ DOMAIN <<>> = {}
  OBVIOUS
<1>2. Inodes(<<>>) = {}
  BY <1>1 DEF Inodes
<1> QED
  BY <1>1, <1>2 DEF Part, Outline, Once, Closed, Lists

LEMMA PartNull ==
  ASSUME NEW d, NEW S, \A q \in S : Holds(d, q) => At(d, q).inode = Null,
         NEW h \in Line, h.level = 0, h.inode = Null
  PROVE  Part(<<h>>, d, S)
<1> DEFINE L == <<h>>
<1>1. L \in Seq(Line) /\ DOMAIN L = {1} /\ L[1] = h
  OBVIOUS
<1> HIDE DEF L
<1>2. Inodes(L) = {}
  BY <1>1 DEF Inodes
<1>3. Outline(L, d)
  BY <1>1 DEF Outline, Fits
<1> QED
  BY <1>1, <1>2, <1>3 DEF Part, Once, Closed, Lists, L

LEMMA DeeperIs ==
  ASSUME NEW T \in Seq(Line)
  PROVE  /\ Deeper(T) \in Seq(Line) /\ Len(Deeper(T)) = Len(T)
         /\ \A k \in 1 .. Len(T) : /\ Deeper(T)[k].level = T[k].level + 1
                                   /\ Deeper(T)[k].name = T[k].name
                                   /\ Deeper(T)[k].inode = T[k].inode
<1>1. /\ Len(T) \in Nat /\ DOMAIN T = 1 .. Len(T)
      /\ \A k \in 1 .. Len(T) : T[k] \in Line
  OBVIOUS
<1>2. ASSUME NEW v \in Line
      PROVE  LET w == [v EXCEPT !.level = @ + 1]
             IN w \in Line /\ w.level = v.level + 1 /\ w.name = v.name /\ w.inode = v.inode
  BY DEF Line
<1> DEFINE D == [k \in 1 .. Len(T) |-> [T[k] EXCEPT !.level = @ + 1]]
<1>3. Deeper(T) = D
  BY <1>1 DEF Deeper
<1>4. \A k \in 1 .. Len(T) : D[k] \in Line /\ D[k].level = T[k].level + 1
                             /\ D[k].name = T[k].name /\ D[k].inode = T[k].inode
  BY <1>1, <1>2
<1>5. D \in Seq(Line) /\ Len(D) = Len(T)
  <2>1. D \in [1 .. Len(T) -> Line]
    BY <1>4
  <2> HIDE DEF D
  <2> QED
    BY <1>1, <2>1
<1> QED
  BY <1>3, <1>4, <1>5

(* A directory's line and behind it, one level deeper, what it contains.   *)
LEMMA PartBelow ==
  ASSUME TreeFacts, NEW d \in Inode, NEW p \in Position, Holds(d, p),
         At(d, p).inode # Null,
         NEW T, Part(T, At(d, p).inode, Position)
  PROVE  Part(<<[level |-> 0, name |-> At(d, p).name, inode |-> At(d, p).inode]>>
                \o Deeper(T), d, {p})
<1> DEFINE c == At(d, p).inode
           h == [level |-> 0, name |-> At(d, p).name, inode |-> c]
           D == Deeper(T)
           J == <<h>> \o D
           m == Len(T)
<1>1. /\ At(d, p).name \in Name /\ Child[d][At(d, p).name] = c
      /\ c \in Inode /\ c # Null /\ c > d /\ c \in Place
  BY DEF TreeFacts, Place
<1>2. /\ Outline(T, c) /\ Once(T) /\ Closed(T) /\ Lists(T, c, Position)
      /\ \A x \in Inodes(T) : x > c
  BY DEF Part
<1>3. h \in Line /\ h.level = 0 /\ h.name = At(d, p).name /\ h.inode = c
  BY <1>1 DEF Line
<1>4. /\ T \in Seq(Line) /\ m \in Nat /\ DOMAIN T = 1 .. m
      /\ Inodes(T) \subseteq Inode
      /\ \A k \in 1 .. m : T[k].level \in Nat
  BY <1>2, LinesOf DEF Outline
<1>5. /\ D \in Seq(Line) /\ Len(D) = m
      /\ \A k \in 1 .. m : /\ D[k].level = T[k].level + 1
                           /\ D[k].name = T[k].name /\ D[k].inode = T[k].inode
  BY <1>4, DeeperIs
<1> HIDE DEF h, D, m, c
<1>6. /\ J \in Seq(Line) /\ DOMAIN J = 1 .. (1 + m) /\ J[1] = h
      /\ \A k \in 1 .. m : J[1 + k] = D[k]
  <2> DEFINE H == <<h>>
  <2>1. H \in Seq(Line) /\ Len(H) = 1 /\ H[1] = h
    BY <1>3
  <2> HIDE DEF H
  <2>2. /\ H \o D \in Seq(Line) /\ DOMAIN (H \o D) = 1 .. (Len(H) + Len(D))
        /\ \A k \in 1 .. Len(H) : (H \o D)[k] = H[k]
        /\ \A k \in 1 .. Len(D) : (H \o D)[Len(H) + k] = D[k]
    BY <1>5, <2>1, JoinLines
  <2>3. (H \o D)[1] = h
    <3>1. 1 \in 1 .. Len(H)
      BY <2>1
    <3> QED
      BY <2>1, <2>2, <3>1
  <2> QED
    BY <1>5, <2>1, <2>2, <2>3 DEF H, J
<1> HIDE DEF J
<1>7. ASSUME NEW k \in DOMAIN J
      PROVE  k = 1 \/ \E t \in 1 .. m : k = 1 + t
  <2>1. k # 1 => k - 1 \in 1 .. m /\ k = 1 + (k - 1)
    BY <1>4, <1>6
  <2> QED
    BY <2>1
<1>8. 1 \in DOMAIN J /\ \A t \in 1 .. m : 1 + t \in DOMAIN J
  BY <1>4, <1>6
<1>9. \A x : x \in Inodes(J) <=> x = c \/ x \in Inodes(T)
  <2>1. ASSUME NEW x \in Inodes(J)
        PROVE  x = c \/ x \in Inodes(T)
    <3>1. PICK k \in DOMAIN J : x # Null /\ J[k].inode = x
      BY InodesOf
    <3>2. CASE k = 1
      BY <1>3, <1>6, <3>1, <3>2
    <3>3. CASE \E t \in 1 .. m : k = 1 + t
      <4>1. PICK t \in 1 .. m : k = 1 + t
        BY <3>3
      <4>2. T[t].inode = x /\ t \in DOMAIN T
        BY <1>4, <1>5, <1>6, <3>1, <4>1
      <4> QED
        BY <3>1, <4>2, InodesOf
    <3> QED
      BY <1>7, <3>2, <3>3
  <2>2. c \in Inodes(J)
    BY <1>1, <1>3, <1>6, <1>8, InodesOf
  <2>3. ASSUME NEW x \in Inodes(T)
        PROVE  x \in Inodes(J)
    <3>1. PICK t \in DOMAIN T : x # Null /\ T[t].inode = x
      BY InodesOf
    <3>2. t \in 1 .. m /\ J[1 + t].inode = x /\ 1 + t \in DOMAIN J
      BY <1>4, <1>5, <1>6, <1>8, <3>1
    <3> QED
      BY <3>1, <3>2, InodesOf
  <2> QED
    BY <2>1, <2>2, <2>3
<1>10. Fits(J, d, 1)
  <2>1. Above(J, 1) = {}
    BY DEF Above
  <2> QED
    BY <1>1, <1>3, <1>6, <2>1 DEF Fits, Directory
<1>11. ASSUME NEW t \in 1 .. m
       PROVE  Fits(J, d, 1 + t)
  <2>1. Fits(T, c, t) /\ t \in Nat
    BY <1>2, <1>4 DEF Outline
  <2>2. /\ J[1 + t].level = T[t].level + 1 /\ J[1 + t].name = T[t].name
        /\ J[1 + t].inode = T[t].inode
    BY <1>5, <1>6
  <2>3. Above(J, 1 + t) # {} /\ Directory(J, d, 1 + t) = Directory(T, c, t)
    <3>1. CASE Above(T, t) # {}
      <4>1. ASSUME NEW j \in 1 .. t
            PROVE  /\ T[j].level \in Nat
                   /\ J[1 + j].level = T[j].level + 1
                   /\ J[1 + j].inode = T[j].inode
        <5>1. j \in 1 .. m
          BY <1>4
        <5> QED
          BY <1>4, <1>5, <1>6, <5>1
      <4> DEFINE one == 1
      <4>2. one \in Nat /\ Moved(J, T, one, one, t)
        BY <4>1 DEF Moved
      <4> HIDE DEF one
      <4>3. Follows(J, T, one, t)
        BY <2>1, <4>2, MovedAbove
      <4> QED
        BY <3>1, <4>3 DEF Follows, one
    <3>2. CASE Above(T, t) = {}
      <4>1. J[1 + t].level = 1
        BY <2>1, <2>2, <3>2 DEF Fits
      <4>2. \A j \in 2 .. t : ~(J[j].level < 1)
        <5> TAKE j \in 2 .. t
        <5>1. j - 1 \in 1 .. m /\ j = 1 + (j - 1)
          BY <1>4
        <5>2. PICK i \in 1 .. m : j = 1 + i
          BY <5>1
        <5>3. J[j].level = T[i].level + 1 /\ T[i].level \in Nat
          BY <1>4, <1>5, <1>6, <5>2
        <5> QED
          BY <5>3
      <4>3. Above(J, 1 + t) = {1}
        <5>1. \A j \in 1 .. ((1 + t) - 1) : j = 1 \/ j \in 2 .. t
          BY <2>1
        <5>2. 1 \in 1 .. ((1 + t) - 1) /\ J[1].level < J[1 + t].level
          BY <1>3, <1>6, <4>1
        <5>3. \A j \in 1 .. ((1 + t) - 1) : J[j].level < J[1 + t].level => j = 1
          BY <4>1, <4>2, <5>1
        <5> QED
          BY <5>2, <5>3 DEF Above
      <4>4. Max({1}) = 1
        <5>1. {1} \subseteq Nat /\ 1 \in {1} /\ \A j \in {1} : j <= 1
          OBVIOUS
        <5> QED
          BY <5>1, MaxIs
      <4> QED
        BY <1>3, <1>6, <3>2, <4>3, <4>4 DEF Directory
    <3> QED
      BY <3>1, <3>2
  <2> QED
    BY <1>9, <2>1, <2>2, <2>3 DEF Fits
<1>12. Outline(J, d)
  BY <1>6, <1>7, <1>10, <1>11 DEF Outline
<1>13. c \notin Inodes(T)
  BY <1>1, <1>2 DEF Inode
<1>14. Once(J)
  <2> SUFFICES ASSUME NEW j \in DOMAIN J, NEW k \in DOMAIN J,
                      J[j].inode = J[k].inode, J[k].inode # Null
               PROVE  j = k
    BY DEF Once
  <2>1. ASSUME NEW t \in 1 .. m, J[1 + t].inode # Null
        PROVE  T[t].inode = J[1 + t].inode /\ T[t].inode \in Inodes(T)
    BY <1>4, <1>5, <1>6, <2>1, InodesOf
  <2>2. J[1].inode = c
    BY <1>3, <1>6
  <2>3. CASE j = 1 /\ k # 1
    BY <1>7, <1>13, <2>1, <2>2, <2>3
  <2>4. CASE j # 1 /\ k = 1
    BY <1>7, <1>13, <2>1, <2>2, <2>4
  <2>5. CASE j # 1 /\ k # 1
    <3>1. PICK t \in 1 .. m : j = 1 + t
      BY <1>7, <2>5
    <3>2. PICK u \in 1 .. m : k = 1 + u
      BY <1>7, <2>5
    <3>3. T[t].inode = T[u].inode /\ T[u].inode # Null
      BY <2>1, <3>1, <3>2
    <3>4. t = u
      BY <1>2, <1>4, <3>3 DEF Once
    <3> QED
      BY <3>1, <3>2, <3>4
  <2> QED
    BY <2>3, <2>4, <2>5
<1>15. Closed(J)
  <2> SUFFICES ASSUME NEW x \in Inodes(J), NEW n \in Name, Child[x][n] # Null
               PROVE  Child[x][n] \in Inodes(J)
    BY DEF Closed
  <2>1. CASE x \in Inodes(T)
    BY <1>2, <1>9, <2>1 DEF Closed
  <2>2. CASE x = c
    <3>1. PICK q \in Position : Holds(c, q) /\ At(c, q).inode = Child[c][n]
      BY <1>1, <2>2 DEF TreeFacts
    <3>2. Child[c][n] \in Inodes(T)
      BY <1>2, <2>2, <3>1 DEF Lists
    <3> QED
      BY <1>9, <2>2, <3>2
  <2> QED
    BY <1>9, <2>1, <2>2
<1>16. Lists(J, d, {p})
  <2> SUFFICES ASSUME NEW q \in Position, Holds(d, q), At(d, q).inode # Null
               PROVE  At(d, q).inode \in Inodes(J) <=> q \in {p}
    BY DEF Lists
  <2>1. /\ At(d, q).name \in Name /\ Child[d][At(d, q).name] = At(d, q).inode
    BY DEF TreeFacts
  <2>2. At(d, q).inode = c <=> q = p
    BY <1>1 DEF TreeFacts, c
  <2>3. At(d, q).inode \notin Inodes(T)
    <3> SUFFICES ASSUME At(d, q).inode \in Inodes(T) PROVE FALSE
      OBVIOUS
    <3> DEFINE x == At(d, q).inode
    <3>1. PICK y \in Inodes(T) \cup {c}, n \in Name : y \in Inode /\ Child[y][n] = x
      BY <1>1, <1>2, ParentIn
    <3>2. y = d
      BY <2>1, <3>1 DEF TreeFacts
    <3>3. d > c \/ d = c
      BY <1>2, <3>1, <3>2
    <3> QED
      BY <1>1, <3>3 DEF Inode
  <2> QED
    BY <1>9, <2>2, <2>3
<1>17. \A x \in Inodes(J) : x > d
  <2>1. ASSUME NEW x \in Inodes(T)
        PROVE  x > d
    <3>1. x > c /\ x \in Int /\ c \in Int /\ d \in Int
      BY <1>1, <1>2, <1>4 DEF Inode
    <3> QED
      BY <1>1, <3>1
  <2> QED
    BY <1>1, <1>9, <2>1
<1> QED
  BY <1>12, <1>14, <1>15, <1>16, <1>17 DEF Part, J, h, D, c

(* The lists of n entries or blocks of a directory, flattened.             *)
Apart(S, n) == \A i, j \in 1 .. n : i # j => S[i] \cap S[j] = {}
Union(S, k) == UNION {S[j] : j \in 1 .. k}
Parts(g, d, S, n) == \A k \in 1 .. n : Part(g[k], d, S[k])

LEMMA UnionSteps ==
  ASSUME NEW S, NEW n \in Nat, Apart(S, n), NEW k \in 0 .. (n - 1)
  PROVE  /\ Union(S, 0) = {}
         /\ Union(S, k + 1) = Union(S, k) \cup S[k + 1]
         /\ Union(S, k) \cap S[k + 1] = {}
<1>1. 1 .. 0 = {} /\ 1 .. (k + 1) = (1 .. k) \cup {k + 1}
  OBVIOUS
<1>2. ASSUME NEW j \in 1 .. k
      PROVE  S[j] \cap S[k + 1] = {}
  <2>1. j \in 1 .. n /\ k + 1 \in 1 .. n /\ j # k + 1
    OBVIOUS
  <2> QED
    BY <2>1 DEF Apart
<1>3. Union(S, k) \cap S[k + 1] = {}
  BY <1>2 DEF Union
<1>4. Union(S, 0) = {}
  BY <1>1 DEF Union
<1>5. Union(S, k + 1) = Union(S, k) \cup S[k + 1]
  BY <1>1 DEF Union
<1> QED
  BY <1>3, <1>4, <1>5

LEMMA FlattenParts ==
  ASSUME TreeFacts, NEW d \in Inode, NEW n \in Nat, n >= 1, NEW g, NEW S,
         g = [k \in 1 .. n |-> g[k]], Parts(g, d, S, n), Apart(S, n)
  PROVE  Part(FlattenSeq(g), d, Union(S, n))
<1>1. ASSUME NEW k \in 1 .. n
      PROVE  g[k] \in Seq(Line)
  BY DEF Parts, Part, Outline
<1>2. g \in Seq(Seq(Line)) /\ Len(g) = n
  <2>1. g \in [1 .. n -> Seq(Line)]
    BY <1>1
  <2> QED
    BY <2>1
<1>3. PICK a \in [0 .. n -> Seq(Line)] :
        /\ a[0] = <<>>
        /\ \A k \in 1 .. n : a[k] = a[k - 1] \o g[k]
        /\ FlattenSeq(g) = a[n]
  BY <1>2, FlattenSteps
<1> DEFINE P == {k \in 0 .. n : Part(a[k], d, Union(S, k))}
<1>4. 0 \in P
  <2>1. 0 \in 0 .. (n - 1) /\ 0 \in 0 .. n
    OBVIOUS
  <2>2. Union(S, 0) = {}
    BY <2>1, UnionSteps
  <2>3. \A q \in {} : Holds(d, q) => At(d, q).inode = Null
    OBVIOUS
  <2>4. Part(<<>>, d, {})
    BY <2>3, PartNothing
  <2> QED
    BY <1>3, <2>1, <2>2, <2>4
<1>5. ASSUME NEW k \in 0 .. (n - 1), k \in P
      PROVE  k + 1 \in P
  <2>1. k + 1 \in 1 .. n /\ k + 1 \in 0 .. n /\ (k + 1) - 1 = k
    OBVIOUS
  <2>2. Part(a[k], d, Union(S, k)) /\ Part(g[k + 1], d, S[k + 1])
    BY <1>5, <2>1 DEF Parts
  <2>3. /\ Union(S, k + 1) = Union(S, k) \cup S[k + 1]
        /\ Union(S, k) \cap S[k + 1] = {}
    BY UnionSteps
  <2>4. Part(a[k] \o g[k + 1], d, Union(S, k) \cup S[k + 1])
    BY <2>2, <2>3, JoinParts
  <2>5. a[k + 1] = a[k] \o g[k + 1]
    BY <1>3, <2>1
  <2>6. Part(a[k + 1], d, Union(S, k + 1))
    BY <2>3, <2>4, <2>5
  <2> QED
    BY <2>1, <2>6
<1>6. n \in P
  <2>1. n \in 0 .. n
    OBVIOUS
  <2> HIDE DEF P
  <2> QED
    BY <1>4, <1>5, <2>1, Ind
<1> QED
  BY <1>3, <1>6

(* print_fs_tree, with f for what it prints of the directories below.      *)
LinesAt(f, d, p) ==
  LET e == ent[blocks[d][p[1]]][p[2]]
  IN IF Listed(d, p)
     THEN <<[level |-> 0, name |-> e.name, inode |-> e.inode]>>
            \o (IF e.inode # Null /\ mode[e.inode] = "dir"
                THEN Deeper(f[e.inode]) ELSE <<>>)
     ELSE <<>>

Row(f, d, k) == [s \in Slot |-> LinesAt(f, d, <<k, s>>)]
Body(f, d) == FlattenSeq([k \in Link |-> FlattenSeq(Row(f, d, k))])
Printer(f) == f = [d \in Inode |-> Body(f, d)]

Agree(f, g, d) == \A c \in Inode : c > d => f[c] = g[c]

LEMMA BodyLocal ==
  ASSUME TreeFacts, NEW f, NEW g, NEW d \in Inode, Agree(f, g, d)
  PROVE  Body(f, d) = Body(g, d)
<1>1. ASSUME NEW p \in Position
      PROVE  LinesAt(f, d, p) = LinesAt(g, d, p)
  <2> DEFINE c == At(d, p).inode
  <2>1. CASE Listed(d, p) /\ c # Null
    <3>1. Holds(d, p)
      BY <2>1 DEF Listed, Holds, Free
    <3>2. c \in Inode /\ c > d
      BY <2>1, <3>1 DEF TreeFacts, Place
    <3>3. f[c] = g[c]
      BY <3>2 DEF Agree
    <3> QED
      BY <3>3 DEF LinesAt, At
  <2>2. CASE ~(Listed(d, p) /\ c # Null)
    BY <2>2 DEF LinesAt, At
  <2> QED
    BY <2>1, <2>2
<1>2. ASSUME NEW k \in Link
      PROVE  Row(f, d, k) = Row(g, d, k)
  <2>1. \A s \in Slot : <<k, s>> \in Position
    BY DEF Position
  <2>2. \A s \in Slot : LinesAt(f, d, <<k, s>>) = LinesAt(g, d, <<k, s>>)
    BY <1>1, <2>1
  <2> QED
    BY <2>2 DEF Row
<1> QED
  BY <1>2 DEF Body

(* The tree of each directory is what print_fs_tree is: there is a         *)
(* function that calls itself as it does, from the last inode down.        *)
LEMMA PrinterIs ==
  ASSUME TreeFacts
  PROVE  Printer(print_fs_tree)
<1> DEFINE From(f, k) == \A d \in Inode : d > INODES - k => f[d] = Body(f, d)
           P == {k \in 0 .. INODES : \E f : From(f, k)}
<1>1. INODES \in Nat
  BY FilesAssumption
<1>2. 0 \in P
  <2>1. 0 \in 0 .. INODES /\ \A d \in Inode : ~(d > INODES - 0)
    BY <1>1 DEF Inode
  <2> QED
    BY <2>1
<1>3. ASSUME NEW k \in 0 .. (INODES - 1), k \in P
      PROVE  k + 1 \in P
  <2>1. PICK f : From(f, k)
    BY <1>3
  <2> DEFINE e == INODES - k
             g == [d \in Inode |-> IF d = e THEN Body(f, e) ELSE f[d]]
  <2>2. k + 1 \in 0 .. INODES /\ e \in Inode
    BY <1>1 DEF Inode
  <2>3. \A d \in Inode : d > INODES - (k + 1) => d = e \/ d > e
    BY <1>1 DEF Inode
  <2>4. \A d \in Inode : d > e => d # e /\ d > INODES - k
    BY <1>1 DEF Inode
  <2>5. g[e] = Body(f, e) /\ \A d \in Inode : d > e => g[d] = f[d]
    BY <2>2, <2>4
  <2>6. \A d \in Inode : d > e => f[d] = Body(f, d)
    BY <2>1, <2>4
  <2>7. e \in Int /\ \A d \in Inode : d \in Int
    BY <2>2 DEF Inode
  <2> HIDE DEF g, e
  <2>8. ASSUME NEW d \in Inode, d = e \/ d > e
        PROVE  Body(g, d) = Body(f, d)
    <3>1. \A c \in Inode : c > d => c > e
      BY <2>7, <2>8
    <3>2. Agree(g, f, d)
      BY <2>5, <3>1 DEF Agree
    <3> QED
      BY <3>2, BodyLocal
  <2>9. \A d \in Inode : d = e \/ d > e => g[d] = Body(g, d)
    BY <2>5, <2>6, <2>8
  <2>10. From(g, k + 1)
    BY <2>3, <2>9
  <2> HIDE DEF From
  <2> QED
    BY <2>2, <2>10
<1>4. INODES \in P
  <2>1. INODES \in 0 .. INODES
    BY <1>1
  <2> HIDE DEF P
  <2> QED
    BY <1>1, <1>2, <1>3, <2>1, Ind
<1>5. PICK f : From(f, INODES)
  BY <1>4
<1>6. \E g : Printer(g)
  <2> DEFINE g == [d \in Inode |-> f[d]]
  <2>1. \A d \in Inode : d > INODES - INODES
    BY <1>1 DEF Inode
  <2>2. \A d \in Inode : f[d] = Body(f, d) /\ g[d] = f[d]
    BY <1>5, <2>1
  <2>3. g = [d \in Inode |-> g[d]]
    OBVIOUS
  <2> HIDE DEF g
  <2>4. \A d \in Inode : Body(g, d) = Body(f, d)
    BY <2>2, BodyLocal DEF Agree
  <2>5. Printer(g)
    BY <2>2, <2>3, <2>4 DEF Printer
  <2> QED
    BY <2>5
<1> DEFINE G == CHOOSE g : Printer(g)
<1>7. Printer(G)
  BY <1>6
<1>8. print_fs_tree = G
  BY DEF print_fs_tree, Printer, Body, Row, LinesAt
<1> HIDE DEF G
<1> QED
  BY <1>7, <1>8

LEMMA LinesPart ==
  ASSUME IInv, LastFree, TreeFacts, NEW f, NEW d \in Inode, NEW p \in Position,
         \A c \in Inode : c > d => Part(f[c], c, Position)
  PROVE  Part(LinesAt(f, d, p), d, {p})
<1> DEFINE c == At(d, p).inode
           h == [level |-> 0, name |-> At(d, p).name, inode |-> c]
           T == IF c # Null /\ mode[c] = "dir" THEN Deeper(f[c]) ELSE <<>>
<1>1. LinesAt(f, d, p) = IF Listed(d, p) THEN <<h>> \o T ELSE <<>>
  BY DEF LinesAt, At
<1>2. CASE ~Listed(d, p)
  <2>1. ~Holds(d, p)
    <3> SUFFICES ASSUME Holds(d, p) PROVE FALSE
      OBVIOUS
    <3>1. p[1] \in Link /\ blocks[d][p[1]] # Null /\ At(d, p) # Free
      BY EntryOf DEF Holds
    <3>2. p[2] # SLOTS
      BY <3>1 DEF LastFree, At
    <3> QED
      BY <1>2, <3>1, <3>2 DEF Listed, Taken, At
  <2> HIDE DEF c
  <2>2. \A q \in {p} : Holds(d, q) => At(d, q).inode = Null
    BY <2>1
  <2>3. Part(<<>>, d, {p})
    BY <2>2, PartNothing
  <2> QED
    BY <1>1, <1>2, <2>3
<1>3. CASE Listed(d, p)
  <2>1. blocks[d][p[1]] # Null /\ LinesAt(f, d, p) = <<h>> \o T
    BY <1>1, <1>3 DEF Listed
  <2>2. At(d, p) \in Entry
    BY <2>1, EntryOf
  <2>3. h \in Line /\ h.level = 0 /\ h.inode = c
    BY <2>2 DEF Line, Entry, Place
  <2>4. CASE c = Null
    <3>1. \A q \in {p} : Holds(d, q) => At(d, q).inode = Null
      BY <2>4
    <3>2. T = <<>>
      BY <2>4
    <3> HIDE DEF h, T, c
    <3>3. Part(<<h>>, d, {p})
      BY <2>3, <2>4, <3>1, PartNull
    <3>4. <<h>> \o <<>> = <<h>>
      <4>1. <<h>> \in Seq(Line)
        BY <2>3
      <4> QED
        BY <4>1
    <3> QED
      BY <2>1, <3>2, <3>3, <3>4
  <2>5. CASE c # Null
    <3>1. Holds(d, p)
      BY <2>1, <2>5 DEF Holds, Free
    <3>2. c \in Inode /\ c > d
      BY <2>5, <3>1 DEF TreeFacts, Place
    <3>3. CASE mode[c] = "dir"
      <4>1. Part(f[c], c, Position)
        BY <3>2
      <4>2. Part(<<h>> \o Deeper(f[c]), d, {p})
        BY <2>5, <3>1, <4>1, PartBelow
      <4>3. T = Deeper(f[c])
        BY <2>5, <3>3
      <4> HIDE DEF T, h, c
      <4> QED
        BY <2>1, <4>2, <4>3
    <3>4. CASE mode[c] # "dir"
      <4>1. ASSUME NEW q \in Position
            PROVE  ~Holds(c, q)
        <5>1. q[1] \in Link
          BY PositionOrder
        <5> QED
          BY <3>2, <3>4, <5>1 DEF IInv, Created, Holds
      <4>2. Part(<<>>, c, Position)
        BY <4>1, PartNothing
      <4>3. Part(<<h>> \o Deeper(<<>>), d, {p})
        BY <2>5, <3>1, <4>2, PartBelow
      <4>4. Deeper(<<>>) = <<>>
        BY DEF Deeper
      <4>5. T = <<>>
        BY <3>4
      <4> HIDE DEF T, h, c
      <4> QED
        BY <2>1, <4>3, <4>4, <4>5
    <3> QED
      BY <3>3, <3>4
  <2> QED
    BY <2>4, <2>5
<1> QED
  BY <1>2, <1>3

LEMMA BodyPart ==
  ASSUME IInv, LastFree, TreeFacts, NEW f, NEW d \in Inode,
         \A c \in Inode : c > d => Part(f[c], c, Position)
  PROVE  Part(Body(f, d), d, Position)
<1>1. SLOTS \in Nat /\ SLOTS >= 1 /\ LINKS \in Nat /\ LINKS >= 1
  BY FilesAssumption
<1>2. ASSUME NEW k \in Link
      PROVE  Part(FlattenSeq(Row(f, d, k)), d, {k} \X Slot)
  <2> DEFINE S == [s \in Slot |-> {<<k, s>>}]
             g == Row(f, d, k)
  <2>1. ASSUME NEW s \in Slot
        PROVE  Part(g[s], d, S[s])
    <3>1. <<k, s>> \in Position
      BY DEF Position
    <3>2. Part(LinesAt(f, d, <<k, s>>), d, {<<k, s>>})
      BY <3>1, LinesPart
    <3> QED
      BY <3>2 DEF Row
  <2>2. Parts(g, d, S, SLOTS)
    BY <2>1 DEF Parts, Slot
  <2>3. Apart(S, SLOTS)
    BY DEF Apart, Slot
  <2>4. Union(S, SLOTS) = {k} \X Slot
    <3>1. \A q : q \in Union(S, SLOTS) <=> \E s \in Slot : q = <<k, s>>
      BY DEF Union, Slot
    <3> QED
      BY <3>1
  <2>5. g = [s \in 1 .. SLOTS |-> g[s]]
    BY DEF Row, Slot
  <2> HIDE DEF g, S
  <2>6. Part(FlattenSeq(g), d, Union(S, SLOTS))
    BY <1>1, <2>2, <2>3, <2>5, FlattenParts
  <2> QED
    BY <2>4, <2>6 DEF g
<1> DEFINE S == [k \in Link |-> {k} \X Slot]
           g == [k \in Link |-> FlattenSeq(Row(f, d, k))]
<1>3. Parts(g, d, S, LINKS)
  BY <1>2 DEF Parts, Link
<1>4. Apart(S, LINKS)
  BY DEF Apart, Link
<1>5. Union(S, LINKS) = Position
  <2>1. \A q : q \in Union(S, LINKS) <=> \E k \in Link : q \in {k} \X Slot
    BY DEF Union, Link
  <2> QED
    BY <2>1 DEF Position
<1>6. g = [k \in 1 .. LINKS |-> g[k]]
  BY DEF Link
<1>7. Body(f, d) = FlattenSeq(g)
  BY DEF Body
<1> HIDE DEF g, S
<1>8. Part(FlattenSeq(g), d, Union(S, LINKS))
  BY <1>1, <1>3, <1>4, <1>6, FlattenParts
<1> QED
  BY <1>5, <1>7, <1>8

(* What is printed of each directory, from the last one up.                *)
LEMMA TreePart ==
  ASSUME IInv, LastFree, TreeFacts
  PROVE  \A d \in Inode : Part(print_fs_tree[d], d, Position)
<1> DEFINE f == print_fs_tree
           P == {k \in 0 .. INODES :
                   \A d \in Inode : d > INODES - k => Part(f[d], d, Position)}
<1>1. INODES \in Nat
  BY FilesAssumption
<1>2. \A d \in Inode : f[d] = Body(f, d)
  BY PrinterIs DEF Printer
<1> HIDE DEF f
<1>3. 0 \in P
  BY <1>1 DEF Inode
<1>4. ASSUME NEW k \in 0 .. (INODES - 1), k \in P
      PROVE  k + 1 \in P
  <2>1. k + 1 \in 0 .. INODES
    BY <1>1
  <2>2. ASSUME NEW d \in Inode, d > INODES - (k + 1)
        PROVE  Part(f[d], d, Position)
    <3>1. \A c \in Inode : c > d => c > INODES - k
      BY <1>1, <2>2 DEF Inode
    <3>2. \A c \in Inode : c > d => Part(f[c], c, Position)
      BY <1>4, <3>1
    <3>3. Part(Body(f, d), d, Position)
      BY <3>2, BodyPart
    <3> QED
      BY <1>2, <3>3
  <2> QED
    BY <2>1, <2>2
<1>5. INODES \in P
  <2>1. INODES \in 0 .. INODES
    BY <1>1
  <2> HIDE DEF P
  <2> QED
    BY <1>1, <1>3, <1>4, <2>1, Ind
<1>6. \A d \in Inode : d > INODES - INODES
  BY <1>1 DEF Inode
<1> QED
  BY <1>5, <1>6 DEF f
(* Every inode that was created has an entry somewhere, but for the root.  *)
Reached ==
  \A i \in Inode : mode[i] # "none" /\ i # root =>
    \E d \in Inode, n \in Name : Child[d][n] = i

LEMMA Shows ==
  ASSUME IInv, Named, Distinct, LastFree, Reached
  PROVE  TreeShows
<1> DEFINE L == print_fs_tree[root]
           Lost == {i \in Inode : i # root /\ mode[i] # "none" /\ i \notin Inodes(L)}
<1>1. TreeFacts /\ root \in Inode
  BY TreeIsTree DEF IInv, TypeOK
<1>2. Part(L, root, Position)
  BY <1>1, TreePart
<1> HIDE DEF L
<1>3. /\ Outline(L, root) /\ Once(L) /\ Closed(L) /\ Lists(L, root, Position)
  BY <1>2 DEF Part
<1>4. Lost = {}
  <2> SUFFICES ASSUME Lost # {} PROVE FALSE
    OBVIOUS
  <2>1. PICK i \in Lost : \A j \in Lost : i <= j
    <3>1. Lost \subseteq Nat
      BY DEF Inode
    <3> HIDE DEF Lost
    <3> QED
      BY <3>1, Least
  <2>2. i \in Inode /\ i # Null
    BY DEF Inode, Null
  <2>3. PICK d \in Inode, n \in Name : Child[d][n] = i
    BY <2>1 DEF Reached
  <2>4. i > d /\ mode[d] = "dir"
    BY <1>1, <2>2, <2>3 DEF TreeFacts
  <2>5. CASE d = root
    <3>1. PICK q \in Position : Holds(d, q) /\ At(d, q).inode = i
      BY <1>1, <2>2, <2>3 DEF TreeFacts
    <3>2. i \in Inodes(L)
      BY <1>3, <2>2, <2>5, <3>1 DEF Lists
    <3> QED
      BY <2>1, <3>2
  <2>6. CASE d # root
    <3>1. d \notin Lost
      BY <2>1, <2>2, <2>4 DEF Inode
    <3>2. d \in Inodes(L)
      BY <2>4, <2>6, <3>1
    <3>3. i \in Inodes(L)
      BY <1>3, <2>2, <2>3, <3>2 DEF Closed
    <3> QED
      BY <2>1, <3>3
  <2> QED
    BY <2>5, <2>6
<1>5. ASSUME NEW i \in Inode \ {root}, mode[i] # "none"
      PROVE  /\ \E k \in DOMAIN L : L[k].inode = i /\ Child[Directory(L, root, k)][L[k].name] = i
             /\ \A j, k \in DOMAIN L : L[j].inode = i /\ L[k].inode = i => j = k
  <2>1. i \in Inodes(L) /\ i # Null
    BY <1>4, <1>5 DEF Inode, Null
  <2>2. PICK k \in DOMAIN L : L[k].inode = i
    BY <2>1, InodesOf
  <2>3. Child[Directory(L, root, k)][L[k].name] = i
    BY <1>3, <2>1, <2>2 DEF Outline, Fits
  <2>4. \A j, m \in DOMAIN L : L[j].inode = i /\ L[m].inode = i => j = m
    BY <1>3, <2>1 DEF Once
  <2> QED
    BY <2>2, <2>3, <2>4
<1> QED
  BY <1>5 DEF TreeShows, Directory, Above, L

(* A new name leads to what is created with it.                            *)
LEMMA GrowsReached ==
  ASSUME IInv, Reached, NEW d \in Inode, NEW n, NEW k, Grows(d, n, k), root' = root
  PROVE  Reached'
<1>1. PICK i \in Place :
        /\ n \in Name /\ Child[d][n] = Null
        /\ Child' = [Child EXCEPT ![d][n] = i]
        /\ i = Null => mode' = mode
        /\ i # Null => mode' = [mode EXCEPT ![i] = k]
  BY DEF Grows
<1>2. PICK c : c = Child
  OBVIOUS
<1>3. c \in [Inode -> [Name -> Place]]
  BY <1>2, LookupPlace DEF Child, IInv
<1> DEFINE e == [c EXCEPT ![d][n] = i]
<1>4. e[d][n] = i /\ \A x \in Inode, m \in Name : ~(x = d /\ m = n) => e[x][m] = c[x][m]
  BY <1>1, <1>3
<1>5. Child' = e
  BY <1>1, <1>2
<1> HIDE DEF e
<1>6. ASSUME NEW x \in Inode, mode'[x] # "none", x # root
      PROVE  \E y \in Inode, m \in Name : e[y][m] = x
  <2>1. CASE x = i
    BY <1>1, <1>4, <2>1
  <2>2. CASE x # i
    <3>1. mode[x] # "none"
      BY <1>1, <1>6, <2>2 DEF IInv, TypeOK
    <3>2. PICK y \in Inode, m \in Name : c[y][m] = x
      BY <1>2, <1>6, <3>1 DEF Reached
    <3>3. ~(y = d /\ m = n)
      BY <1>1, <1>2, <3>2 DEF Inode, Null
    <3> QED
      BY <1>4, <3>2, <3>3
  <2> QED
    BY <2>1, <2>2
<1> QED
  BY <1>5, <1>6 DEF Reached

(* As long as no entry lies in a block's last slot, tree at the root shows *)
(* every file and directory once, below the directory in which its name    *)
(* leads to it (print_fs_tree, fs_dir_add_entry, fs_get_inode_by_filename).*)
THEOREM TreeIsShown == Spec /\ []LastFree => []TreeShows
<1> DEFINE I == heapOK => TreeInv /\ Reached
<1>1. Init => I
  <2> SUFFICES ASSUME Init PROVE Reached /\ TreeInv
    OBVIOUS
  <2>1. TreeInv /\ Tree!Init
    BY InitInv, InitTree DEF TreeInv
  <2>2. PICK n \in Name, d \in Inode \ {root} :
          /\ mode = [x \in Inode |-> IF x \in {root, d} THEN "dir" ELSE "none"]
          /\ Child = [x \in Inode |-> [m \in Name |->
                        IF x = root /\ m = n THEN d ELSE Null]]
    BY <2>1 DEF Tree!Init
  <2>3. root \in Inode
    BY <2>1 DEF TreeInv, IInv, TypeOK
  <2>4. Child[root][n] = d
    BY <2>2, <2>3
  <2>5. Reached
    BY <2>2, <2>3, <2>4 DEF Reached
  <2> QED
    BY <2>1, <2>5
<1>2. I /\ IInv' /\ LastFree /\ LastFree' /\ [Next]_vars => I'
  <2> SUFFICES ASSUME TreeInv, Reached, IInv', LastFree, LastFree', [Next]_vars, heapOK'
               PROVE  TreeInv' /\ Reached'
    BY DEF Next, Touch, Mkdir, Create, Cd, Edit, vars
  <2>1. CASE \E p \in Path : \E k \in {"file", "dir"} : Create(p, k)
    <3>1. PICK p \in Path, k \in {"file", "dir"} : Create(p, k)
      BY <2>1
    <3>2. Named' /\ Distinct' /\ Packed'
      BY <3>1, CreateGrows
    <3>3. /\ UNCHANGED root
          /\ \E d \in Inode : Grows(d, p.last, k) \/ UNCHANGED <<mode, Child>>
      BY <3>1, CreateGrows
    <3>4. CASE \E d \in Inode : Grows(d, p.last, k)
      <4>1. PICK d \in Inode : Grows(d, p.last, k)
        BY <3>4
      <4>2. IInv
        BY DEF TreeInv
      <4>3. Reached'
        BY <3>3, <4>1, <4>2, GrowsReached
      <4> QED
        BY <3>2, <4>3 DEF TreeInv
    <3>5. CASE UNCHANGED <<mode, Child>>
      <4>1. Reached'
        BY <3>3, <3>5 DEF Reached
      <4> QED
        BY <3>2, <4>1 DEF TreeInv
    <3> QED
      BY <3>3, <3>4, <3>5
  <2>2. CASE \E p \in Path : Cd(p)
    <3>1. UNCHANGED <<mode, blocks, ent, root>>
      BY <2>2 DEF Cd
    <3> QED
      BY <3>1, SameKeeps DEF TreeInv, Reached
  <2>3. CASE \E p \in Path : Edit(p)
    BY <2>3, EditTree DEF TreeInv, Reached
  <2>4. CASE UNCHANGED vars
    <3>1. UNCHANGED <<mode, blocks, ent, root>>
      BY <2>4 DEF vars
    <3> QED
      BY <3>1, SameKeeps DEF TreeInv, Reached
  <2> QED
    BY <2>1, <2>2, <2>3, <2>4 DEF Next, Touch, Mkdir
<1>3. I /\ LastFree => TreeShows
  BY Shows DEF TreeInv, TreeShows
<1> QED
  BY <1>1, <1>2, <1>3, FilesInvariance, PTL DEF Spec
=============================================================================
