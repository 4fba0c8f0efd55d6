------------------------------- MODULE Files -------------------------------
(***************************************************************************)
(* The RAM file system (fs.c) under the shell commands that change it or   *)
(* the current directory: touch, mkdir, cd and edit (shell.c); and what ls *)
(* and tree print of it.  cat and pwd only read, too.                      *)
(*                                                                         *)
(* An inode or a block is its position in the tables, counted from 1, and  *)
(* Null is the pointer 0.  A file name is a member of Name; what a slot of *)
(* a directory holds is the name written last and the length of the string *)
(* there, because strncpy leaves the rest of a longer name in place.       *)
(***************************************************************************)
EXTENDS Integers, SequencesExt

CONSTANTS
  INODES, BLOCKS,  \* 100 and 30 in kernel_main
  SLOTS,           \* entries of a directory that begin in one block: 31
  LINKS,           \* NUM_OF_BLOCKS_IN_INODE, 15
  Name,            \* the names used, of at most 7 characters
  NameLen,         \* their lengths
  RootName,        \* the name "root"
  Path,            \* the paths used
  InodesAtBoot, BlocksAtBoot, TailsAtBoot
                   \* what the memory of the file system holds when
                   \* fs_initialize takes it over without clearing it

Inode == 1 .. INODES
Block == 1 .. BLOCKS
Slot == 1 .. SLOTS
Link == 1 .. LINKS
Null == 0
NoName == "none"

ASSUME FilesAssumption ==
  /\ INODES \in Nat /\ BLOCKS \in Nat
  /\ SLOTS \in Nat /\ SLOTS >= 2
  /\ LINKS \in Nat /\ LINKS >= 1
  /\ NoName \notin Name /\ RootName \in Name
  /\ NameLen \in [Name -> 1 .. 7]
  /\ \A p \in Path : /\ p.abs \in BOOLEAN
                     /\ p.via \in Seq(Name)
                     /\ p.last \in Name \cup {NoName}
  /\ InodesAtBoot \subseteq Inode
  /\ BlocksAtBoot \subseteq Block
  /\ TailsAtBoot \subseteq 1 .. (BLOCKS + 1)

VARIABLES
  inodeBits, blockBits,  \* the bits set in inodes_bitset and blocks_bitset
  mode,                  \* of an inode; "none" before it is created
  blocks,                \* its block pointers
  ent,                   \* the entries that begin in each block
  tail,                  \* tail[b]: is byte 115 of block b other than 0?
  root, cwd,             \* ramfs_root and current_dir
  heapOK                 \* no write has gone to the heap's own segments

vars == <<inodeBits, blockBits, mode, blocks, ent, tail, root, cwd, heapOK>>

Free == [name |-> NoName, len |-> 0, inode |-> Null]
Entry == [name : Name \cup {NoName}, len : 0 .. 7, inode : Inode \cup {Null}]

TypeOK ==
  /\ inodeBits \subseteq Inode
  /\ blockBits \subseteq Block
  /\ mode \in [Inode -> {"none", "file", "dir"}]
  /\ blocks \in [Inode -> [Link -> Block \cup {Null}]]
  /\ ent \in [Block -> [Slot -> Entry]]
  /\ tail \in [1 .. (BLOCKS + 1) -> BOOLEAN]
  /\ root \in Inode
  /\ cwd \in Inode
  /\ heapOK \in BOOLEAN
-----------------------------------------------------------------------------
(* The layout of the device: byte offsets from the superblock.  Pointer    *)
(* arithmetic on an fs_superblock_t* counts in units of its size, so       *)
(* everything lies further on than the size that was allocated for it.     *)
BLOCK_SIZE == 4096
BITSET_SIZE(n) == n \div 8 + 1
SUPERBLOCK == 40
INODE == 80

Size == SUPERBLOCK + BITSET_SIZE(INODES) + BITSET_SIZE(BLOCKS)
          + INODE * INODES + BLOCK_SIZE * BLOCKS

FirstInode == SUPERBLOCK * (SUPERBLOCK + BITSET_SIZE(INODES) + BITSET_SIZE(BLOCKS))
FirstDataBlock == FirstInode + INODES * INODE

Outside(b) == FirstDataBlock + b * BLOCK_SIZE > Size
-----------------------------------------------------------------------------
(* BITSET_READBIT in a loop finds the first bit that is not set.           *)
FirstUnsetLast(bits, S) == {i \in S \ bits : \A j \in S \ bits : j <= i}
FirstUnset(bits, S) == {i \in S \ bits : \A j \in S \ bits : i <= j}

SetBitNever(bits, i) == bits
SetBit(bits, i) == bits \cup {i}

(* fs_create_inode and fs_create_block: what they return.                  *)
NewInode == IF inodeBits = Inode THEN {Null} ELSE FirstUnset(inodeBits, Inode)
NewBlock == FirstUnset(blockBits, Block)

NoBlocks == [k \in Link |-> Null]
FreeBlock == [s \in Slot |-> Free]

(* strcmp(ent->name, n) == 0.  A path that ends in '/' leaves an empty     *)
(* name, which every free entry has.                                       *)
LenOf(n) == IF n = NoName THEN 0 ELSE NameLen[n]
Matches(e, n) == e.name = n /\ e.len = LenOf(n)

(* The last slot of a block runs over into the next one, where its         *)
(* is_taken lies at byte 115.                                              *)
Taken(b, s) == IF s = SLOTS THEN tail[b + 1] ELSE ent[b][s] # Free

(* Positions in a directory, and those of P that no other comes before.    *)
Position == Link \X Slot
Before(q, p) == q[1] < p[1] \/ (q[1] = p[1] /\ q[2] < p[2])
First(P) == {p \in P : \A q \in P : ~Before(q, p)}

(* fs_get_inode_by_filename                                                *)
Lookup(d, n) ==
  LET found == First({p \in Position :
                        /\ blocks[d][p[1]] # Null
                        /\ Matches(ent[blocks[d][p[1]]][p[2]], n)})
      p == CHOOSE p \in found : TRUE
  IN IF found = {} THEN Null ELSE ent[blocks[d][p[1]]][p[2]].inode

(* fs_get_inode_dir: a directory whose name has one character is skipped.  *)
FollowedTwo(n) == NameLen[n] > 2
Followed(n) == NameLen[n] > 1

Enter(d, n) ==
  IF d = Null \/ ~Followed(n) THEN d
  ELSE LET i == Lookup(d, n)
       IN IF i # Null /\ mode[i] = "dir" THEN i ELSE Null

Walk(p) == FoldLeft(Enter, IF p.abs THEN root ELSE cwd, p.via)
-----------------------------------------------------------------------------
(* kernel_main: the root directory i in block b, and the directory "root"  *)
(* j in it.                                                                *)
Boot(i, j, b) ==
  /\ root = i
  /\ cwd = i
  /\ inodeBits = InodesAtBoot \cup {i, j}
  /\ blockBits = BlocksAtBoot \cup {b}
  /\ mode = [x \in Inode |-> IF x \in {i, j} THEN "dir" ELSE "none"]
  /\ blocks = [x \in Inode |->
       [k \in Link |-> IF x = i /\ k = 1 THEN b ELSE Null]]
  /\ ent = [c \in Block |-> [s \in Slot |->
       IF c = b /\ s = 1
       THEN [name |-> RootName, len |-> NameLen[RootName], inode |-> j]
       ELSE Free]]
  /\ tail = [c \in 1 .. (BLOCKS + 1) |-> c \in TailsAtBoot /\ c # b]
  /\ heapOK = ~Outside(b)

Init ==
  \E i \in FirstUnset(InodesAtBoot, Inode) :
  \E j \in FirstUnset(InodesAtBoot \cup {i}, Inode) :
  \E b \in FirstUnset(BlocksAtBoot, Block) : Boot(i, j, b)

(* A name written over another: the rest of a longer one stays.            *)
Written(old, n, i) ==
  [name |-> n, inode |-> i,
   len |-> IF n # NoName /\ old.len > NameLen[n] THEN old.len ELSE LenOf(n)]

(* fs_create_inode has returned i.                                         *)
CreateInode(i, k) ==
  IF i = Null THEN UNCHANGED <<inodeBits, mode, blocks>>
  ELSE /\ inodeBits' = SetBit(inodeBits, i)
       /\ mode' = [mode EXCEPT ![i] = k]
       /\ blocks' = [blocks EXCEPT ![i] = NoBlocks]

(* The entry at slot s of block b is taken for a new inode.                *)
TakeEntry(b, s, n, k) ==
  \E i \in NewInode :
    /\ ent' = [ent EXCEPT ![b][s] = Written(@, n, i)]
    /\ tail' = IF s = SLOTS THEN [tail EXCEPT ![b + 1] = TRUE] ELSE tail
    /\ CreateInode(i, k)
    /\ UNCHANGED <<blockBits, heapOK>>

(* Directory d gets block b, cleared, as its l-th, and its first entry is  *)
(* taken, unless the empty name already matches it.                        *)
AddBlock(d, l, b, n, k) ==
  /\ blockBits' = SetBit(blockBits, b)
  /\ heapOK' = ~Outside(b)
  /\ tail' = [tail EXCEPT ![b] = FALSE]
  /\ IF n = NoName
     THEN /\ ent' = [ent EXCEPT ![b] = FreeBlock]
          /\ blocks' = [blocks EXCEPT ![d][l] = b]
          /\ UNCHANGED <<inodeBits, mode>>
     ELSE \E i \in NewInode :
            /\ ent' = [ent EXCEPT ![b] = [FreeBlock EXCEPT ![1] = Written(Free, n, i)]]
            /\ IF i = Null
               THEN /\ blocks' = [blocks EXCEPT ![d][l] = b]
                    /\ UNCHANGED <<inodeBits, mode>>
               ELSE /\ inodeBits' = SetBit(inodeBits, i)
                    /\ mode' = [mode EXCEPT ![i] = k]
                    /\ blocks' = [blocks EXCEPT ![d][l] = b, ![i] = NoBlocks]

(* fs_dir_add_entry looks for the first position of d that has no block    *)
(* yet, has the name already, or is not taken.                             *)
StopsUnnamed(d, n) ==
  {p \in Position :
     LET b == blocks[d][p[1]] IN b = Null \/ ~Taken(b, p[2])}
Stops(d, n) ==
  {p \in Position :
     LET b == blocks[d][p[1]]
     IN b = Null \/ Matches(ent[b][p[2]], n) \/ ~Taken(b, p[2])}

(* With no block left, what lies at address 0 is taken for the block.  Its *)
(* bytes decide whether an entry of it is taken for a new inode, over the  *)
(* heap's first segment, or all look taken, or one has the name already.   *)
NoBlockLeft(k) ==
  /\ \/ UNCHANGED <<inodeBits, mode, blocks, heapOK>>
     \/ heapOK' = FALSE /\ \E i \in NewInode : CreateInode(i, k)
  /\ UNCHANGED <<blockBits, ent, tail>>

AddEntry(d, n, k) ==
  \E p \in First(Stops(d, n)) :
    LET b == blocks[d][p[1]] IN
    \/ /\ b # Null /\ ~Matches(ent[b][p[2]], n)
       /\ TakeEntry(b, p[2], n, k)
    \/ /\ b = Null
       /\ \E c \in NewBlock : AddBlock(d, p[1], c, n, k)
    \/ b = Null /\ NewBlock = {} /\ NoBlockLeft(k)

(* touch and mkdir.  When the path leads nowhere, or the entry exists or   *)
(* has no place, nothing changes.                                          *)
Create(p, k) ==
  \E d \in Inode :
    /\ heapOK
    /\ d = Walk(p) /\ mode[d] = "dir"
    /\ AddEntry(d, p.last, k)
    /\ UNCHANGED <<root, cwd>>

Touch(p) == Create(p, "file")
Mkdir(p) == Create(p, "dir")

(* find_file                                                               *)
Finds(p, f) == \E d \in Inode : d = Walk(p) /\ f = Lookup(d, p.last)

(* cd does not ask whether what it finds is a directory.                   *)
Cd(p) ==
  /\ heapOK
  /\ \E f \in Inode : Finds(p, f) /\ cwd' = f
  /\ UNCHANGED <<inodeBits, blockBits, mode, blocks, ent, tail, root, heapOK>>

(* edit takes the inode for a directory entry: its first 8 bytes, mode and *)
(* size, are read as a pointer, to address 0 or 1.  What it writes there   *)
(* as an inode's size and block pointer falls on the first heap segment.   *)
Edit(p) ==
  /\ heapOK
  /\ \E f \in Inode : Finds(p, f)
  /\ \/ \E b \in NewBlock : /\ blockBits' = SetBit(blockBits, b)
                            /\ tail' = [tail EXCEPT ![b] = FALSE]
                            /\ ent' = [ent EXCEPT ![b] = FreeBlock]
     \/ NewBlock = {} /\ UNCHANGED <<blockBits, tail, ent>>
  /\ heapOK' = FALSE
  /\ UNCHANGED <<inodeBits, mode, blocks, root, cwd>>

(* ls and print_fs_tree go over the blocks of d, and print of each the     *)
(* entries that are taken.                                                 *)
Listed(d, p) == blocks[d][p[1]] # Null /\ Taken(blocks[d][p[1]], p[2])

(* print_fs_tree prints what a directory contains one level deeper, behind *)
(* it.  An entry without an inode is no directory.                         *)
Deeper(lines) == [k \in DOMAIN lines |-> [lines[k] EXCEPT !.level = @ + 1]]

print_fs_tree[d \in Inode] ==
  LET Lines(p) ==
        LET e == ent[blocks[d][p[1]]][p[2]]
        IN IF Listed(d, p)
           THEN <<[level |-> 0, name |-> e.name, inode |-> e.inode]>>
                  \o (IF e.inode # Null /\ mode[e.inode] = "dir"
                      THEN Deeper(print_fs_tree[e.inode]) ELSE <<>>)
           ELSE <<>>
  IN FlattenSeq([k \in Link |-> FlattenSeq([s \in Slot |-> Lines(<<k, s>>)])])

Next == \E p \in Path : Touch(p) \/ Mkdir(p) \/ Cd(p) \/ Edit(p)

Spec == Init /\ [][Next]_vars
-----------------------------------------------------------------------------
(* Every inode has one entry at most: no two names, in one directory or in *)
(* two, share what touch or mkdir created for one of them.                 *)
OneEntry ==
  \A b, c \in Block : \A s, t \in Slot :
    ent[b][s].inode # Null /\ ent[b][s].inode = ent[c][t].inode =>
      b = c /\ s = t

(* No block belongs to two directories.                                    *)
OneOwner ==
  \A i, j \in Inode : \A k, l \in Link :
    blocks[i][k] # Null /\ blocks[i][k] = blocks[j][l] => i = j /\ k = l

(* What a directory contains was created after it.  Hence the recursion of *)
(* print_fs_tree ends, and no inode is lost among directories that contain *)
(* each other.                                                             *)
Descends ==
  \A i \in Inode : \A k \in Link : \A s \in Slot :
    LET b == blocks[i][k]
    IN b # Null /\ ent[b][s].inode # Null => ent[b][s].inode > i

(* Entries and current_dir point to inodes that were created, which the    *)
(* bitset shows as used, as it does their blocks; only directories have    *)
(* blocks.                                                                 *)
Created ==
  /\ mode[cwd] # "none"
  /\ \A i \in Inode : mode[i] # "none" => i \in inodeBits
  /\ \A b \in Block : \A s \in Slot :
       ent[b][s].inode # Null => mode[ent[b][s].inode] # "none"
  /\ \A i \in Inode : \A k \in Link :
       blocks[i][k] # Null => mode[i] = "dir" /\ blocks[i][k] \in blockBits

(* Inodes are handed out in increasing order.                              *)
Increasing ==
  \A i \in Inode : mode[i] # "none" =>
    \A j \in Inode : j <= i => j \in inodeBits

IInv ==
  /\ TypeOK
  /\ OneEntry
  /\ OneOwner
  /\ Descends
  /\ Created
  /\ Increasing

(* The tree that the entries make.                                         *)
Child == [d \in Inode |-> [n \in Name |-> Lookup(d, n)]]

Tree == INSTANCE DirectoryTree WITH Node <- Inode, kind <- mode, child <- Child

(* touch, mkdir and cd do to it what their users expect.                   *)
IsDirectoryTree == Tree!Spec

(* touch and mkdir with a path through a directory that does not exist     *)
(* change nothing: "path doesnt exist!".                                   *)
NoPathNoChange ==
  [][\A p \in Path : (Touch(p) \/ Mkdir(p)) => Tree!Resolve(p) # Null]_vars

(* tree, at the root, shows every file and directory once, below the       *)
(* directory in which its name leads to it: nothing that was created is    *)
(* out of reach.                                                           *)
TreeShows ==
  LET lines == print_fs_tree[root]
      Above(k) == {j \in 1 .. (k - 1) : lines[j].level < lines[k].level}
      Directory(k) == IF Above(k) = {} THEN root ELSE lines[Max(Above(k))].inode
  IN heapOK => \A i \in Inode \ {root} : mode[i] # "none" =>
       /\ \E k \in DOMAIN lines :
            lines[k].inode = i /\ Child[Directory(k)][lines[k].name] = i
       /\ \A j, k \in DOMAIN lines : lines[j].inode = i /\ lines[k].inode = i => j = k

(* A new entry takes a free place: no name that led to an inode ceases to. *)
EntriesKept ==
  [][\A d \in Inode : \A n \in Name :
       Child[d][n] # Null => Child'[d][n] = Child[d][n]]_vars

(* The blocks given to directories lie within the device.                  *)
BlocksInDevice ==
  \A i \in Inode : \A k \in Link :
    blocks[i][k] # Null => ~Outside(blocks[i][k])

(* edit gives the file that its path names the text that was entered, so   *)
(* the file has a block.                                                   *)
EditWritesFile ==
  [][\A p \in Path : \A f \in Inode :
       Edit(p) /\ Finds(p, f) /\ mode[f] = "file" => blocks'[f] # NoBlocks]_vars
=============================================================================
