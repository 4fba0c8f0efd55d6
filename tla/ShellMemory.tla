---------------------------- MODULE ShellMemory ----------------------------
(***************************************************************************)
(* What the shell's commands do with the kernel heap (shell.c, fs.c): for  *)
(* each line the calls of malloc and free in their order, and between them *)
(* the writes that miss the block they are meant for.  Heap executes the   *)
(* calls, loop by loop.                                                    *)
(*                                                                         *)
(* A line is a record of what decides about memory: its command, how many  *)
(* arguments it has, the sizes of its strings, each with its NUL, and      *)
(* whether the path and the file exist; Files and Shell have the rest.     *)
(*                                                                         *)
(* set_variable writes a final NUL one byte behind its block, and ls the   *)
(* byte before it: both are carried out.  A larger write over a header     *)
(* leaves the heap to what the bytes happen to be: intact notes it, and    *)
(* this model ends there.  So it does when malloc fails, since the shell   *)
(* writes through the 0 it got, over the heap's first header.              *)
(***************************************************************************)
EXTENDS Heap, Sequences, FiniteSets

CONSTANTS
  Lines,     \* the lines that may be entered
  MaxLines,  \* how many are entered (in this run)
  HighByte   \* what the highest byte of a pointer counts (2^56)

PointerSize == 8   \* sizeof(char*)
NumberSize == 4    \* sizeof(int), sizeof(float)
NodeSize == 32     \* sizeof(shell_list_t)

Paths == {"touch", "mkdir", "cd", "edit", "cat", "ls"}

(* rest is how many characters of an earlier line stand behind a last      *)
(* argument that is empty (0 when it is not empty), beyond how many cat    *)
(* copies past its block, outside whether a directory grows into a block   *)
(* that the device was not allocated.                                      *)
ASSUME LinesAssumption ==
  /\ MaxLines \in Nat
  /\ HighByte \in Nat /\ End <= HighByte
  /\ \A l \in Lines :
       /\ l.argc \in Nat
       /\ l.command = "set" => l.name \in Nat /\ l.text \in Nat /\ l.rest \in Nat
       /\ l.command \in Paths => l.path \in Nat /\ l.rest \in Nat
       /\ l.command \in {"touch", "mkdir"} => l.outside \in BOOLEAN
       /\ l.command = "cat" => l.content \in Nat /\ l.beyond \in Nat

VARIABLES
  todo,       \* what is left of the line's calls
  ptr,        \* the pointers of the functions that execute it
  variables,  \* shell_variables: each with the addresses it points to
  intact,     \* nothing was written over the heap's headers
  line,       \* the line (the one before, at the prompt)
  before,     \* the blocks in use when it was entered (history)
  entered     \* how many lines were

shell == <<todo, ptr, variables, intact, line, before, entered>>

(* The calls, and the writes outside of a block, with the pointer each one *)
(* sets, frees or writes through.                                          *)
Pointers == {"args", "path", "data", "node", "name", "value"}
Call == [call : {"malloc", "free", "nul", "under", "spill", "wild", "push"},
         var : Pointers, size : Nat, over : Nat]

Malloc(var, n) == [call |-> "malloc", var |-> var, size |-> n, over |-> 0]
Free(var) == [call |-> "free", var |-> var, size |-> 0, over |-> 0]
Nul(var, n) == [call |-> "nul", var |-> var, size |-> n, over |-> 0]
Under(var) == [call |-> "under", var |-> var, size |-> 0, over |-> 0]
Spill(var, n, k) == [call |-> "spill", var |-> var, size |-> n, over |-> k]
Wild == [call |-> "wild", var |-> "data", size |-> 0, over |-> 0]
Push == [call |-> "push", var |-> "node", size |-> 0, over |-> 0]

Index(name) == {k \in DOMAIN variables : variables[k].is = name}

(* set_variable: the name is allocated twice, and the first is forgotten.  *)
SetVariable(l) ==
  <<Malloc("name", l.name), Malloc("name", l.name), Nul("name", l.name)>>
    \o (IF l.exp THEN <<Malloc("value", NumberSize)>>
                 ELSE <<Malloc("value", l.text), Nul("value", l.text)>>)
    \o <<Push>>

(* variables_push: a name that is new gets a node.                         *)
VariablesPush(l) ==
  (IF Index(l.is) = {} THEN <<Malloc("node", NodeSize)>> ELSE <<>>) \o SetVariable(l)

(* shell_combine_strings.  For an empty argument strncpy is called with 0, *)
(* counts down from there and copies on to the next NUL: behind the last   *)
(* argument, k characters more than the block has.  Without any argument   *)
(* the block is empty, and the final NUL goes to the byte before it.       *)
Combined(var, n, k) ==
  <<Malloc(var, n)>> \o (IF k > 0 THEN <<Spill(var, n, k)>> ELSE <<>>)
CombinedNone(var) == <<Malloc(var, 0), Under(var)>>

SetFreesValue(l) ==
  Combined("data", l.text, l.rest) \o VariablesPush(l) \o <<Free("value")>>
Set(l) == Combined("data", l.text, l.rest) \o VariablesPush(l) \o <<Free("data")>>

(* touch, mkdir and find_file free the path where they return last.        *)
PathFreedAlways(l) == Combined("path", l.path, l.rest) \o <<Free("path")>>
Path(l) ==
  Combined("path", l.path, l.rest) \o (IF l.found THEN <<Free("path")>> ELSE <<>>)

(* touch and mkdir: a block outside of the device is cleared, wherever it  *)
(* lies.                                                                   *)
Create(l) ==
  Combined("path", l.path, l.rest)
    \o (IF l.found /\ l.outside THEN <<Wild>> ELSE <<>>)
    \o (IF l.found THEN <<Free("path")>> ELSE <<>>)

(* edit takes the first bytes of the file's inode for the address of one,  *)
(* 0 or 1, and writes there, at the start of the heap.                     *)
Edit(l) == Path(l) \o (IF l.found THEN <<Wild>> ELSE <<>>)

Ls(l) == IF l.path = 0 THEN CombinedNone("path") ELSE Combined("path", l.path, l.rest)

(* cat prints what fs_inode_get_data has put together.                     *)
Cat(l) ==
  Path(l) \o (IF l.found THEN Combined("data", l.content, l.beyond) \o <<Free("data")>>
                         ELSE <<>>)

Command(l) ==
  CASE l.command = "set" -> Set(l)
    [] l.command \in {"touch", "mkdir"} -> Create(l)
    [] l.command = "edit" -> Edit(l)
    [] l.command = "cd" -> Path(l)
    [] l.command = "cat" -> Cat(l)
    [] l.command = "ls" -> Ls(l)
    [] OTHER -> <<>>

(* shell_main: shell_parse, shell_execute and the clean-up.                *)
Executed(l) ==
  <<Malloc("args", PointerSize * l.argc)>> \o Command(l) \o <<Free("args")>>

(* The prompt, once nothing of the last line is left to do.                *)
Prompt == todo = <<>> /\ pc = "idle"

(* variables_push("pwd", "/root") comes before the first prompt.           *)
PwdLine ==
  [command |-> "set", is |-> "pwd", argc |-> 0, name |-> 4, text |-> 6, rest |-> 0, exp |-> FALSE]

MemoryInit ==
  /\ Init
  /\ variables = <<>>
  /\ line = PwdLine
  /\ todo = VariablesPush(PwdLine)
  /\ ptr = [v \in Pointers |-> Null]
  /\ intact = TRUE
  /\ before = {}
  /\ entered = 0

Enter ==
  /\ Prompt /\ intact /\ entered < MaxLines
  /\ \E l \in Lines :
       /\ line' = l
       /\ todo' = Executed(l)
  /\ before' = DOMAIN live
  /\ entered' = entered + 1
  /\ UNCHANGED <<vars, ptr, variables, intact>>

(* The next call of malloc or free begins.                                 *)
Called == Head(todo)
Doing(call) == pc = "idle" /\ intact /\ todo # <<>> /\ Called.call = call

Calls ==
  /\ \/ Doing("malloc") /\ CallMalloc(Called.size)
     \/ Doing("free") /\ CallFree(ptr[Called.var])
  /\ UNCHANGED shell

(* The heap goes on; with the last step of the call the shell does, too.   *)
Returned(v) ==
  /\ ptr' = [ptr EXCEPT ![Called.var] = v]
  /\ todo' = Tail(todo)

Allocates ==
  /\ MallocExact \/ MallocSplit
  /\ Returned(Payload(curr))
  /\ UNCHANGED <<variables, intact, line, before, entered>>

Walks ==
  /\ MallocNext \/ FreeNext \/ FreeMark \/ MergeAbsorb \/ MergeNext
  /\ UNCHANGED shell

Frees ==
  /\ FreeInvalid \/ MergeDone
  /\ todo' = Tail(todo)
  /\ UNCHANGED <<ptr, variables, intact, line, before, entered>>

(* The NUL behind the block: where a header begins it clears the low byte  *)
(* of its len, elsewhere it is lost.                                       *)
LowByteSpace(n) == n - (n % 256) + 32
LowByte(n) == n - (n % 256)

Stray ==
  LET a == ptr[Called.var] + Called.size IN
  /\ Doing("nul")
  /\ seg' = [s \in DOMAIN seg |->
               IF s = a THEN [seg[s] EXCEPT !.len = LowByte(@)] ELSE seg[s]]
  /\ todo' = Tail(todo)
  /\ UNCHANGED <<pc, curr, arg, live, ptr, variables, intact, line, before, entered>>

(* The NUL before the block: the highest byte of its header's next.        *)
StrayUnder ==
  /\ Doing("under")
  /\ seg' = [s \in DOMAIN seg |->
               IF Payload(s) = ptr[Called.var] THEN [seg[s] EXCEPT !.next = @ % HighByte]
               ELSE seg[s]]
  /\ todo' = Tail(todo)
  /\ UNCHANGED <<pc, curr, arg, live, ptr, variables, intact, line, before, entered>>

(* What runs over the end of the block does no harm where no header is.    *)
Misses(a, k) == a + k <= End /\ \A s \in DOMAIN seg : a + k <= s \/ Payload(s) <= a

Spills ==
  /\ Doing("spill")
  /\ intact' = Misses(ptr[Called.var] + Called.size, Called.over)
  /\ todo' = Tail(todo)
  /\ UNCHANGED <<vars, ptr, variables, line, before, entered>>

Overwrites ==
  /\ Doing("wild")
  /\ intact' = FALSE
  /\ todo' = Tail(todo)
  /\ UNCHANGED <<vars, ptr, variables, line, before, entered>>

(* The variable points to its new name and data.  One that is new is first *)
(* in the list, one that is not becomes the last.                          *)
Links ==
  LET new == [is |-> line.is, node |-> ptr["node"], name |-> ptr["name"], value |-> ptr["value"]]
  IN
  /\ Doing("push")
  /\ variables' =
       IF Index(line.is) = {} THEN <<new>> \o variables
       ELSE LET k == CHOOSE k \in Index(line.is) : TRUE
            IN Append(SubSeq(variables, 1, k - 1), [new EXCEPT !.node = variables[k].node])
  /\ todo' = Tail(todo)
  /\ UNCHANGED <<vars, ptr, intact, line, before, entered>>

MemoryNext ==
  \/ Enter \/ Calls \/ Allocates \/ Walks \/ Frees
  \/ Stray \/ StrayUnder \/ Spills \/ Overwrites \/ Links

MemorySpec == MemoryInit /\ [][MemoryNext]_<<vars, shell>>
-----------------------------------------------------------------------------
(* The lines that may write over a header.                                 *)
Risky(l) ==
  \/ l.command \in {"set"} \cup Paths /\ l.rest > 0
  \/ l.command = "edit" /\ l.found
  \/ l.command \in {"touch", "mkdir"} /\ l.found /\ l.outside
  \/ l.command = "cat" /\ l.found /\ l.beyond > 0

Separate ==
  \A p \in DOMAIN live :
    /\ Base + HeaderSize <= p /\ p + live[p] <= End
    /\ \A s \in DOMAIN seg : Payload(s) <= p \/ p + live[p] <= s
    /\ \A q \in DOMAIN live : q <= p \/ p + live[p] <= q

(* No two blocks in use share a byte, and none reaches into a header, even *)
(* one whose len a stray NUL has made smaller, or out of the arena; unless *)
(* one of those lines has written over a header.                           *)
Apart == IF intact THEN Separate ELSE Risky(line)

(* What a variable points to stays allocated for it alone: no command      *)
(* frees it, neither the text it was set to nor a path.                    *)
Of(v) == <<v.node, v.name, v.value>>

Kept ==
  /\ \A k \in DOMAIN variables : \A i \in 1 .. 3 : Of(variables[k])[i] \in DOMAIN live
  /\ \A j, k \in DOMAIN variables : \A h, i \in 1 .. 3 :
       Of(variables[j])[h] = Of(variables[k])[i] => j = k /\ h = i

VariablesKept == intact => Kept

(* How many blocks a line leaves behind: set those of its variable and the *)
(* name it forgets; ls, and a path that is not found, the path.            *)
Left ==
  CASE line.command = "set" ->
         3 + (IF \E p \in DOMAIN live \ before : \E k \in DOMAIN variables : variables[k].node = p
              THEN 1 ELSE 0)
    [] line.command = "ls" -> 1
    [] line.command \in {"touch", "mkdir", "cd", "edit", "cat"} -> IF line.found THEN 0 ELSE 1
    [] OTHER -> 0

(* Nothing else that a line allocates outlives it, and nothing that was in *)
(* use before it is freed.                                                 *)
GivesBack ==
  intact /\ Prompt =>
    before \subseteq DOMAIN live /\ Cardinality(DOMAIN live \ before) = Left

(* Memory lasts: no malloc of the shell fails.                             *)
MemoryLasts == ~(pc = "malloc" /\ curr = Null)

(* No line ever writes over a header.                                      *)
HeadersIntact == intact
=============================================================================
