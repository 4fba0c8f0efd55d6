# almorinaOS in TLA+

A verification project for almorinaOS, a 64-bit teaching kernel for one
processor: a heap, a preemptive scheduler, a console, a RAM file system and a
shell, in C and assembly. Paths below are relative to `src/src/`.

The modules are translated from the code; what the comments and messages of the
code promise is stated as properties or as abstract specifications. TLC checks
the properties on small instances. The invariants, the action properties and
the refinements of the heap, of the directory tree and of round robin are
proved with TLAPS for every value of the constants.

Contents: 1 the system, 2 the modules, 3 the runs, 4 fairness, 5 the proofs,
6 findings, 7 what is not modelled, 8 plan.

## 1. The system

| component | code | state | operations | who uses it |
|---|---|---|---|---|
| heap | `c-code/heap.c` | linked list of segments in the first entry of the memory map | `malloc`, `free` (with `split`, `merge`) | file system (one allocation), shell |
| scheduler | `c-code/scheduler.c`, `assembly/task.asm` | 256 PCBs, ready list, terminated list, current task, two lock counters | `schedule`, `process_create`, `terminate_task`, tick handler | its own workload `test_scheduler`; the tick handler runs always |
| timer | `c-code/pit.c` | seconds since start | `PIT_tick`, `Sleep` | scheduler, `fgets` |
| interrupts | `c-code/interrupts.c`, `idt.c` | gates, the two interrupt controllers | handlers for timer and keyboard, two exceptions, `remap_pic` | hardware |
| keyboard | `c-code/keyboard.c` | mailbox of one character, shift, caps, `line_len` | `keyboard_handler` (interrupt), `keyboard_getch` | `fgets` |
| console | `c-code/stdio.c`, `vga.c` | screen, cursor | `putc`, `printf`, `fgets` | everyone, the keyboard interrupt included |
| file system | `c-code/fs.c` | device with bitsets, inodes, blocks; root | create, look up, add entries, read, write | shell |
| shell | `c-code/shell.c` | list of variables, current directory | 13 commands | the user |
| strings | `c-code/string.c` | none | copies, comparisons, conversions | everyone |
| locks | `c-code/locks.c` | none | creates semaphores, nothing else | nobody |
| boot | `assembly/boot.asm`, `sse.asm`, `c-code/kernel.c`, `mmap.c` | page tables, memory map entries | run once, the last part with interrupts on | boot loader |

They interact by calls and by shared variables. The timer interrupt calls the
scheduler, which may leave the interrupted task for another one. The keyboard
interrupt calls `putc`, the same `putc` that the shell may be in the middle of,
and leaves a character for `fgets` to poll. `fgets` sleeps, that is, halts until
the timer has ticked. The shell calls the file system with pointers into it and
keeps one as its current directory.

What is hard in this code:

* **Interleaving.** Ticks arrive between any two instructions of a task: while a
  PCB is linked into the ready list, inside `process_count++`, before the stack
  of a task is written; and, as the tick handler enables interrupts again before
  it is done, inside the tick handler itself. Keys arrive between the read of the
  mailbox and its reset, and between `putc`'s read of the cursor and its write.
  Interrupts are on before there is a heap, a current task or a ready list.
* **Stale links.** A PCB of a terminated task stays in the ready list while its
  `next` is used for another list. PCBs are given back while their task runs.
* **Counters that leak.** A task that ends leaves `IRQ_disable_counter` one
  higher than it found it; whether interrupts are on depends on the counter and
  on what the next task restores.
* **Boundaries.** Exact fit and split of a segment; the last row and column; the
  last entry of a directory block, which does not fit into it; tables that run
  out; memory that is not cleared.
* **Blocks that are not given back, and writes that miss their block.** Most
  commands of the shell leak. `set_variable` writes one byte behind what it
  allocated, `ls` without a path one byte before it, a last argument that is empty
  makes `strncpy` copy on behind its block, and `edit` of a file that exists writes
  over the heap's first header.
* **Machine numbers.** Expressions are evaluated in 32-bit floats and kept in ints:
  `1/41*41` is not 1, 16777217 becomes 16777216.
* **Liveness.** Every loop of the heap, every created process, every line that
  is entered.
* **Sequences of legal commands** that reach a bad state: `cd` into a file, set a
  variable twice, a name that is a prefix of another.

What makes each component correct: the heap's blocks are disjoint, a request is
refused only for a reason, calls return; the scheduler keeps each task that has
not ended in its queue exactly once and never runs one that has; the locks of a
terminating task are held until it is gone; the cursor stays on the screen and
keys are used once, in order; inodes and blocks have one owner, directories form
a tree, entries stay; variables keep their values and the memory they point to;
expressions get the value that the machine's arithmetic gives them by the rules of
precedence, and `echo` prints it; an
interrupt that is let through finds its handler from the first one on.

`PROJECT.json` lists each hazard with its line and the properties that watch it.

## 2. The modules

Each module names its actions after what the code does, and its variables after
the code's variables. A few operators stand right before another whose name they
extend (`ExactOfAny` before `Exact`): they are mistakes that the code could have
made. No specification uses them; replacing the second by the first must break a
property, which shows that the property sees that mistake.

### Heap: `AbstractHeap`, `Heap`, `HeapProofs`, `MCHeap`

`Heap` is heap.c, one action per iteration of a loop. `seg` maps the address of
each segment header to its fields, `pc`, `curr` and `arg` are the call in
progress, `live` records what callers hold. `MallocSplit` is the call of `split`;
`FreeMark` and `MergeAbsorb`/`MergeNext`/`MergeDone` are `free` and `merge`.
Callers free what they hold, or the 0 that a failed `malloc` gave them.

`AbstractHeap` is what heap.c promises to the rest of the kernel: blocks in an
arena. `Grant` may place a block anywhere where it overlaps no other, `Refuse`
needs that no run of free bytes is longer than the block and two headers.
`RefinesAbstract` maps `Heap` to it; a free takes effect when the segment is
marked, and merging is invisible.

### Scheduler: `RoundRobin`, `Scheduler`, `SchedulerProofs`, `MCScheduler`

`Scheduler` runs the workload the source has: task 0 is `test_scheduler`, which
creates processes and waits for them; each process runs `Process`: count itself,
print, sleep, count itself out, `terminate_task`. `pc[i]` is where task `i` is,
its saved context when it is not current. Only the current task takes steps, and
`PitTick` may happen between any two of them when `intr` holds. `PitTick` is
`PIT_tick_handler` with the pass of `irq_schedule_handler` over the PCBs and
`schedule`, up to the return of the task that runs next: whether that enables
interrupts depends on whether the task was interrupted (its `iret` restores the
flag) or is new (nothing does, but the counter).

What the code does not make atomic is not atomic here: `pcb_alloc` is `Claim`,
`First`, `Link`, `Advance`; `process_create` goes on with `Stack`; the two
updates of `process_count` are a load and a store. `terminate_task` keeps
interrupts off and is `Terminate`, `Block`, `Clean` (once per PCB), `CleanDone`
and one of `UnlockSwitch` and `UnlockReturn`.

Two constants choose the environment of a run: `Calm` names the program points
where no tick surprises a task, `Finishing` the processes that come to their end.
Under the empty `Calm`, a tick may come anywhere.

`RoundRobin` is what the first line of scheduler.c promises: a queue. The
refinement reads the queue off the list, from `start` to `end`.

### The switch: `Switch`, `SwitchProofs`, `MCSwitch`

`irq_schedule_handler` calls `unlock_scheduler`, which enables interrupts, and
then `schedule`. A tick may thus interrupt a handler that has taken a task off the
list, or is about to link the old one. `Scheduler` has the handler as one action;
`Switch` has a step for each access to what handlers share: `Take`, `Advance`
(schedule), `Save`, `MarkReady`, `LinkLast`, `MoveEnd`, `MakeCurrent`, `Load`,
`MarkRunning`, `Return` (task.asm). `stack[i]` holds the handlers on task `i`'s
kernel stack, the innermost last; `tos[i]` is how many of them the saved stack
pointer covers. `Windows` names the places where a nested tick may arrive.

With ticks in `enter`, `taken`, `held` and `return`, that is before the stack's top
is saved and after the next task is marked as running, nothing is lost. In each of
the other places a single nested tick loses a task: `SwitchLoses.cfg` shows it
for one. In `held`, a handler has a task in its hand and the list is shorter; `Tick`
asks for two more tasks in the list there, since with one the head would follow the
stale `next` of the list's end. No task ends or is paused in this module; that is
`Scheduler`'s subject.

### Console: `Terminal`, `TerminalProofs`, `MCTerminal`

The shell's loop prints its prompt, reads a line, prints the output of a command.
`Press` is the keyboard interrupt with its `putc`, one action, as interrupts are
off in it. The main loop is split where a key may come between: `PutGet`,
`PutDraw`, `PutScroll`, `PutSet` for a character that is printed; `Read`, `Clear`,
`Use`, `Doze`, `Tick` for `fgets`. A key that is released is the key `Nul`, since
the handler treats it so. Keys are numbered; the number in the mailbox is there
for the properties only.

The screen and the line that `fgets` stores are written by two programs that do not
look at each other, and they come apart easily. `home` is the column where the line
began, and `followed` holds from there to the first key that does not follow the
line: one that comes before `fgets` has read the last; Esc, which is counted and
stored but not drawn, and tab, which is drawn as blanks and stored as one character;
a backspace with nothing to erase; Enter with shift, which becomes a NUL; the
character with which the row ends. Until then `LineShown` is claimed, for any
interleaving.

Characters are classes: two letters, two digits with their shifted symbols, the
blank, and the control characters: new line, backspace, tab, Esc (27) and NUL.
Scrolling is one step: a key in the middle of it would be drawn on a half-scrolled
screen.

### File system: `DirectoryTree`, `Files`, `FilesProofs`, `MCFiles`

`Files` is fs.c under `touch`, `mkdir`, `cd` and `edit`; the other commands do not
change it. `ent[b][s]` is slot `s` of block `b`. The 31st entry of a block begins
in it and ends in the next one: its `is_taken` is byte 115 of that block, `tail`.
What the memory held at boot is a constant (`InodesAtBoot`, `BlocksAtBoot`,
`TailsAtBoot`), since `fs_initialize` does not clear it. A name is what was
written last and the length of what stands there, because `strncpy` leaves the
rest of a longer name. The layout is arithmetic on the sizes of the structures.
`edit` writes near address 0, where the heap begins; afterwards (`heapOK` false)
the model stops, as nothing can be said about what follows. So it is where a block
lies outside the device, and where there is no block left (`NoBlockLeft`): the code
then takes address 0 for the block, and may create an inode for an entry that it
writes there. The last block lies outside the device, and the model has stopped when
it is used: `NoBlockLeft` is only reached if the bitset says at boot that it is. `Listed` and
`print_fs_tree` are what `ls` and `tree` print; they change nothing.

`DirectoryTree` is what a user of the shell expects: a tree that only grows.

### Shell: `Shell`, `MathExp`, `Floats`, `Numerals`, `ShellProofs`, `MCShell`

`Shell` is the command loop and the variables: a line is cut into arguments, `set`
joins them again and stores them, `Pushed` is `variables_push` with all that
`set_variable` does to the node, its `next` included. A text that `is_exp` takes
for an expression is evaluated first: `MathExp` is `shell_eval_math_exp`, one
action per iteration of its two loops. `Shell` extends it, starts an evaluation
(`SetExp`) and stores its result (`Store`).

`Floats` is the machine's arithmetic: a float is `m * 2^e` with an odd `m` of
`Precision` bits, each operation gives the exact result rounded to nearest, ties to
even, with infinities and NaN; an `int` wraps; a cast to `int` cuts the fraction off
and gives `INT_MIN` for what does not fit. `atoi` reads the numbers of an expression
as ints, and each is converted to a float before anything is done with it (`Apply`).
The result is stored as a FLOAT if there is a `/` in the text and the float has a
fraction, as an INT otherwise (`Converted`): `1/41*41` becomes the FLOAT 0.99999994.

The reference (`Scanned`, `Total`) is an evaluation in one pass with a sum and a
product, in the order of the rules of precedence. It uses the same machine
operations, so that it differs from the code's algorithm only in how that finds the
next operation to carry out: the values that the two give are equal to the last bit,
or the property is violated. `Numerals` has the decimal formats of `printf`: `putf`
takes the whole part off and multiplies the rest by ten, six times, in floats (`42/5`
prints 8.399999). How a reader takes what is printed (`ReadsAs`) is independent of
that: the whole part exactly, the six places to one in the last. `echo` and `vars`
print through it. `Char` are the characters that can be typed and `Session` says
which lines of them may be entered first, second, third; together they bound a run
and leave the proofs free.

### The shell's memory: `ShellMemory`, `ShellMemoryProofs`, `MCShellMemory`

The composition of the shell with `Heap`: every line becomes the sequence of
`malloc` and `free` that its command makes (`Executed`), and `Heap`'s actions
execute it, loop by loop (`Calls`, `Allocates`, `Walks`, `Frees`). A line is a
record of what decides about memory: sizes, whether the path is found, whether the
text is an expression, what stands behind an empty last argument. `Left` counts what
a line leaves behind by the code's own omissions; nothing else may stay.

Between the calls the commands write outside of their blocks:

| action | code | what it writes |
|---|---|---|
| `Stray` | `set_variable` | a NUL behind the block: where a header begins there it clears the low byte of its `len` (`LowByte`), which may only make it smaller |
| `StrayUnder` | `shell_combine_strings` without arguments (`ls`) | a NUL before the block: the highest byte of its header's `next` (`HighByte`), which is 0 already |
| `Spills` | `strncpy` with size 0, for a last argument that is empty; `cat`, for a file longer than it says | characters behind the block, up to the next NUL |
| `Overwrites` | `edit` of a file that exists; `touch` and `mkdir` that grow a directory into a block outside the device | the heap's first header; whatever lies there |

The first two are carried out. Of the other two the model says whether they hit a
header; if so, `intact` is false from then on and the model stops, since what
follows depends on the bytes. `Risky` names the lines that can do that, from the
line alone: `Apart` claims that blocks are separate as long as `intact` holds, and
that no other line ends it. `VariablesKept` and `GivesBack` are claimed while it holds.

### Boot: `Boot`, `BootProofs`, `MCBoot`

From `start` in boot.asm to the shell, a step per iteration of a loop and per
byte written to a port: the three checks, the page tables, paging, SSE, the gates,
`lidt`, `remap_pic` and the masks, `sti`; then, with interrupts on, `extract_mmap`,
`initialize_heap` and the assignments of `scheduler_init`. The two 8259 controllers
are outside the repository; they are modelled by what the bytes do to them and by
which lines they let through (`Reaches`). `Interrupt` is a whole handler: the
keyboard's, or the timer's with `schedule` on whatever there is of the ready list.
`Infos` are memory maps as a boot loader gives them, tag by tag.

Interrupts arrive at every point after `sti`. At one of them a tick does harm:
between `start_of_ready_list = ...` and `end_of_ready_list = ...`
(scheduler.c:178-179) `switch_to_task` links the current task through a null
`end_of_ready_list`, at address 16, which lies in the header of a heap at address 1.
`DamageConfined` says that the header is overwritten there and nowhere else, and
only if the heap is there; `BootScribbles.cfg` shows it happen.

## 3. The runs

All runs take between a second and a minute and a half. Deadlock is checked unless noted.

| run | checks | bounds, and why they suffice |
|---|---|---|
| `heap` | tiling, live blocks, coalescing, refinement, termination | 150 bytes are six headers: up to five segments, exact fits, splits that leave one byte, refusals and every pattern of free neighbours occur. Address 0, as the first entry of a PC's memory map has |
| `scheduler_interleavings` | consistency of states and terminated PCBs; sleepers hear the timer; created processes run | three processes as in the source, two rounds each, sleeps of one tick |
| `scheduler_round_robin` | refinement of `RoundRobin` | one process ends, so that one stale PCB is in the list; with two, the refinement fails (`LosesTasks.cfg`, section 6) |
| `scheduler_storm` | locks, reuse of PCBs | ticks everywhere, time is up after three ticks, five creations for three PCBs besides task 0's |
| `switch` | no task and no stack lost, one rotation per handler, every task runs again | four tasks, so that a nested handler finds a list of two, one held task and the current one; two handlers on one stack, on each of the four stacks |
| `terminal` | cursor, order of keys, Enter; what is seen is what is read | four key events of nine keys (Esc, tab, both modifiers, a release among them) in any order and at any point, 4 x 2 cells, a buffer of 4: the row ends before, with and after the buffer, depending on where the line begins; wrap, tab and scroll occur |
| `files_roomy` | refinement of `DirectoryTree`; `tree` shows everything | 4 inodes, 5 blocks of 3 slots; inodes run out |
| `files_crowded` | one entry, one owner, no cycle | directories of two blocks of two slots, stale bits at boot; inodes run out, and the last free block lies outside the device |
| `shell` | names, texts and values of variables, what `echo` prints | first line: `set a` with all strings of four characters over 0, 2, operators, space, all chains of four numbers over 0, 2, 3, all mixes of five letters and spaces, and numbers that are hard for a machine: 2^24 + 1, `1/41*41`, `42/5`, thirds, products beyond an int and beyond a float, infinity minus infinity; two more lines that set the same name or another, or print. `Precision`, `MinExp` and `MaxExp` are those of a 32-bit float. `INT_MAX` is 2^25 - 1, since the integers of TLC have 32 bits themselves: it lies above 2^24, so that an int that is no float exists |
| `memory` | blocks apart, variables keep theirs, lines give back theirs | four lines of eighteen kinds in 4000 bytes, `edit` of a file that exists, empty last arguments of `set` and `cd`, `ls` without a path, a directory that grows out of the device and a `cat` that copies too much among them; segments longer than 255 bytes, so that a stray NUL matters; reuse of freed blocks of every kind |
| `boot` | interrupts find their handlers; the heap's place; where its header is damaged; ticks and keys are served | interrupts at every point; four machines, three memory maps (a PC's; one behind a tag of 13 bytes, with two mmap tags and entries of 32 bytes; one whose first region has 16 bytes), three page table entries, which reach to the handlers |

`CHECK_DEADLOCK FALSE` stands where the system really may stop: a process that
returns from `terminate_task` runs off its stack (`wild`), a file system that is
full or has been written over does nothing any more; a machine that fails a check
halts in `boot`; and the sessions of `shell` and `memory` are over after three and
four lines.

`Horizon` stops the clock of the scheduler. In runs where `Horizon` is less than
`MAX_TASK_TIME` the time of no task is ever up; these runs are about the first
100 seconds, and the clock's value does not matter in them.

The remaining run, `loses_files`, is the counterexample of section 6.

More configurations are kept to be run by hand (`tlc -config X.cfg M`). Two of
them pass: `SchedulerNominal.cfg` (with `MCScheduler`) checks that `test_scheduler`
ends, with the constants of the source: 11 rounds, 1800 ticks (100 s at 18 Hz),
sleeps of 36 ticks; `SchedulerAccounts.cfg` checks the types of the scheduler, its
lock counters (`LocksAccounted`), `process_count` (`CountExact`) and
`PausedOnlyLate`. The others show a property violated; section 6 lists them. Where
one names several properties, TLC stops at the first; `-continue` finds them all.

## 4. Fairness

* Heap: `WF(Step)`. The loops wait for nothing.
* Scheduler: `WF(PitTick)`: the timer ticks as long as interrupts are on and
  needs no acknowledgement that the code withholds (`pic_end_master` comes before
  `schedule`). `SF(currentPCB = i /\ TaskStep)` for each task: a tick is 55 ms,
  millions of instructions, so a task that is current again and again gets on.
  Weak fairness would allow a tick before each single instruction of a task.
* Switch: `WF` of ticks while no handler runs, `SF` of the handler's steps for each
  task and depth: a nested tick is 55 ms away from the last, a handler takes
  microseconds. Ticks inside handlers need not come.
* Boot: `WF(Step)`, the processor goes on; `SF` of the timer's and of the keyboard's
  interrupt: a line that is let through again and again, as it is whenever no line
  of higher priority is raised, is served.
* Terminal: `WF(Main)`. The main loop only waits for the timer, and keys are
  finitely many in a run. No fairness for keys: a user may stop typing.
* Shell: `WF(Evaluate \/ Store)`, loops that run. No fairness for lines: they come
  when the user enters them, as do the commands of Files, which has none.

## 5. The proofs

All for arbitrary constants under the named assumptions of the modules
(`HeapAssumption`, `SchedulerAssumption`, `TerminalAssumption`, `FilesAssumption`,
`SwitchAssumption`, `LinesAssumption`, `FloatAssumption`, `SessionAssumption`,
`BootAssumption`), which
say only that sizes are numbers, the arena holds a header, names have one to seven
characters, the screen fits into bytes, there are three tasks or more, a float has a
bit or more, lines are made of the characters that can be typed, a processor with long mode has SSE, the
page tables reach to the handlers, and the boot loader's tags lie one behind the
other, each where the one before ends, up to an end tag, and offer one to ten regions.

In each module an invariant, `IInv` or one of a similar name, is shown to hold
initially and to be kept, by a lemma for each action, and one theorem combines
them. The invariants were model-checked before they were proved; no run repeats
them, as their parts that mean something to a user of the code are properties of
the runs.

* `HeapProofs`: `TypeOK`, `Tiling`, `LiveIsUsed`, `Coalesced`, `RefinesAbstract`.
  `Tiling` is not inductive: that the successor's address is where a segment ends
  does not say that nothing lies in between, so `IInv` adds `Disjoint` and
  `Covering`. `Walked` says what a walk has passed over was of no use; with
  `Covering` it gives the reason that `Refuse` needs: a run of free bytes longer
  than the request and two headers lies in one segment (as no two free ones are
  neighbours), and that one would have been split. `Merged` says that merging
  leaves no pair behind its cursor.
* `SchedulerProofs`: `TypeOK`, `RunningIsCurrent`, `LocksHeld`, `FreedBeforeGone`,
  `PausedOnlyLate`, `GoneStaysGone`, `ReusedOnlyGone`, for any number of tasks and
  any `Calm`, in particular with ticks everywhere. `Started` carries it: a task
  that is gone is TERMINATED, and that keeps `schedule` away from it although it
  is linked; `Linked` says the lists hold only claimed PCBs, `Creator` that only
  task 0 creates. `SleepersHearTimer` holds of the runs in which every task has
  started before the first one ends (`StartedFirst`), as in `test_scheduler`, whose
  processes sleep for seconds. It cannot do without: a task that is new gets the
  interrupt flag as the lock counter leaves it, and the counter never returns to 0
  once a task has ended.
  Then the refinement `IsRoundRobin`, with ticks anywhere but in `process_create`
  (where they find the list half linked), as long as three tasks are left
  (`ThreeLeft`; with two, a stale `next` becomes the list's start: `LosesTasks.cfg`)
  and no task's time is up (`InTime`, the first 100 s; afterwards `Starves.cfg`). `QueueInv`
  gives a sequence through which the links lead from `start` to `end` and which has in
  it exactly the tasks that wait; `QueueHere` says that `ReadyQueue`, which follows the
  links, then finds that sequence and no other. A tick takes its head off (`HeadOff`)
  and puts the current task behind it (`TailOn`), and what other tasks do, stale links
  of ended ones included, does not touch it (`ListStays`).
  `CountExact` holds if `process_count++` and `--` are not interrupted, and
  `LocksAccounted` if all processes are created before the first one ends
  (`CreatedFirst`, as in `test_scheduler`): a PCB that is reused is counted once.
* `TerminalProofs`: `TypeOK`, `OnScreen`, `NoKeyTwice`. `Mailbox` orders the keys
  in the mailbox, in getch's hand and used; `Bounds` says where `putc` may be
  between its steps. `LineShown` needs no hypothesis: `EInv` adds to the invariant
  that `AsTyped` holds as long as every key has followed. `AsTyped` says for each
  place in the interleaving of `putc`, `fgets` and the interrupt what stands on the
  screen behind `home`: the buffer, and the character that is echoed but not yet
  read, or the one that is erased but not yet forgotten; and that `line_len`, by which
  the handler decides whether a backspace erases, is high enough for what is there.
* `FilesProofs`: `TypeOK`, `OneEntry`, `OneOwner`, `Descends`, `Created`.
  `Increasing` is what makes `Descends` inductive: the first unset bit of a
  bitset of which nothing is ever cleared lies behind all inodes created before.
  Then the refinement `IsDirectoryTree` and `NoPathNoChange`. `WalkResolves` follows
  a path in the code and in the tree side by side; they differ for one step where
  the path leads through a file, and for good where a directory's name has one
  character, hence `LongNames` (without it: `SkipsLetters.cfg`). `TreeInv` says that a
  directory's entries lie side by side from its first slot on, with different names;
  then the place that `fs_dir_add_entry` finds lies behind all entries (`PlaceIsLast`),
  a name is found where it was written (`LookupHere`), and a new entry adds one
  child (`AddedTree`). It needs `LastFree`, no entry in a block's last slot,
  which is true of every directory of up to 30 entries: with the 31st the finding of
  section 6 begins. It also needs that the bit of the last block is not set at boot
  (`BLOCKS \notin BlocksAtBoot`): then a block is always left (`Spare`), because the
  last one lies outside of the device (`LastOutside`) and is the end of the model when
  it is used. Otherwise `NoBlockLeft` would create an inode without an entry. Inodes
  that run out and memory that was not clear need no hypothesis: an entry without an
  inode changes nothing of the tree.
  `TreeShows` follows for the same directories. `Part` says of a list of lines that
  each is below the directory it belongs to, that none is there twice, and that
  nothing is missing below those that are there. The lists of a directory's entries
  have nothing in common (`NothingCommon`) and one behind the other make such a list
  again (`JoinParts`), a directory's line with its contents moved one level in does too
  (`PartBelow`), and so does what `print_fs_tree` prints of each directory, from the
  last inode up (`TreePart`), as contents are created after their directory.
* `SwitchProofs`: `EachOnce`, `ContextKept`, `RotatesAtOnce`, for any number of
  tasks, any depth and any `Windows` among `enter`, `held` and `return`. The
  invariant says where frames lie: all but the innermost of the current stack are
  at a window or suspended, at most one is suspended per stack, on top and where
  `tos` points; the list is the queue, and next to it the tasks that frames hold.
  `taken` is left to TLC: there a nested handler takes the same head.
* `ShellProofs`: `TypeOK`, `NamesOnce`, `HoldsText`, `HoldsValue`, for lines of any
  characters and any length, and floats and ints of any precision and range: nothing
  is assumed of the machine's operations but that they give floats (`RoundedType`); the
  proof uses none of the laws of arithmetic, which they do not obey. `CutJoin` says
  that joining what was cut at spaces gives the text back; `ScanHead` and
  `AfterReduce` that an iteration of `shell_eval_math_exp` leaves the value of what is left of the expression as it is, which is the invariant
  of the two loops: numbers and operators shift down, and the value that the reference
  gives them does not change.
  `EchoIsShown` goes on from there to the digits, for texts and for expressions that
  do not divide (`Undivided`), whose values are ints: what `putd` prints of a number
  that is not below 0 is read as that number (`putdReads`; `putdIs` first shows that
  there is a function as its definition says). It needs of the list that no name has
  a space in it (`AllEchoed`), so that `$name` is one argument (`EchoArgv`). How far
  the six places of `putf` are off is a question of the precision; the run answers it.
* `ShellMemoryProofs`: `Apart`, for any lines: that nothing but a line that `Risky`
  names ends `intact`, and what holds while it lasts. The heap's own invariant is of
  no use once a length has shrunk: segments then have gaps between them. `NextFollows`
  says that the list still visits every header in order, `HasHeader` that each block
  has one; the NUL of `ls` changes nothing, as every header lies below `HighByte`. `VariablesKept` and `GivesBack` need to know of a line in progress what it
  will still do. `BlocksInv` says it of every rest of `todo`: the blocks it frees or
  links are held by its pointers and by no variable (`Need`, `Orderly`), and the blocks
  in use now and those it gains come to what the line is to leave (`Gain`, `Counted`).
* `BootProofs`: `DamageConfined` and `Vectored`, with interrupts anywhere. `Spared`
  says that before the last two assignments of `scheduler_init` there is no list, or
  one with an end. `Vectors` and `Controllers`
  say, for every byte of `remap_pic` that has been sent, what the controllers hold.
  `FirstRegion`: what `extract_mmap` has copied are the available entries of the tags
  it has passed, in their order, for any map.

Induction over data. The library's induction theorems take an operator, which no
installed prover instantiates. `Least` (a set of natural numbers that is not empty has
a least element, from `WellFoundedInduction`) and `Ind` (induction up to a number for
a set) are about sets instead, and serve as well. `FoldExists` and `FoldSteps` make a
sequence of partial results of a fold; `EnterSteps`, `DescendSteps` and the other
`...Steps` do that for one operation each, and the induction is along that sequence.

Only model-checked: everything with fairness (`CallsReturn`, `CreatedRuns`,
`RunsAgain`, `Handled`, `EnterEnds`, `Evaluates`), which TLAPS does not support; and
`EchoShows` of expressions that divide.

## 6. Findings

One run must find its property violated; PROJECT.json quotes the line of the code
that states the property.

| run | what happens |
|---|---|
| `loses_files` | the last entry of a directory block is overwritten once the next block is in use |

The same for configurations that are run by hand:

| configuration, module | property | what happens, and what the code says |
|---|---|---|
| `LosesTasks.cfg`, `MCScheduler` | `TestEnds` | two processes end a tick apart (sleeps of 36 or 37 ticks); `schedule` follows the `next` of the terminated PCB (scheduler.c:316), the list becomes empty, and task 0 never prints "Test ended" (scheduler.c:302) |
| `Starves.cfg`, `MCScheduler` | `KeepsRunning` | 100 s after start every process is paused at each tick, the list runs dry and one task keeps the processor of the "preemptive round robin scheduler" (scheduler.c:1) |
| `SchedulerWindows.cfg`, `MCScheduler` | `StartsAtEntry` | a process is run before its stack with the "entry point" (scheduler.c:222-223) is written |
| the same | `EndsWhenDone` | a tick inside `process_count++` (scheduler.c:272) loses an update: "Test ended" (scheduler.c:302) while processes run |
| `SwitchLoses.cfg`, `MCSwitch` | `EachOnce` | a tick arrives in `switch_to_task` after the old task is linked and before `currentPCB` is set (task.asm:50-55): a task is lost from the list |
| `BootScribbles.cfg`, `MCBoot` | `HeaderKept` | a tick between scheduler.c:178 and 179 overwrites the heap's first header |
| `OverwritesHeader.cfg`, `MCShellMemory` | `HeadersIntact` | `edit` of a file that exists writes through an address made of its inode's first bytes, over the heap's first header (shell.c:466, fs.c:119-145); an empty last argument makes `strncpy` run on (shell.c:178, string.c:38-46) |
| `MemoryRunsOut.cfg`, `MCShellMemory` | `MemoryLasts` | paths that are not found are never freed; in the end `malloc` returns 0, and the shell writes to it |
| `PrintsNegatives.cfg`, `MCShell` | `EchoShowsAll` | `set a 0-3`, `echo $a` prints `'0' - 3`, a minus sign (stdio.c:124), and of a negative fraction nothing behind the point (stdio.c:132) |
| `ForgetsSwitchTime.cfg`, `MCScheduler` | `SwitchTimeRecorded` | "move return value from stack to XMM0" (task.asm:59) moves the saved `rbp` there instead: `PIT_get_counter` returns in `xmm0` |
| `SkipsLetters.cfg`, `MCFiles` | `NoPathNoChange` | `touch a/file` without a directory `a` creates `file` in the current directory, where "path doesnt exist!" (shell.c:395) is the answer: components of one letter are skipped (fs.c:207) |
| `LeavesDevice.cfg`, `MCFiles` | `BlocksInDevice` | `superblock + sizeof(...)` counts in units of 40 bytes (fs.c:26): blocks lie beyond the memory allocated for the device |
| `EditMisses.cfg`, `MCFiles` | `EditWritesFile` | `edit` takes an inode for a directory entry (shell.c:466) and never writes the file whose new contents it asked for |
| `TerminalFaults.cfg`, `MCTerminal` | `CursorShown` | "Send the high cursor byte" (vga.c:62): the two halves of the low byte are sent |
| the same | `NoKeyLost` | a key, or the release of one, overwrites a character that `fgets` has not read yet (keyboard.c:64) |
| the same | `InBuffer` | backspaces that are counted on the screen but not in the buffer lower the index below 0 (stdio.c:196) |
| `LosesVariables.cfg`, `MCShell` | `OnlyValueChanges` | "we only change its value" (shell.c:292): `set_variable` ends with `next = 0` and drops the older variables |

## 7. Not modelled

* Registers. The switch saves four of them; the SSE registers, in which the C code
  computes its floats, and the red zone below the stack pointer, which only
  interrupts.c is compiled without, are not preserved across a tick. A task's context
  here is the handlers on its stack.
* Ticks inside a handler while a task ends, is created or is paused: `Switch` has the
  handler step by step, `Scheduler` has these operations.
* `unblock_task`, `idle_task`, `locks.c`, `atof`, `strchr`, `PIT_set_frequency`,
  `pic_end_slave`, `get_offset`, `panic`: nothing calls them.
* The exception handlers, which print and loop for ever; `reboot`, which ends the
  system; the spurious interrupts of the controllers, which have no gate.
* Contents of files: `edit` and `cat` take an inode for a directory entry and never
  address the file they found (`EditMisses.cfg`). Names longer than seven characters
  in the file system (the code's limit is 123). `pwd`, `help`, colours, `cls`, the
  greeting, hexadecimal numbers: output without a decision in it.
* The file system's initialisation in `kernel_main` is the initial state of `Files`
  and not a step of `Boot`.
* Several tasks that print: in the system as built, the shell and the keyboard
  are the only ones, since `test_scheduler` is not called from `kernel_main`.
* In `Floats`: minus zero, which the shell's expressions do not give. No run reaches
  floats below the least normal one (`MinExp`): the lines that would are too long.
  Strings of 100 characters or more, which do not fit the code's buffers.
* In `ShellMemory`: what happens after a header has been overwritten, what blocks
  contain, and writes to buffers on the stack. Its heap is fresh; in the kernel the
  file system's device is allocated before the shell starts.
* A memory map with no available region or with more than ten (`BootAssumption`).
* The in and out instructions of `io.c` and `ports.c` have no model of their own.

## 8. Plan

Done, in this order: heap with refinement and proofs; scheduler; file system;
console; shell with arithmetic; the switch at the granularity of its instructions;
the shell on its heap; boot; printing; the machine's floats; the writes of the
shell's commands outside their blocks.

Proved since: the shell's variables and its arithmetic; the variables' memory and what
lines give back; the heap's place and where its header is damaged; the line on the
screen; the sleepers; paths and the directory tree; the listing of the tree; round
robin, the process count and the leaked locks; the digits that echo prints.

Next: the window `taken` in `SwitchProofs`; how far the places that `putf` prints are
from the value, for 24 bits.
