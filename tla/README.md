# Verification of LukeyOS

LukeyOS is a 32-bit multitasking kernel for one x86 CPU: preemptive round-robin
scheduling, processes with fork/execve/wait/exit, recursive mutexes and counting
semaphores, terminals, paging and a small file layer. This directory holds TLA+
models of its concurrent core, the TLC runs that check them on small instances,
and TLAPS proofs of the most important theorems for every instance.
Paths below are relative to `src/LukeyOS/start/source/`. `PROJECT.json` maps each
definition to the lines it models.

## 1. The system

### What runs, and what can interrupt what

There is one CPU. Kernel code runs

- in **system calls**, entered through a call gate with interrupts *enabled*: the
  clock can take the CPU from a system call between any two instructions;
- in **interrupt handlers** (clock every 10 ms, keyboard), entered through
  interrupt gates with interrupts disabled;
- in **protected stretches** between `irq_enter_protection` and
  `irq_leave_protection`, with interrupts disabled.

A handler or a protected stretch is therefore one atomic action; everything else is
cut into one action per access to shared state. A stretch that ends in
`task_dispatch` switches to another task in the middle; the rest of the caller's
code runs when it is dispatched again.

### Components

| Component | State | Operations | Interacts with | Hard part |
|---|---|---|---|---|
| Scheduler, `kernel/core/task.c` | ready list, sleep list, current task; per task: state, slice, sleep ticks | `task_set_ready/block`, `task_dispatch`, `task_start`, `task_time_tick`, `sys_msleep`, `sys_yield` | called by everything that blocks or wakes | one list node per task for all lists; a task that is in no list is lost; slice end and wakeups in one interrupt |
| Mutex, `kernel/ipc/mutex.c` | count, owner, wait list | lock (recursive), unlock with hand-over | scheduler | lost wakeups, a free lock with waiters |
| Semaphore, `kernel/ipc/sem.c` | count, wait list | wait, notify (also from the keyboard interrupt) | scheduler | a permit lost or given twice |
| Processes, `kernel/core/task.c` | task table, parents, GDT entries, a mutex for the table | `sys_fork`, `sys_wait`, `sys_exit` | scheduler, mutex, memory, files | hand-over of children, dangling parents, reaping against exiting, slots and GDT entries that look free while they are being used |
| Lists, `kernel/tools/list.c` | links in the nodes | insertion at both ends, removal of the first and of any node | scheduler, ipc | no check that a node is in the list, or in none |
| Terminals, `kernel/dev/tty.c`, `console_write` of `kernel/dev/console.c` | two rings, a semaphore for each, the console's mutex | `tty_read`, `tty_write`, `tty_in`, `console_write` | semaphores, mutex, keyboard interrupt | the rings are tested outside the protection; the permits and the rings change at different times |
| Console display, `kernel/dev/console.c` | screen, cursor, colours, escape parameters | characters, scrolling, escapes | `console_write` | limits of arrays and of the screen, sequential |
| Keyboard, `kernel/dev/kbd.c` | modifier keys, a pending prefix | the interrupt: scan codes to characters and terminal selections | `tty_in`, `tty_select` | shift against caps lock, prefixes |
| Memory, `kernel/core/memory.c`, `kernel/tools/bitmap.c` | page bitmap, page tables | allocate, map, copy and destroy an address space, `sys_sbrk` | fork, wait, execve | failures half way, double frees, leaks |
| Files and devices, `kernel/file`, `kernel/dev/dev.c` | file table with reference counts, descriptors per task, device table | open, read, write, dup, fork's inheritance | memory image of the disk, terminals | shared position of the loaded image, counts changed without the lock, failure paths of open |
| Loading, `sys_execv` in `task.c` | page directory of the caller, position in the image | load, switch | memory, files | failure paths, the old address space, the shared position |
| Interrupts, CPU, boot, loader, library, shell | tables, ports, start-up | - | - | sequential or pure I/O |

What makes each correct: the scheduler loses no task and starves none; a lock and a
semaphore serve first come, first served, and lose no wakeup; a process is reaped
once, when it is dead, by a parent that is alive and is told; the rings are never
overrun, nothing typed is stranded and nothing written stays hidden; a page belongs
to one owner and comes back once; a file lives as long as a descriptor refers to it.

## 2. The modules

| Module | Models | Notes |
|---|---|---|
| `KList` | a list as the sequence of its nodes | removal of a node; what a scan of a list leaves |
| `Lists` | what the callers of `list.c` count on | abstract: a sequence per list |
| `LinkedList` | `list.c`, pointer by pointer | implements `Lists` |
| `Sched` | the scheduler | one action per handler |
| `Blocking` | what locks and semaphores promise | abstract: holders, permits and queues, no scheduler |
| `Ipc` | `mutex.c`, `sem.c` on `Sched` | implements `Blocking` |
| `Process` | `sys_fork`, `sys_wait`, `sys_exit` on `Ipc` | each call a chain of steps, `pc` says where a task is |
| `Tty` | the terminal on `Blocking` | each process a chain of steps; `tty_in` is one step |
| `Memory` | `memory.c` with `sys_fork`, `sys_exit`, `sys_wait`, `sys_sbrk`, `sys_execv` as its users | one action per page that is taken or given back |
| `Bitmap` | `bitmap.c` | functions |
| `Files` | `file.c`, `file_sys.c`, `dev_open`, the descriptors of a task, `load_elf_file` | steps from one access to shared data to the next |
| `Console` | what `console.c` does with a character | functions |
| `Keyboard` | what `kbd.c` does with a scan code | functions |
| `SchedProofs`, `IpcProofs`, `ProcessProofs`, `TtyProofs`, `FilesProofs`, `MemoryProofs`, `LinkedListProofs` | theorems | section 5 |
| `Numbers` | lemmas: least elements, induction and recursion up to a bound, quotients | for the proofs |
| `MCSched`, `MCIpc`, `MCProcess`, `MCLinkedList`, `MCTty`, `MCMemory`, `MCFiles` | instances for TLC | constants that are expressions |
| `MCEnds` | `Console` and `Keyboard` compared with definitions of what they are for | assumptions, evaluated with the run `Tty` |

`Process` extends `Ipc`, which extends `Sched`, which extends `KList`: a task that
blocks on the table's mutex really leaves the ready list, and the clock preempts
wherever the code can be preempted. `Tty` stands on `Blocking` instead of `Ipc`: the
scheduler adds to it only that ready tasks run, and `Ipc` is proved to implement
`Blocking`, so the terminal keeps its state space for itself. `Memory` and `Files` stand
alone for the same reason: they share `sys_fork`, `sys_wait` and `sys_exit` with `Process`, each
with the part of the call that touches its own state, and the order of the steps is the same.
What one of them leaves to another (which slot a fork gets, how a wait sleeps) is named in its
comments.

Definitions named `Slip_...` are plausible coding errors, placed before the
definition they imitate. Nothing uses them; they say what each property is sensitive
to (`PROJECT.json`, "mutants", pairs each property with one that breaks it).

### How the state and the actions correspond to the code

**Sched.** The variables are the fields of `task_manager` and of `task_t`.
`task_dispatch(ready, states)` takes the list and the states its handler leaves, and
gives the CPU to the head; every handler ends in it, except `task_start`. The idle
task is never listed (`task_set_ready` and `task_set_block` pass over it). The states
are the code's: a task that is blocked on a mutex keeps the state it had, because
`task_set_block` sets none. `sys_msleep` computes its ticks in `Word` (2^32) wide
arithmetic, and the decrement of `sleep_ticks` wraps as an `int` does. The library's
`msleep`, the only way to the call, is part of the model: the kernel's rounding alone would
lose a task for the nine largest arguments (`MsToTicks` gives 0), and the library does not
let them through.

**Ipc.** The callers are arbitrary: any running task may lock, unlock, wait or notify
at any time, and `sem_notify` may also come from the interrupt while the idle task
runs. `mutex_unlock` by a task that is not the owner changes nothing, so it has no step.
The comment above `mutex_unlock` (mutex.c:46) says that one unlock undoes all locks of the
owner; the code (mutex.c:54) undoes one, as a recursive mutex does, and the model
follows the code.

**Process.** The steps of `sys_fork` are `fork` (the lock), `alloc_task_scan`,
`alloc_task_unlock`, `gdt_alloc_desc`, `tss_init`, `task_init`, `fork_start`, and on
failure `task_uninit`, `free_task_lock`, `free_task`. A slot looks free while its name is
empty (`named`); a GDT entry while its attribute is 0 (`gdt`). Memory may run out at any
allocation of `tss_init`: a nondeterministic choice. `sys_wait` is `wait`/`wait_lock`,
`wait_scan` (with the reaping, under the lock), `wait_unlock`, `wait_sleep`; `sys_exit`
is `exit`, two steps for each slot (`exit_adopt`, `exit_look`), `exit_unlock` and the
protected end `exit_final`. A task that waited for the mutex resumes as its owner,
because `mutex_unlock` hands it over. Steps that touch no shared state are merged into
their neighbours. The scan of the table is one step: a child that exits is found by
this scan or announces itself to the next (what lies between is `wait_sleep`). So is the search of
`gdt_alloc_desc`, which has a mutex of its own around it (cpu.c:76). Left out is `task_list`: `task_init` links the
task in it (task.c:149), nothing takes it out, the memset of a reaping clears its node while it is linked
(task.c:446, task.c:885), and the next `task_init` of the slot links it again, which breaks what
`list.c` counts on. Nobody reads that list, so no other state depends on it.

**Tty.** `pc` tells where a process is in `tty_read`, `tty_write` or `console_write`.
The test of a ring and the access to it are two steps (`tty_write_look`,
`tty_write_put`; `console_write_look`, `console_write_get`; `tty_read_look`,
`tty_read_get`), because `tty_fifo_put` and `tty_fifo_get` test before they disable
interrupts. `tty_in` runs in the interrupt and is one step. A reader that finds the ring
empty uses an uninitialised variable: any character. The rings hold who wrote the
character, or which keystroke it was, only to state the properties.

**Memory.** A page is a number, and `mem` is what the pages hold, read as directories and
tables, so an address space is what a walk over it finds. The walks `memory_copy_uvm`,
`memory_destroy_uvm` and `memory_alloc_for_page_dir` are one action per call of
`addr_alloc_page` or `addr_free_page`, the only accesses to what processes share, and between two
of them any other process may run. Every allocation may find memory exhausted, and then
the code's own failure path is followed:

- `tss_init` frees the kernel stack (task.c:97) and `task_uninit` frees it again (task.c:437): if the
  page has gone to somebody else in between, the model stops with `halted = "freed twice"`.
- `memory_copy_uvm` returns -1, `sys_fork` takes it for an address (task.c:514), the child is started
  with it and the machine resets: `"reset"`.
- `memory_alloc_for_page_dir` returns 0 without a frame (memory.c:280), so `sbrk` and `execve` go on
  with pages that are not there: `execve` may then have no place for its arguments, `"no stack"`.
  Without a table it frees by virtual address, which is outside the bitmap, and the frame is
  lost.
- `load_elf_file` changes `heap_end` (task.c:679) before `execve` can still fail; the next `sbrk` of the
  old program maps a page that is there: `"mapped twice"`.
- `sbrk` of a process whose `heap_end` is not in its space, the first task and every child of a fork before
  its `execve` (task.c:145, and task.c:226, where a comment says that it is not right), stops at the
  assertion of `memory_create_map`: `"heap outside"`; unless there is no page to map, when it succeeds.

`lost` remembers the pages that the code forgets even when all goes well: the directory of
`tss_init` at each fork, and the old space at each `execve`.

Where the model is narrower than the code: a heap ends below the stack (a bound in `sbrk_pages`; the code has no
such check, memory.c:548-574, and a heap that grows into the stack stops at the assertion of
`memory_create_map`). A program is one segment from the beginning of the user's space, while
`load_elf_file` loads every program header (task.c:642-681) and leaves in `heap_end` the end of the last one, wherever
that lies: `HeapMapped` is about programs whose last segment ends highest and that leave no page between
segments. After a frame that was not there `load_phdr` goes on (task.c:567-570), and reads the image to physical
address 0; the model goes on too, without the contents. `task_uninit` frees the stack, clears the slot and calls
`free_task` in one step: the slot is free for others as soon as it is cleared, and the mutex of the table, for
which `free_task` may wait, is in `Process`.

**Files.** `file_alloc` and `file_free` are one step under their mutex. A reference is counted by a
read and a write of `ref`: `file_inc_ref` keeps the mutex for the two, `sys_dup` does not take it.
`dev_open` runs with interrupts off and is one step. `sys_close` is empty and `sys_exit` only
drops the descriptors, so files and devices are never given back: `left` counts those
descriptors. With the file table full `sys_open` goes on without a file, opens the device, and
writes through a null pointer; page 0 belongs to the kernel, so the write succeeds. `sys_read` ignores the
descriptor it is given, if it is not that of the image: it sets it to 0 (file.c:151), so every read goes to the terminal of descriptor
0 (`tty_read`), while `sys_write` goes to that of its descriptor (`tty_write`). `opened` remembers which terminal a
descriptor was opened for, through dup and fork, and `DescriptorsReach` compares the two. `sys_open` of a name that begins with a
slash fetches the image from the disk with interrupts on and no lock (`read_disk`), and only then sets the position
(`open_image`): opens and loads that meet there are marked as disturbed. `load_elf_file` reads
the image in steps of one read, each a copy from `temp_pos` and a step of it, while other
processes move the same `temp_pos`. What a load makes of a header that is not its own is not
followed. `sys_open` of any other name has no return statement, and no effect.

**Console, Keyboard.** Neither has concurrency of its own: characters come to the console
under its mutex (`Tty`), codes to the keyboard in the interrupt. They are functions from one state and one
character or code to the next. In memory the index of the escape parameter lies behind the
parameters, and the model keeps it there: the digits of an eleventh parameter change the index. A
write beyond that, or beyond the screen, is noted in `spilled` and not followed.

## 3. What each run checks

| Run | Instance | Properties |
|---|---|---|
| `Sched` | 3 tasks, slice 2, a 16-valued word and all its `int`s as arguments of `msleep` | `OnePlace`, `CurrIsHead`, `SleepersCount`, `NoOvertaking`, `ReadyRuns`, `SleeperWakes` |
| `Ipc` | 3 tasks, 1 mutex locked up to twice, 1 semaphore | `EveryTaskInOnePlace`, `LockConsistent`, `NoPermitWhileWaiting`, `KeepsPromise`, `WaiterIsServed` |
| `Process` | first task and 3 slots, 3 GDT entries | `EveryProcessInOnePlace`, `ParentsAlive`, `OwnTss`, `FreedWhenDead`, `ParentIsTold` |
| `ProcessLive` | first task and 2 slots | `CallsReturn` |
| `LinkedList` | 2 lists, 4 nodes | `WellLinked`, `ImplementsLists`, and the assumption `ScanKeepsOrder` |
| `Tty` | 1 reader, 1 writer, rings of 2 and 3, 3 keystrokes | `NoOverrun`, `Shown`, `NothingStranded`, `LineFits`, `RingsAreQueues`, `WriteReturns` |
| `Memory` | 3 processes, 16 pages, 3 tables of 2 entries, 4 calls | `OneOwner`, `AllAccounted`, `HeapMapped`, `HaltsOnlyWhenStarved`, `Isolation`, `ForkCopies`; `FirstFree`, `FreeUndoes`, `OneBitShort` for `Bitmap` |
| `Files` | 3 processes with 3 descriptors, 2 files, 2 devices, 2 terminals, 3 program headers, 5 calls | `RefsRight`, `DescriptorsReach`, `LoadsRight` |

With the run `Tty` TLC also evaluates the assumptions of `MCEnds`, each over all inputs up to a length:
`ScreenIsPaper` (the screen shows the lower end of what was written, as on paper, as long as the last
cell of the screen is not filled), `BelowForever` (from then on the cursor is below the
screen, whatever is printed), `DelTakesBack`, `RestoreGoesBack`, `CursorGoesThere` (on the
screen or not), `TooManyParams` (only an eleventh parameter writes outside the array),
`ShiftXorCaps` (a letter is a capital if exactly one of shift and caps lock is on; shift and S give a
B, kbd.c:47), `PauseTypes` (the codes of the pause key type the character 0).
Those of `MCMemory` compare `bitmap_alloc_nbits` with its definition over all bitmaps of up to six
bits: right for one page, the only number the kernel asks for, and one bit short for more.

Each run also checks the type invariant of its module (`...TypeOK`), except
`ProcessLive`, whose instance is smaller than that of `Process`.

Four more runs show a disagreement between the code and its comments; TLC finds a
counterexample for each:

- `MissedWakeup`: `sys_wait` finds no zombie, releases the table, and is preempted
  before it blocks; the child exits, sees a parent that is not waiting, and wakes
  nobody; the parent then sleeps next to the zombie. What does hold is
  `ParentIsTold`: no step of *another* process ever leaves a sleeping parent next to a
  zombie, so this window in the parent's own code is the only one.
- `SlotRace`: two forks that overlap choose the same slot, which looks free until
  `task_init` names it (`OwnSlot` is false). `gdt_alloc_desc` has the same race for the
  GDT entries (`OwnSel`). Past such a race the kernel's memory is
  corrupted, and nothing more can be said, so the runs `Process` and `ProcessLive` explore
  all behaviours up to there, with `CONSTRAINT ForksApart` (`OwnSlot` and `OwnSel`). Nothing
  else keeps forks apart: they, waits and exits overlap at every step. What the two runs
  show is therefore conditional, and so are the theorems (section 5). For
  `ProcessLive` the constraint means: of the behaviours in which forks stay apart for ever, all
  satisfy `CallsReturn`. TLC cuts the steps that leave `ForksApart` from the graph, but a cut step
  still counts as enabled, so fairness asks for no less than it does without the constraint.
- `GdtLeak`: a reaped process leaves its GDT entry in use.
- `TtyOverrun`: with the ring full, a keystroke that falls between a reader's permit
  and its access to the ring gives a permit with no character behind it; a later read
  uses an uninitialised character. What does hold is `NothingStranded`: the error is
  never in the direction of a character without a permit.

### Bounds, and why they are enough

- Three tasks: one runs, one waits in front of another, so orders in lists can go
  wrong; with two, a queue has one element. The code treats all tasks alike.
- Slice 2 in `Sched` makes a slice that ends differ from one that goes on; 1 elsewhere:
  the clock may preempt at any tick.
- `Word` = 16 with `TickMs` = 3: sleeps of up to 3 ticks, and every `int`, so that the negative ones meet the test in
  `msleep`.
- `Process`: a zombie is handed to the first task by an exiting process whose own
  parent is not the first task only with a grandchild: three slots. Three entries let
  both slots and entries run out (entries leak, so they do). The runs on two slots
  (liveness and the counterexamples) need no grandchild.
- `MaxDepth`, `MaxCount`: how deep the owner nests a lock, and how far a semaphore
  counts beyond its start. They cap counters that the code increments without a test.
- `Tty`: the input ring fills with two characters and the output ring with three (it
  has to have more places than there are processes, see below); three keystrokes fill the input
  ring and overflow it; a line of two characters has room for a break that becomes two, one of
  one has not. A printed character, a line break and a deletion are all that
  `tty_read` tells apart (a carriage return ends the line as a break does).
- In `Sched`, `Ipc`, `Process` and `Tty` the number of system calls is not bounded: processes
  fork, wait, exit, read and write for ever.
- `Memory`: at most four calls are begun (`MaxCalls`). Three calls bring two more processes that
  fork, grow and load at the same time; the fourth is the one that finds memory used up, or a zombie to
  reap. Sixteen pages are few enough for every failure path to be taken (each of the outcomes of
  `halted` is reached) and enough for two copies side by side. With four calls a reaping never meets another
  walk; undo and execve walks meet copies, and the theorems have no bound. Tables of two entries let a walk
  cross from one table to the next, a stack page in the last table keeps a table of its own, and
  pages of two bytes let `sbrk` stay in a page, end at its end, and cross it.
- `Files`: five calls (`MaxCalls`): an open, a dup, a fork and two more calls that meet them
  half way. Two files run out with three processes, three descriptors run out
  with dup; two devices and two terminals let the device table be full and a number
  be out of range. Of three program headers the middle one is not to be loaded.

### Fairness, and why the code justifies it

- `Sched`, `Ipc`: weak fairness of the clock interrupt. The timer is programmed once and
  every stretch with interrupts off ends. Nothing is assumed of tasks: `ReadyRuns`
  says that even a task that never gives up the CPU loses it. `WaiterIsServed` assumes
  that every owner lets go of the lock some day, in the property itself.
- `Process`: the clock, and strong fairness of the steps of a call that is under way.
  A task that gets the CPU again and again gets on with its call: a slice is 100 ticks of
  10 ms (`TASK_TIME_SLICE_DEFAULT`, `OS_TICK_MS`). A task outside a call
  owes nothing, so it may loop, or never wait for its children.
- `Tty`: weak fairness of the steps of a call that is under way. A process that is not
  blocked is ready, and a ready process runs (`ReadyRuns`). Nobody is obliged to type.

## 4. Assumptions on the constants

`SchedAssumption`: two ticks fit in a word, and the arguments of `msleep` are `int`s
of it. `IpcAssumption`: semaphores start within the bound. `ProcessAssumption`: the tasks
are the first task and the slots. `TtyAssumption`: fewer processes than places in the output ring, and
finitely many, and what is written are sequences of characters.
The first of these is what keeps writers of line breaks from waiting for each other, one place in hand
each: the kernel has 128 tasks and rings of 512. `MemoryAssumption`: the first process fits in the
machine, and the programs fit below the stack. `FilesAssumption`: the sizes are positive.
`LinkedListAssumption`: `Null` is no node, and there are finitely many nodes.
`sys_exit` walks the task table with the number of descriptors for its bound (task.c:920); the models
have one number for the two, as both are 128, and would not notice if they differed.

## 5. What is proved

For every set of lists and nodes, of tasks, mutexes and semaphores, every slice, tick length and word, every size of
the process table, the GDT, the rings, the file and the device table, every number of pages, every size of
pages, tables and directories, and every set of programs:

| Module | Theorem | Property |
|---|---|---|
| `SchedProofs` | `SchedInvariant`, `SchedTypes`, `NobodyLost`, `HeadRuns`, `NoCounterWraps`, `RoundRobin` | `SchedTypeOK`, `OnePlace`, `CurrIsHead`, `SleepersCount`, `NoOvertaking` |
| `IpcProofs` | `IpcInvariant`, `IpcTypes`, `OnePlaceInIpc`, `LocksAreConsistent`, `NoLostPermit`, `IpcKeepsPromise` | `IpcTypeOK`, `EveryTaskInOnePlace`, `LockConsistent`, `NoPermitWhileWaiting`, `KeepsPromise` |
| `ProcessProofs` | `ProcInvariant`, `EntryInvariant`, `ProcTypes`, `ProcessesInOnePlace`, `ParentsLive`, `EntriesAreOwn`, `OnlyTheDeadAreFreed`, `TellInvariant`, `OneInTheTable`, `EveryParentIsTold` | `ProcTypeOK`, `EveryProcessInOnePlace`, `ParentsAlive`, `OwnTss`, `FreedWhenDead`, `ParentIsTold` |
| `TtyProofs` | `TtyInvariant`, `AlwaysRoom`, `WritesAreShown`, `NoCharacterStranded`, `LinesFit`, `QueuesInOrder`, `TtyTypes` | `NoOverrun`, `Shown`, `NothingStranded`, `LineFits`, `RingsAreQueues`, `TtyTypeOK` |
| `FilesProofs` | `FilesInvariant`, `FilesTypes`, `DescriptorsAlwaysReach`, `OpeningIsPrivate`, `ReferencesAreRight`, `LoadsAreRight` | `FilesTypeOK`, `DescriptorsReach`, `RefsRight`, `LoadsRight` |
| `MemoryProofs` | `MemTypes`, `EveryPageHasOneOwner`, `PagesAreAccountedFor`, `HeapsAreMapped`, `KernelHaltsOnlyWhenStarved`, `SpacesStayIsolated`, `ForksCopyTheSpace` | `MemTypeOK`, `OneOwner`, `AllAccounted`, `HeapMapped`, `HaltsOnlyWhenStarved`, `Isolation`, `ForkCopies` |
| `LinkedListProofs` | `ListsWellLinked`, `PointersImplementLists` | `WellLinked`, `ImplementsLists` |

**Scheduler.** The inductive invariant, `SchedInv`, is the conjunction of the types,
`ListsApart`, `CurrIsHead` and `SleepersCount`. None is inductive alone: that
`task_set_block` of the running task is legal, and takes the head off, needs `CurrIsHead`;
that a task which goes to sleep is in no other list needs `ListsApart`; that a woken task
becomes ready exactly once needs `SleepersCount`, or its counter would wrap.
Each handler has a lemma that says what it does to *who is in which list* (`StartStep`,
`YieldStep`, `MSleepStep`, `TickStep`), stated so that the proofs of `Ipc` and `Process` reuse them
with tasks parked elsewhere. `TicksPositive` shows that the conversion of `msleep` neither
wraps nor gives zero ticks for a positive `int`.

**Locks and semaphores.** `IpcInv` adds who is parked: every started task is ready, asleep or
in one wait list. It rests on one lemma for blocking and one for unblocking
(`BlockStep`, `UnblockStep`), and one for each wait list growing and shrinking.
The refinement then needs two facts only: the running task is in no wait list, and a free
lock has no waiter.

**Processes.** Forks overlap at every step. The theorems hold as long as no two of them have the same slot in
hand: they are of the form `Spec /\ []OwnSlot => ...`, since past that point the properties are false (`SlotRace`).
`EntriesAreOwn` needs in addition that no two forks have the same GDT entry in hand between `gdt_alloc_desc` and the write
of the entry (`[]ForksApart`); without it the property is false as soon as that race occurs, so the theorem does not say that the
race is harmless, it says that there is no other way to a shared entry. As the system may stop after any step, each theorem
covers every beginning of a behaviour up to the first such race. The proof has two halves. `PlaceInv` says who is
where; a lemma for each kind of step (`ClockStep`, `LockStep`, `UnlockStep`, `WaitSleepStep`,
`ExitFinalStep`, `ClearedStep`, `InitStep`, `ChildStep`) says what it does to the sets of the started and of
the dead. The other half is the table: `People` (who is started has a name, and a parent that
lives), `EntriesApart` (a slot gets its entry one step before its name, and the slots without have 0,
or undoing a failed fork would free somebody's entry; with `Found`, that an entry a fork has found stays free until
it is written, this is `EntryInv`), and what each call has in hand: the
slot of a fork is nobody's (`Forking`), and an exit leaves no child behind the slot it has
reached (`Exiting`), so that at the end it has none. Most steps change none of this but the
caller's own place: the lemma `Onward` treats them together. None of it needs the lock of the
table. `EveryParentIsTold` does: `TellInv` adds that whoever is in the table owns the lock or waits for it
(`Holding`), and hence that nobody reaps the zombie that an exiting process is looking at. Then
no step makes `Overslept` true of a task other than the one that takes the step.

**Terminal.** `TtyInv` accounts for the permits of the output: permits of the semaphore, characters in
the ring and permits in hand make up the size of the ring. With fewer processes than
places there is always room, and a console that is in the middle of a write always finds
the ring as its holder of the mutex left it. For the input, each typed character that is in the
ring has a permit, or a reader that has taken the permit and is on its way to the ring.
`QueuesInOrder` compares what a ring holds before and after, as the sequence that `Content` reads off round the
end of the buffer: `ContentPut` and `ContentGet` show that the two ring operations append to it and take its head,
provided that there is room, or a character. For the output that is `AlwaysRoom`, with any number of readers and
writers. For the input it is `InputInv`: who has looked at the ring and goes to get a character still finds one.
This, and hence the two theorems `QueuesInOrder` and `TtyTypes`, assumes `OneReader`, that at most one process
reads the terminal, as the shell does while it waits for its child. With two it is false: an overflow leaves
permits without characters, so both can pass the look at the same last character, and the second takes one
from the empty ring and makes `count` negative. The other theorems of the terminal hold for any number of
readers. For `TtyTypes` there are also what is left of each text (`TextInv`: what is written is made of what is printed, and a
writer on its way to the ring has a character left) and the permits of the input, which `tty_in` gives only below the size
of the ring.

**Files.** `FilesInv` has to say more than `DescriptorsReach`: what `sys_open` has taken is in nobody else's
descriptors (`OpenedAlone`), a fork under way has a child of its own (`ChildrenApart`), and a file that is not open yet
names no device (`Unopened`). From it follows that the file of a descriptor names an open device of the terminal the file was
opened for (`FdsReach`), and `OpenedInv` says that this is what the descriptor was opened for, since dup and fork copy both.
`RefsRight` is proved by adding `RefsInv` to it: the descriptors of a free slot and
those a fork has not come to are free (`RowsFree`), so no reference is counted for what was there before;
a file that `sys_open` holds has not been written over (`OpenedAnew`); and a count that was read has not been
too high since (`SeenBefore`), so writing it plus one never leaves more references than there are. Each
step changes the cardinality of a set of descriptors by at most one (`OneMore`, `OneWritten`), except `sys_exit`,
which moves a whole row of them from `file_table` to `left`. `LoadsRight` is proved by `LoadsInv`: at each stage, a
load that nobody has disturbed has read so many places of `Plan` (`Follows`), and `temp_pos` is where the
next place is. `PagesTo` and `Plan` are recursive functions over the program headers; that they are
what their definitions say, for any image, is `PagesToIs` and `PlanToIs`, by induction (see `Numbers` below).

**Memory.** The bound on the calls stays a constant: the theorems hold for every `MaxCalls`. An
address space is what a walk finds, so a page is owned through a directory that is itself a page, and
every write to `mem` may in principle change what every other walk finds. `MemInv` has three parts.
`Pages` says who owns a page: a stop of the walk over a space, a stop of the directory that a call fills or
destroys from where it is on, a kernel stack, the page in hand, or nobody any more. `Apart` says that
no page is owned at two places, and `Accounted` that the pages in use are those owned; each
needs the other, since `bitmap_alloc_nbits` gives a page that is not in use, which has to be
nobody's. `Tasks` says for each place in a call what its variables mean there: which part of the copy is done
and that it agrees with the space of the parent (`Copying`), which ranges are still to be mapped and that
nothing is there yet (`Mapping`), and what is mapped below the end of the heap (`HeapRight`). What remains is
`HaltsOnlyWhenStarved`, and that a call can only fail when memory has run out (`Hungry`).
Neither half is inductive alone: that the next write goes to a table of one's own needs `Apart`, and that the
page taken is one more stop of the walk needs to know where the walk is. After `"freed twice"`
nothing more is claimed, because the page has two owners then; the step that leads there is itself part of the proof.

The steps are looked at from the outside first. `StepOf(t, c)` is what a step of `t` leaves alone of all
tasks but `t` and one other, `c` (the child of a fork, the zombie that is reaped); a step that owns neither more nor
fewer pages (`Calm`), takes one (`Takes`), takes a page and hangs it into a table (`TakesTable`), or gives
one back (`Gives`) keeps `Apart` and `Accounted`, once and for all. Then each action is shown to be one
of these, and to keep what `Tasks` says of `t` and `c`. `Isolation` and `ForkCopies` follow
from the same invariant: the first because the stops of a space lie on pages that the step does not own,
the second because at the end of the walk `Copying` says that nothing is left to copy.

**Lists.** `LinkInv` says that the pointers stand for some family of sequences (`Represents`): on the two
threads of a list are the nodes of its sequence, the counter is its length, the sequences have no node twice or in
common, and a node in none points nowhere. `WellLinked` is not inductive as it stands, because what follows
the links says nothing of `pre` and `next` node by node. Each function of `list.c` changes one of the
sequences (`InsertedFirst`, `InsertedLast`, `Removed`; `FirstIsRemoved` shows that
`list_remove_first` is the removal of the node at the head), and `OneList` shows that the others are left as
they were, because no link of their nodes is written. `ChainIs` ties that to the walk along the links: from the end
of a thread one meets the nodes of the sequence and no other (`RecursOnce`, below). So the sequences are unique,
and each call is a step of `Lists`.

`Numbers` holds the one induction these proofs need, that a set of numbers has a least element: the first free
bit of the bitmap, the first missing entry of a table. It comes from the well-foundedness of strict inclusion
of finite sets, which the library states without an operator for a parameter. From it follow induction up to
a bound (`InductionTo`) and, with functions where the library has operators, that what is defined by recursion
up to a bound exists (`RecursionTo`) and is one (`RecursOnce`).

The provers check the steps of the temporal theorems (initial state, step, consequence) and
the temporal rule that joins them. Only model-checked, as out of the provers' reach: the
liveness properties (`ReadyRuns`, `SleeperWakes`, `WaiterIsServed`, `CallsReturn`,
`WriteReturns`), and `Bitmap`, `Console` and `Keyboard`, which are functions over sequences.

## 6. What is not modelled, and the plan

- The joint state of `Process`, `Memory` and `Files`: each has the calls' steps on its own state, and
  the composition of the three is beyond what TLC can enumerate. What one module takes from
  another is listed in section 2.
- The disk: its ports and sectors, and what two interleaved reads make of them (section 2, `Files`).
- The contents of pages. That the image is read into a buffer at 8 MB (file.c:18), inside the pool from
  which pages are given out (memory.c:514) and not reserved there, is therefore no property
  of a module; with enough pages in use a load overwrites somebody's page. Nor is the copying of
  arguments (task.c:697), of which `Memory` keeps the one assertion that can fail.
- Several terminals at once: `tty_select` and `console_select` change which console the hardware shows;
  `Keyboard` says when they are called, `Console` what they compute, and `Tty` has one
  terminal. The race between the cursor update after `console_write` (console.c:491) and a selection in the
  interrupt is not modelled; the next character puts the cursor right.
- `memory_free_page` of a user address (memory.c:327), whose assertion is the wrong way round, is called by
  nobody, as are `dev_close` and `dev_control`; `tty_control` and `tty_close` are empty,
  and `sys_isatty` and `sys_fstat` constant.
- The boot code and loaders (sequential, before the kernel), descriptor tables and port I/O (assembly
  and hardware), the system call table, string functions and logging, the shell and the application
  library. Most lines of the repository are headers of the C library (`newlib/`), which are third-party and hold no
  logic of the kernel.

What could follow: what `FirstFree` and `FreeUndoes` say of `Bitmap`, as theorems for every number of bits.
