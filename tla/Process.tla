------------------------------- MODULE Process -------------------------------
(***************************************************************************)
(* Processes (kernel/core/task.c): sys_fork, sys_wait and sys_exit on the  *)
(* task table.  A system call runs with interrupts on, so the clock can    *)
(* take the CPU from it between any two of its steps; only the stretches   *)
(* between irq_enter_protection and irq_leave_protection and the steps     *)
(* that touch no shared state are single actions here.  The table is       *)
(* guarded by task_table_mutex, the mutex of Ipc; gdt_alloc_desc takes a   *)
(* mutex of its own around a search that has no other effect, which is one *)
(* step here.                                                              *)
(*                                                                         *)
(* Left out: task_manager.task_list, the list through all_node.  task_init *)
(* appends to it, task_uninit and sys_wait clear the node while it is      *)
(* linked, and the next fork into the slot clears and appends it again;    *)
(* no code walks the list or removes from it.                              *)
(***************************************************************************)
EXTENDS Ipc

CONSTANTS
  TaskNr,           \* TASK_NR: task_table is the tasks 1..TaskNr
  GdtSize,          \* bound: the GDT entries left for tasks
  Table             \* task_table_mutex

Slot == 1..TaskNr

ASSUME ProcessAssumption ==
  /\ TaskNr \in Nat \ {0}
  /\ GdtSize \in Nat
  /\ First \notin Slot
  /\ Task = Slot \cup {First}
  /\ Mutex = {Table}

VARIABLES
  named,       \* the slots whose name is not empty: those alloc_task passes over
  parent,      \* task_t.parent
  tss_sel,     \* task_t.tss_sel, 0 when the task has none
  gdt,         \* the GDT entries in use (attr # 0)
  pc,          \* where each task is in its system call; "user" outside
  slot,        \* sys_fork's child_task; the loop index of sys_exit
  sel,         \* tss_init's tss_sel, the entry it is setting up
  move_child   \* sys_exit's flag: a zombie has been given to the first task

procVars == << named, parent, tss_sel, gdt, pc, slot, sel, move_child >>
allVars  == << ipcVars, procVars >>

NoSlot == 0

Init ==
  /\ IpcInit
  /\ named      = {}
  /\ parent     = [t \in Task |-> NoTask]
  /\ tss_sel    = [t \in Task |-> 0]
  /\ gdt        = {}
  /\ pc         = [t \in Task |-> "user"]
  /\ slot       = [t \in Task |-> NoSlot]
  /\ sel        = [t \in Task |-> 0]
  /\ move_child = [t \in Task |-> FALSE]

(* The running task is at one place of its call and goes to another. *)
Goes(t, from, to) ==
  /\ curr_task = t
  /\ pc[t] = from
  /\ pc' = [pc EXCEPT ![t] = to]

(* mutex_lock(&task_table_mutex): a task that has to wait goes on from the *)
(* same place when it owns the lock.                                       *)
LockTable(t, from, to) ==
  /\ Goes(t, from, to)
  /\ mutex_lock(Table)

------------------------------------------------------------------------------
(***************************************************************************)
(* sys_fork.  alloc_task picks the first slot with no name, and lets go of *)
(* the table; the name is written later, by task_init.                     *)
(***************************************************************************)
ForkPc == { "fork_scan", "fork_unlock", "fork_sel", "fork_tss",
            "fork_fields", "fork_start", "fork_undo", "fork_free_lock", "fork_free" }

fork(t) ==
  /\ LockTable(t, "user", "fork_scan")
  /\ UNCHANGED << named, parent, tss_sel, gdt, slot, sel, move_child >>

(* The loops over the tables stop at the first entry that will do.         *)
IsFirst(i, entries) == \A j \in entries : i <= j

alloc_task_scan(t) ==
  LET free == Slot \ named
  IN  /\ Goes(t, "fork_scan", "fork_unlock")
      /\ \/ free = {} /\ slot' = [slot EXCEPT ![t] = NoSlot]
         \/ \E s \in free : IsFirst(s, free) /\ slot' = [slot EXCEPT ![t] = s]
      /\ UNCHANGED << ipcVars, named, parent, tss_sel, gdt, sel, move_child >>

(* Without a free slot sys_fork returns -1 at once. *)
Slip_FailsLocked(t) ==
  /\ Goes(t, "fork_unlock", IF slot[t] = NoSlot THEN "user" ELSE "fork_sel")
  /\ IF slot[t] = NoSlot THEN UNCHANGED ipcVars ELSE mutex_unlock(Table)
  /\ UNCHANGED << named, parent, tss_sel, gdt, slot, sel, move_child >>

alloc_task_unlock(t) ==
  /\ Goes(t, "fork_unlock", IF slot[t] = NoSlot THEN "user" ELSE "fork_sel")
  /\ mutex_unlock(Table)
  /\ UNCHANGED << named, parent, tss_sel, gdt, slot, sel, move_child >>

(***************************************************************************)
(* task_init starts with tss_init: gdt_alloc_desc returns the first free   *)
(* entry, which is in use only from segment_desc_set on.  Then the memory  *)
(* for the stack or the page directory may run out, which gives the entry  *)
(* back.                                                                   *)
(***************************************************************************)
Slip_AnySel == 1..GdtSize
Slip_PastTheEnd == (1..GdtSize + 1) \ gdt

FreeSels == (1..GdtSize) \ gdt

gdt_alloc_desc(t) ==
  /\ \/ /\ Goes(t, "fork_sel", "fork_tss")
        /\ \E n \in FreeSels : IsFirst(n, FreeSels) /\ sel' = [sel EXCEPT ![t] = n]
     \/ /\ FreeSels = {}
        /\ Goes(t, "fork_sel", "fork_undo")
        /\ UNCHANGED sel
  /\ UNCHANGED << ipcVars, named, parent, tss_sel, gdt, slot, move_child >>

tss_init(t) ==
  /\ \/ /\ Goes(t, "fork_tss", "fork_fields")
        /\ gdt' = gdt \cup {sel[t]}
        /\ tss_sel' = [tss_sel EXCEPT ![slot[t]] = sel[t]]
     \/ /\ Goes(t, "fork_tss", "fork_undo")
        /\ gdt' = gdt \ {sel[t]}
        /\ UNCHANGED tss_sel
  /\ sel' = [sel EXCEPT ![t] = 0]
  /\ UNCHANGED << ipcVars, named, parent, slot, move_child >>

(* The rest of task_init; it is here that the slot gets its name.          *)
task_init(t) ==
  LET child == slot[t]
  IN  /\ Goes(t, "fork_fields", "fork_start")
      /\ named'  = named \cup {child}
      /\ parent' = [parent EXCEPT ![child] = NoTask]
      /\ state'  = [state EXCEPT ![child] = "created"]
      /\ slice_ticks' = [slice_ticks EXCEPT ![child] = TimeSlice]
      /\ sleep_ticks' = [sleep_ticks EXCEPT ![child] = 0]
      /\ UNCHANGED << ready_list, sleep_list, curr_task, mutexVars, semVars,
                      tss_sel, gdt, slot, sel, move_child >>

(* The child gets its parent, is started, and returns 0 from the call.     *)
fork_start(t) ==
  LET child == slot[t]
  IN  /\ curr_task = t
      /\ pc[t] = "fork_start"
      /\ pc' = [pc EXCEPT ![t] = "user", ![child] = "user"]
      /\ parent' = [parent EXCEPT ![child] = t]
      /\ slot'   = [slot EXCEPT ![t] = NoSlot]
      /\ task_start(child)
      /\ UNCHANGED << mutexVars, semVars, named, tss_sel, gdt, sel, move_child >>

(***************************************************************************)
(* fork_failed: task_uninit gives the GDT entry back, if the child has got *)
(* one, and clears the slot; free_task then takes the table to clear the   *)
(* name once more.                                                         *)
(***************************************************************************)
Cleared(s) ==
  /\ named'   = named \ {s}
  /\ parent'  = [parent EXCEPT ![s] = NoTask]
  /\ tss_sel' = [tss_sel EXCEPT ![s] = 0]
  /\ state'   = [state EXCEPT ![s] = "created"]
  /\ UNCHANGED << ready_list, sleep_list, curr_task, slice_ticks, sleep_ticks >>

task_uninit(t) ==
  /\ Goes(t, "fork_undo", "fork_free_lock")
  /\ gdt' = gdt \ {tss_sel[slot[t]]}
  /\ Cleared(slot[t])
  /\ UNCHANGED << mutexVars, semVars, slot, sel, move_child >>

free_task_lock(t) ==
  /\ LockTable(t, "fork_free_lock", "fork_free")
  /\ UNCHANGED << named, parent, tss_sel, gdt, slot, sel, move_child >>

free_task(t) ==
  /\ Goes(t, "fork_free", "user")
  /\ named' = named \ {slot[t]}
  /\ slot'  = [slot EXCEPT ![t] = NoSlot]
  /\ mutex_unlock(Table)
  /\ UNCHANGED << parent, tss_sel, gdt, sel, move_child >>

sys_fork(t) ==
  \/ alloc_task_scan(t) \/ alloc_task_unlock(t)
  \/ gdt_alloc_desc(t) \/ tss_init(t) \/ task_init(t) \/ fork_start(t)
  \/ task_uninit(t) \/ free_task_lock(t) \/ free_task(t)
------------------------------------------------------------------------------
(***************************************************************************)
(* sys_wait.  The scan and the reaping hold the table.  Without a zombie   *)
(* the table is released, and only then the caller goes to sleep: between  *)
(* the two it can be preempted.  It looks again when it is woken.          *)
(***************************************************************************)
WaitPc == {"wait_lock", "wait_scan", "wait_found", "wait_none", "wait_sleep"}

wait(t) ==
  /\ LockTable(t, "user", "wait_scan")
  /\ UNCHANGED << named, parent, tss_sel, gdt, slot, sel, move_child >>

wait_lock(t) ==
  /\ LockTable(t, "wait_lock", "wait_scan")
  /\ UNCHANGED << named, parent, tss_sel, gdt, slot, sel, move_child >>

Slip_AnyChild(t) == { z \in Slot : parent[z] = t }

Zombies(t) == { z \in Slot : parent[z] = t /\ state[z] = "zombie" }

wait_scan(t) ==
  /\ \/ /\ Goes(t, "wait_scan", "wait_found")
        /\ \E z \in Zombies(t) : IsFirst(z, Zombies(t)) /\ Cleared(z)
     \/ /\ Zombies(t) = {}
        /\ Goes(t, "wait_scan", "wait_none")
        /\ UNCHANGED << schedVars, named, parent, tss_sel >>
  /\ UNCHANGED << mutexVars, semVars, gdt, slot, sel, move_child >>

wait_unlock(t) ==
  /\ \/ Goes(t, "wait_found", "user")
     \/ Goes(t, "wait_none", "wait_sleep")
  /\ mutex_unlock(Table)
  /\ UNCHANGED << named, parent, tss_sel, gdt, slot, sel, move_child >>

wait_sleep(t) ==
  /\ Goes(t, "wait_sleep", "wait_lock")
  /\ task_dispatch(task_set_block(ready_list, t), [state EXCEPT ![t] = "waiting"])
  /\ UNCHANGED << sleep_list, slice_ticks, sleep_ticks, mutexVars, semVars,
                  named, parent, tss_sel, gdt, slot, sel, move_child >>

sys_wait(t) == wait_lock(t) \/ wait_scan(t) \/ wait_unlock(t) \/ wait_sleep(t)
------------------------------------------------------------------------------
(***************************************************************************)
(* sys_exit.  The loop over the table gives each child to the first task   *)
(* and looks whether it is a zombie: two steps a slot, since a child can   *)
(* exit between them.                                                      *)
(***************************************************************************)
ExitPc == {"exit_adopt", "exit_look", "exit_unlock", "exit_final"}

exit(t) ==
  /\ t # First
  /\ LockTable(t, "user", "exit_adopt")
  /\ slot' = [slot EXCEPT ![t] = 1]
  /\ move_child' = [move_child EXCEPT ![t] = FALSE]
  /\ UNCHANGED << named, parent, tss_sel, gdt, sel >>

(* On to the next slot, or out of the loop.                                *)
Slip_LastSlotMissed(t, from) ==
  IF slot[t] >= TaskNr - 1
  THEN Goes(t, from, "exit_unlock") /\ slot' = [slot EXCEPT ![t] = NoSlot]
  ELSE Goes(t, from, "exit_adopt") /\ slot' = [slot EXCEPT ![t] = @ + 1]

NextSlot(t, from) ==
  IF slot[t] = TaskNr
  THEN Goes(t, from, "exit_unlock") /\ slot' = [slot EXCEPT ![t] = NoSlot]
  ELSE Goes(t, from, "exit_adopt") /\ slot' = [slot EXCEPT ![t] = @ + 1]

exit_adopt(t) ==
  /\ \/ /\ pc[t] = "exit_adopt"
        /\ parent[slot[t]] = t
        /\ Goes(t, "exit_adopt", "exit_look")
        /\ parent' = [parent EXCEPT ![slot[t]] = First]
        /\ UNCHANGED slot
     \/ /\ pc[t] = "exit_adopt"
        /\ parent[slot[t]] # t
        /\ NextSlot(t, "exit_adopt")
        /\ UNCHANGED parent
  /\ UNCHANGED << ipcVars, named, tss_sel, gdt, sel, move_child >>

exit_look(t) ==
  /\ pc[t] = "exit_look"
  /\ NextSlot(t, "exit_look")
  /\ move_child' = [move_child EXCEPT ![t] = @ \/ state[slot[t]] = "zombie"]
  /\ UNCHANGED << ipcVars, named, parent, tss_sel, gdt, sel >>

exit_unlock(t) ==
  /\ Goes(t, "exit_unlock", "exit_final")
  /\ mutex_unlock(Table)
  /\ UNCHANGED << named, parent, tss_sel, gdt, slot, sel, move_child >>

(***************************************************************************)
(* The protected end of sys_exit: wakes the first task if it has been      *)
(* given a zombie and waits, wakes the parent if it waits, becomes a       *)
(* zombie, and leaves the CPU for ever.                                    *)
(***************************************************************************)
Slip_WakesTwice(t) == move_child[t] /\ state[First] = "waiting"
Slip_OnlyParent(t) == FALSE

WakesFirst(t)  == move_child[t] /\ parent[t] # First /\ state[First] = "waiting"
WakesParent(t) == state[parent[t]] = "waiting"

exit_final(t) ==
  LET woken == (IF WakesFirst(t) THEN <<First>> ELSE <<>>)
                 \o (IF WakesParent(t) THEN <<parent[t]>> ELSE <<>>)
      states == [u \in AllTasks |-> IF u = t THEN "zombie"
                                    ELSE IF u \in ToSet(woken) THEN "ready" ELSE state[u]]
  IN  /\ Goes(t, "exit_final", "zombie")
      /\ task_dispatch(task_set_block(ready_list \o woken, t), states)
      /\ move_child' = [move_child EXCEPT ![t] = FALSE]
      /\ UNCHANGED << sleep_list, slice_ticks, sleep_ticks, mutexVars, semVars,
                      named, parent, tss_sel, gdt, slot, sel >>

sys_exit(t) ==
  \/ exit_adopt(t) \/ exit_look(t) \/ exit_unlock(t) \/ exit_final(t)
------------------------------------------------------------------------------
Tick == Clock /\ UNCHANGED procVars

(* A step of a system call that is under way.  The part of a call up to    *)
(* its first mutex_lock is the caller's own affair: the call begins there. *)
Proceeds(t) == sys_fork(t) \/ sys_wait(t) \/ sys_exit(t)

Next ==
  \/ Tick
  \/ \E t \in Task : Proceeds(t) \/ fork(t) \/ wait(t) \/ exit(t)

(***************************************************************************)
(* Fairness.  The clock ticks for ever, and a task that gets the CPU again *)
(* and again inside a system call gets on with it: a slice is a hundred    *)
(* ticks of ten milliseconds.  A task outside a call owes nothing.         *)
(***************************************************************************)
Spec == Init /\ [][Next]_allVars /\ WF_allVars(Tick) /\ \A t \in Task : SF_allVars(Proceeds(t))
------------------------------------------------------------------------------
(* The type of the variables of this module, on top of those of Ipc.       *)
Pc == {"user", "zombie"} \cup ForkPc \cup WaitPc \cup ExitPc

ProcTypeOK ==
  /\ IpcTypeOK
  /\ named \subseteq Slot
  /\ parent \in [Task -> Task \cup {NoTask}]
  /\ tss_sel \in [Task -> 0..GdtSize]
  /\ gdt \subseteq 1..GdtSize
  /\ pc \in [Task -> Pc]
  /\ slot \in [Task -> 0..TaskNr]
  /\ sel \in [Task -> 0..GdtSize]
  /\ move_child \in [Task -> BOOLEAN]

(***************************************************************************)
(* Forks may overlap at every step.  alloc_task has picked a slot before   *)
(* task_init names it, and gdt_alloc_desc an entry before segment_desc_set *)
(* marks it, so that a second fork can pick the same one in between: the   *)
(* run SlotRace shows it for the slot.  Past that point the memory of the  *)
(* two children is mixed up, and the other properties are about the        *)
(* behaviours in which no two forks have the same in hand: OwnSlot says it *)
(* of the slots, OwnSel of the entries.                                    *)
(***************************************************************************)
Building(t) == pc[t] \in ForkPc \ {"fork_scan"} /\ slot[t] # NoSlot

OwnSlot ==
  \A t, u \in Task : t # u /\ Building(t) /\ Building(u) => slot[t] # slot[u]

OwnSel ==
  \A t, u \in Task : t # u /\ sel[t] # 0 => sel[t] # sel[u]

ForksApart == OwnSlot /\ OwnSel

(***************************************************************************)
(* Each wakeup of sys_exit (the first task, the parent, both or the same   *)
(* one twice) links its target once: a started task is ready, asleep,      *)
(* queued for the table, waiting for a child or a zombie, and only one of  *)
(* these.                                                                  *)
(***************************************************************************)
WaitingForChild == { t \in Task : state[t] = "waiting" }
Dead            == { t \in Task : state[t] = "zombie" }

EveryProcessInOnePlace ==
  /\ OnePlaceOr(Waiting(Table) \cup WaitingForChild \cup Dead)
  /\ NoDuplicate(lock_waiters[Table])
  /\ Waiting(Table) \cap (WaitingForChild \cup Dead) = {}

(***************************************************************************)
(* The parent a process points to is a process that lives: sys_exit reads  *)
(* and wakes it without a check, and sys_wait compares with it.  Only the  *)
(* hand-over of the children in sys_exit keeps the pointer from dangling.  *)
(***************************************************************************)
ParentsAlive ==
  \A s \in Slot :
    state[s] # "created" =>
      /\ parent[s] \in named \cup {First}
      /\ state[parent[s]] \notin {"created", "zombie"}

(***************************************************************************)
(* A task that can run has a GDT entry of its own that is in use: the      *)
(* switch to it goes through that entry.                                   *)
(***************************************************************************)
Entry(s) == tss_sel[s]

OwnTss ==
  \A s \in named :
    /\ Entry(s) \in gdt
    /\ \A r \in named : r # s => Entry(r) # Entry(s)

(***************************************************************************)
(* A slot is given back only when its process is over: it has become a     *)
(* zombie, and left the CPU and every list.                                *)
(***************************************************************************)
FreedWhenDead ==
  [][\A s \in named \ named' :
       /\ state[s] = "zombie"
       /\ s # curr_task
       /\ s \notin Active \cup Waiting(Table)]_allVars

(***************************************************************************)
(* A parent that sleeps in sys_wait is told of every zombie it gets: of a  *)
(* child that exits, and, for the first task, of one that is handed to it. *)
(* No step of anybody else leaves it asleep next to a zombie; only its own *)
(* step to sleep can (MissedWakeup below).                                 *)
(***************************************************************************)
HasToTell(u) ==
  \/ pc[u] \in ExitPc /\ move_child[u]
  \/ pc[u] = "exit_look" /\ state[slot[u]] = "zombie"

Overslept(t) ==
  /\ state[t] = "waiting"
  /\ Zombies(t) # {}
  /\ t = First => \A u \in Task : ~ HasToTell(u)

ParentIsTold ==
  [][\A t \in Task : ~ Overslept(t) /\ Overslept(t)' => curr_task = t]_allVars

(***************************************************************************)
(* fork and exit come to their end, whatever the other processes do: the   *)
(* table is let go by everybody who takes it, and first come is first      *)
(* served.                                                                 *)
(***************************************************************************)
CallsReturn ==
  \A t \in Task : /\ pc[t] \in ForkPc ~> pc[t] = "user"
                  /\ pc[t] \in ExitPc ~> pc[t] = "zombie"

(***************************************************************************)
(* What the code says and does not keep.                                   *)
(*                                                                         *)
(* MissedWakeup: a parent goes to sleep only if there was nothing to reap  *)
(* ("find a zombie and reap it; if there is none, go to sleep"), and is    *)
(* woken by every child that exits.                                        *)
(***************************************************************************)
NoMissedWakeup == \A t \in Task : ~ Overslept(t)

(* SlotRace: two forks never build their child in the same slot            *)
(* (OwnSlot, above): alloc_task says it allocates a task structure, and    *)
(* the pid is to be different for every task.                              *)

(* Reaping gives back what the process had: an entry in use belongs to a   *)
(* task, or to one that a fork is building.                                *)
EntriesBelong ==
  gdt \subseteq { Entry(s) : s \in Slot } \cup { sel[t] : t \in { u \in Task : pc[u] \in ForkPc } }
==============================================================================
