------------------------------- MODULE Memory -------------------------------
(***************************************************************************)
(* Physical pages and address spaces (kernel/core/memory.c) and the system *)
(* calls that take and give them: sys_fork, sys_wait, sys_execv and        *)
(* sys_sbrk.  Only addr_alloc_page and addr_free_page touch what processes *)
(* share, the bitmap, and they do so under its mutex: one action each.     *)
(* Between two of them the clock may give the CPU to any other process, so *)
(* the walks over address spaces interleave page by page.                  *)
(*                                                                         *)
(* A page is a number, 0 the null address.  An address space is what the   *)
(* page directory and the page tables in memory say it is.  The part of it *)
(* that belongs to the kernel never changes, and is left out.              *)
(*                                                                         *)
(* The definitions named Slip_... are variants with a mistake in them; no  *)
(* action uses one.                                                        *)
(***************************************************************************)
EXTENDS Integers, Sequences, FiniteSets, FiniteSetsExt

CONSTANTS
  PageCount,   \* bound: the pages of the machine
  PdeCount,    \* PDE_CNT: the entries of a directory
  PteCount,    \* PTE_CNT: the entries of a table
  PageSize,    \* MEM_PAGE_SIZE, in bytes
  StackPages,  \* MEM_TASK_STACK_SIZE, in pages
  TaskNr,      \* TASK_NR: task_table is the tasks 1..TaskNr
  Programs,    \* the programs execve may load, each as its p_memsz
  MaxCalls,    \* bound: the calls that are begun
  MaxIncr      \* bound: the bytes asked of sys_sbrk

Page  == 1..PageCount
VPages == PdeCount * PteCount
Entry == 1..Max({PdeCount, PteCount})
VPage == 1..VPages  \* the pages from MEMORY_TASK_BASE on
Slot  == 1..TaskNr
First == 0
Task  == Slot \cup {First}

NoTask == -1
BadDir == -1      \* the uint32_t -1 that memory_copy_uvm returns
NoHeap == -1      \* a heap_end that is not in the user's space

UserSize   == VPages * PageSize
StackFrom  == VPages - StackPages + 1
PagesIn(n) == (n + PageSize - 1) \div PageSize

ASSUME MemoryAssumption ==
  /\ PdeCount \in Nat \ {0} /\ PteCount \in Nat \ {0}
  /\ PageSize \in Nat \ {0}
  /\ TaskNr \in Nat
  /\ PageCount \in Nat /\ PageCount >= 4
  /\ StackPages \in 1..(VPages - 1)
  /\ MaxIncr \in Nat
  /\ Programs \subseteq 1..((StackFrom - 1) * PageSize)

VARIABLES
  used,      \* paddr_alloc.bitmap: the pages whose bit is set
  mem,       \* what the pages hold, read as directories and tables
  cr3,       \* tss.cr3 of each task
  esp0,      \* tss.esp0 of each task: the page of its kernel stack
  heap_end,  \* task_t.heap_end, in bytes from MEMORY_TASK_BASE
  parent,    \* task_t.parent
  pc,        \* where each task is in its system call
  child,     \* the child_task of sys_fork, the zombie of sys_wait
  dir,       \* the page directory a call is filling or destroying
  at,        \* how far the walk over that directory is
  page,      \* the page that is allocated and not mapped yet
  todo,      \* memory_alloc_for_page_dir: the ranges still to be mapped
  goal,      \* the heap_end that goes with them
  lost,      \* history: the pages that the code has forgotten
  starved,   \* history: an allocation has failed
  calls,     \* bound: the calls begun so far
  halted     \* what has stopped the kernel; "no" while it runs

spaceVars == << used, mem >>
taskVars  == << cr3, esp0, heap_end, parent >>
callVars  == << child, dir, at, page, todo, goal >>
vars == << spaceVars, taskVars, pc, callVars, lost, starved, calls, halted >>

Empty == [e \in Entry |-> 0]

(***************************************************************************)
(* pde_index, pte_index and find_pte without allocation: the table that is *)
(* responsible for a page of the user's space, and the frame behind it.    *)
(***************************************************************************)
pde_index(v) == ((v - 1) \div PteCount) + 1
pte_index(v) == ((v - 1) % PteCount) + 1

Table(d, v) == mem[d][pde_index(v)]
Frame(d, v) == IF Table(d, v) = 0 THEN 0 ELSE mem[Table(d, v)][pte_index(v)]

Mapped(d)  == { v \in VPage : Frame(d, v) # 0 }
PagesOf(d) ==
  {d} \cup ({ Table(d, v) : v \in VPage } \ {0}) \cup { Frame(d, v) : v \in Mapped(d) }

Free == Page \ used

------------------------------------------------------------------------------
(***************************************************************************)
(* The first task, which task_first_init has given a kernel stack, a       *)
(* directory and the page it runs in; its heap_end is not in its space     *)
(* ("this is not right", says the code).                                   *)
(***************************************************************************)
Init ==
  /\ used = 1..4
  /\ mem  = [p \in Page |-> IF p = 2 THEN [Empty EXCEPT ![1] = 4]
                            ELSE IF p = 4 THEN [Empty EXCEPT ![1] = 3] ELSE Empty]
  /\ esp0 = [t \in Task |-> IF t = First THEN 1 ELSE 0]
  /\ cr3  = [t \in Task |-> IF t = First THEN 2 ELSE 0]
  /\ heap_end = [t \in Task |-> NoHeap]
  /\ parent = [t \in Task |-> NoTask]
  /\ pc     = [t \in Task |-> IF t = First THEN "user" ELSE "free"]
  /\ child  = [t \in Task |-> NoTask]
  /\ dir    = [t \in Task |-> 0]
  /\ at     = [t \in Task |-> 0]
  /\ page   = [t \in Task |-> 0]
  /\ todo   = [t \in Task |-> <<>>]
  /\ goal   = [t \in Task |-> NoHeap]
  /\ lost   = {}
  /\ starved = FALSE
  /\ calls = 0
  /\ halted  = "no"

Goes(t, from, to) ==
  /\ pc[t] = from
  /\ pc' = [pc EXCEPT ![t] = to]

(* The task table's mutex, which sys_wait keeps while it reaps.            *)
ReapPc == {"reap", "reap_stack"}
TableFree == \A t \in Task : pc[t] \notin ReapPc
------------------------------------------------------------------------------
(***************************************************************************)
(* Pages taken and given back.  bitmap_alloc_nbits finds the first page    *)
(* that is free (see Bitmap).  A page that becomes a directory or a table  *)
(* is cleared first; what is left in a freed page is of no use to anybody, *)
(* and the model forgets it.                                               *)
(***************************************************************************)
Slip_BitNotSet(p) ==
  /\ p \in Free
  /\ \A q \in Free : p <= q
  /\ UNCHANGED used

addr_alloc_page(p) ==
  /\ p \in Free
  /\ \A q \in Free : p <= q
  /\ used' = used \cup {p}

addr_free_page(p) ==
  /\ used' = used \ {p}
  /\ mem' = [mem EXCEPT ![p] = Empty]

Exhausted == Free = {} /\ starved' = TRUE

(* memory_create_map, when the table is there: a frame for page v of the   *)
(* directory d.                                                            *)
MapFrame(d, v, p) == mem' = [mem EXCEPT ![Table(d, v)][pte_index(v)] = p]

(* find_pte makes a table q first.                                         *)
MapFrameInNewTable(d, v, p, q) ==
  mem' = [mem EXCEPT ![d][pde_index(v)] = q, ![q] = [Empty EXCEPT ![pte_index(v)] = p]]

(***************************************************************************)
(* memory_destroy_uvm: the frames of each table and then the table, and    *)
(* the directory at last.  StopAt(d, n) is the page at the n-th stop of    *)
(* this walk, 0 where nothing is present.                                  *)
(***************************************************************************)
LastStop == PdeCount * (PteCount + 1) + 1

StopAt(d, n) ==
  LET i == ((n - 1) \div (PteCount + 1)) + 1
      j == ((n - 1) % (PteCount + 1)) + 1
  IN  IF n = LastStop THEN d
      ELSE IF mem[d][i] = 0 THEN 0
      ELSE IF j > PteCount THEN mem[d][i]
      ELSE mem[mem[d][i]][j]

Slip_KeepsTables(d, n) ==
  Min({ m \in n..LastStop : StopAt(d, m) # 0 /\ m % (PteCount + 1) # 0 })

NextStop(d, n) == Min({ m \in n..LastStop : StopAt(d, m) # 0 })

Slip_OwnSpace(t, here, done) ==
  LET n == NextStop(cr3[t], at[t])
  IN  /\ pc[t] = here
      /\ addr_free_page(StopAt(cr3[t], n))
      /\ at' = [at EXCEPT ![t] = IF n = LastStop THEN 0 ELSE n + 1]
      /\ pc' = [pc EXCEPT ![t] = IF n = LastStop THEN done ELSE here]

memory_destroy_uvm(t, here, done) ==
  LET n == NextStop(dir[t], at[t])
  IN  /\ pc[t] = here
      /\ addr_free_page(StopAt(dir[t], n))
      /\ at' = [at EXCEPT ![t] = IF n = LastStop THEN 0 ELSE n + 1]
      /\ pc' = [pc EXCEPT ![t] = IF n = LastStop THEN done ELSE here]
------------------------------------------------------------------------------
(***************************************************************************)
(* sys_fork: a slot (a slot of its own: what happens when two forks choose *)
(* the same is the subject of Process), a kernel stack and a directory by  *)
(* tss_init, and then the copy of the parent's space, whose directory      *)
(* takes the place of the first one.                                       *)
(***************************************************************************)
fork(t) ==
  LET free == { s \in Slot : pc[s] = "free" }
      c    == Min(free)
  IN  /\ TableFree
      /\ pc[t] = "user"
      /\ free # {}
      /\ pc' = [pc EXCEPT ![t] = "fork_stack", ![c] = "new"]
      /\ child' = [child EXCEPT ![t] = c]
      /\ UNCHANGED << spaceVars, taskVars, dir, at, page, todo, goal, lost, starved, halted >>

(* Without a page for the stack there is nothing to give back (nor without *)
(* a GDT entry, which Process looks at).                                   *)
tss_init_stack(t) ==
  /\ \/ \E p \in Page :
          /\ Goes(t, "fork_stack", "fork_dir")
          /\ addr_alloc_page(p)
          /\ esp0' = [esp0 EXCEPT ![child[t]] = p]
          /\ UNCHANGED starved
     \/ /\ Goes(t, "fork_stack", "fork_undo")
        /\ Exhausted
        /\ UNCHANGED << used, esp0 >>
  /\ UNCHANGED << mem, cr3, heap_end, parent, callVars, lost, halted >>

(* Without a page for the directory the stack is freed, but esp0 stays.    *)
tss_init_dir(t) ==
  /\ \/ \E p \in Page :
          /\ Goes(t, "fork_dir", "copy_dir")
          /\ addr_alloc_page(p)
          /\ mem' = [mem EXCEPT ![p] = Empty]
          /\ cr3' = [cr3 EXCEPT ![child[t]] = p]
          /\ UNCHANGED starved
     \/ /\ Goes(t, "fork_dir", "fork_undo")
        /\ Exhausted
        /\ addr_free_page(esp0[child[t]])
        /\ UNCHANGED cr3
  /\ UNCHANGED << esp0, heap_end, parent, callVars, lost, halted >>

(* task_uninit and free_task, whose wait for the mutex of the task table   *)
(* is left to Process.  The stack that esp0 still points to is freed       *)
(* again; if it has gone to somebody else in between, nothing can be said  *)
(* of the kernel any more.                                                 *)
task_uninit(t) ==
  LET c == child[t]
  IN  /\ pc[t] = "fork_undo"
      /\ pc' = [pc EXCEPT ![t] = "user", ![c] = "free"]
      /\ used' = used \ {esp0[c]}
      /\ halted' = IF esp0[c] \in used THEN "freed twice" ELSE "no"
      /\ esp0'  = [esp0 EXCEPT ![c] = 0]
      /\ child' = [child EXCEPT ![t] = NoTask]
      /\ UNCHANGED << mem, cr3, heap_end, parent, dir, at, page, todo, goal, lost, starved >>

(* The end of sys_fork: the child starts in the directory d.               *)
fork_ends(t, d) ==
  LET c == child[t]
  IN  /\ pc' = [pc EXCEPT ![t] = "user", ![c] = "user"]
      /\ cr3' = [cr3 EXCEPT ![c] = d]
      /\ lost' = lost \cup {cr3[c]}
      /\ heap_end' = [heap_end EXCEPT ![c] = NoHeap]
      /\ parent' = [parent EXCEPT ![c] = t]
      /\ child'  = [child EXCEPT ![t] = NoTask]
      /\ dir' = [dir EXCEPT ![t] = 0]
      /\ at'  = [at EXCEPT ![t] = 0]
      /\ UNCHANGED << esp0, page, todo, goal, halted >>
(***************************************************************************)
(* memory_copy_uvm.  When memory runs out, what has been copied is         *)
(* destroyed and -1 returned, which sys_fork takes for an address: it      *)
(* tests an unsigned number for being negative.  The frame that was to be  *)
(* mapped next is forgotten if it was the table that could not be had.     *)
(***************************************************************************)
copy_dir(t) ==
  /\ pc[t] = "copy_dir"
  /\ \/ \E p \in Page :
          /\ Goes(t, "copy_dir", "copy")
          /\ addr_alloc_page(p)
          /\ mem' = [mem EXCEPT ![p] = Empty]
          /\ dir' = [dir EXCEPT ![t] = p]
          /\ at'  = [at EXCEPT ![t] = 1]
          /\ UNCHANGED << taskVars, child, page, todo, goal, lost, starved, halted >>
     \/ /\ Exhausted
        /\ fork_ends(t, BadDir)
        /\ UNCHANGED spaceVars

Slip_SkipsAPage(t) == { v \in Mapped(cr3[t]) : v > at[t] }
ToCopy(t) == { v \in Mapped(cr3[t]) : v >= at[t] }

copy_page(t) ==
  LET v == Min(ToCopy(t))
  IN  /\ pc[t] = "copy"
      /\ ToCopy(t) # {}
      /\ \/ /\ Table(dir[t], v) # 0
            /\ \E p \in Page : addr_alloc_page(p) /\ MapFrame(dir[t], v, p)
            /\ at' = [at EXCEPT ![t] = v + 1]
            /\ UNCHANGED << pc, page, starved >>
         \/ /\ Table(dir[t], v) = 0
            /\ Goes(t, "copy", "copy_table")
            /\ \E p \in Page : addr_alloc_page(p) /\ page' = [page EXCEPT ![t] = p]
            /\ UNCHANGED << mem, at, starved >>
         \/ /\ Exhausted
            /\ Goes(t, "copy", "copy_undo")
            /\ at' = [at EXCEPT ![t] = 1]
            /\ UNCHANGED << spaceVars, page >>
      /\ UNCHANGED << taskVars, child, dir, todo, goal, lost, halted >>

copy_table(t) ==
  LET v == Min(ToCopy(t))
  IN  /\ \/ /\ Goes(t, "copy_table", "copy")
            /\ \E q \in Page : addr_alloc_page(q) /\ MapFrameInNewTable(dir[t], v, page[t], q)
            /\ at' = [at EXCEPT ![t] = v + 1]
            /\ UNCHANGED << lost, starved >>
         \/ /\ Goes(t, "copy_table", "copy_undo")
            /\ Exhausted
            /\ lost' = lost \cup {page[t]}
            /\ at' = [at EXCEPT ![t] = 1]
            /\ UNCHANGED spaceVars
      /\ page' = [page EXCEPT ![t] = 0]
      /\ UNCHANGED << taskVars, child, dir, todo, goal, halted >>

copy_undo(t) ==
  /\ memory_destroy_uvm(t, "copy_undo", "copy_failed")
  /\ UNCHANGED << taskVars, child, dir, page, todo, goal, lost, starved, halted >>

(* The copy is complete, or what there was of it is destroyed.             *)
copy_ends(t) ==
  /\ \/ pc[t] = "copy" /\ ToCopy(t) = {} /\ fork_ends(t, dir[t])
     \/ pc[t] = "copy_failed" /\ fork_ends(t, BadDir)
  /\ UNCHANGED << spaceVars, starved >>

sys_fork(t) ==
  \/ tss_init_stack(t) \/ tss_init_dir(t) \/ task_uninit(t)
  \/ copy_dir(t) \/ copy_page(t) \/ copy_table(t) \/ copy_undo(t) \/ copy_ends(t)
------------------------------------------------------------------------------
(***************************************************************************)
(* sys_exit keeps the memory: the process cannot free the stack it is on.  *)
(* The children go to the first task.  sys_wait frees the space and the    *)
(* stack of a zombie, and then clears its slot.                            *)
(***************************************************************************)
exit(t) ==
  /\ TableFree
  /\ t # First
  /\ Goes(t, "user", "zombie")
  /\ parent' = [s \in Task |-> IF parent[s] = t THEN First ELSE parent[s]]
  /\ UNCHANGED << spaceVars, cr3, esp0, heap_end, callVars, lost, starved, halted >>

wait(t) ==
  LET zombies == { z \in Slot : parent[z] = t /\ pc[z] = "zombie" }
      z       == Min(zombies)
  IN  /\ TableFree
      /\ zombies # {}
      /\ Goes(t, "user", "reap")
      /\ child' = [child EXCEPT ![t] = z]
      /\ dir' = [dir EXCEPT ![t] = cr3[z]]
      /\ at'  = [at EXCEPT ![t] = 1]
      /\ UNCHANGED << spaceVars, taskVars, page, todo, goal, lost, starved, halted >>

reap(t) ==
  /\ memory_destroy_uvm(t, "reap", "reap_stack")
  /\ UNCHANGED << taskVars, child, dir, page, todo, goal, lost, starved, halted >>

reap_stack(t) ==
  LET z == child[t]
  IN  /\ pc[t] = "reap_stack"
      /\ pc' = [pc EXCEPT ![t] = "user", ![z] = "free"]
      /\ addr_free_page(esp0[z])
      /\ cr3'  = [cr3 EXCEPT ![z] = 0]
      /\ esp0' = [esp0 EXCEPT ![z] = 0]
      /\ heap_end' = [heap_end EXCEPT ![z] = NoHeap]
      /\ parent'   = [parent EXCEPT ![z] = NoTask]
      /\ child' = [child EXCEPT ![t] = NoTask]
      /\ dir' = [dir EXCEPT ![t] = 0]
      /\ at'  = [at EXCEPT ![t] = 0]
      /\ UNCHANGED << page, todo, goal, lost, starved, halted >>

sys_wait(t) == reap(t) \/ reap_stack(t)
------------------------------------------------------------------------------
(***************************************************************************)
(* memory_alloc_for_page_dir, for the calls in todo one after the other,   *)
(* each a range of pages to be mapped in the directory dir.  heap_end is   *)
(* set when a call has come to its end.  Without a page for a frame the    *)
(* call ends early, and returns 0 all the same.  Without a page for a      *)
(* table it returns -1, and frees pages by their virtual addresses, which  *)
(* are not in the bitmap: the frame is forgotten.  memory_create_map stops *)
(* the kernel at a page that is mapped already.                            *)
(***************************************************************************)
NextV(t) == Head(todo[t])[1]

Slip_OneTooMany(t) ==
  LET last == Head(todo[t])[2]
  IN  IF NextV(t) = last + 1 THEN Tail(todo[t])
      ELSE << <<NextV(t) + 1, last>> >> \o Tail(todo[t])

PageDone(t) ==
  LET last == Head(todo[t])[2]
  IN  IF NextV(t) = last THEN Tail(todo[t])
      ELSE << <<NextV(t) + 1, last>> >> \o Tail(todo[t])

Allotted(t, rest) ==
  /\ todo' = [todo EXCEPT ![t] = rest]
  /\ heap_end' = IF Len(rest) < Len(todo[t]) THEN [heap_end EXCEPT ![t] = goal[t]] ELSE heap_end

map_page(t) ==
  /\ pc[t] = "map"
  /\ todo[t] # <<>>
  /\ \/ /\ Table(dir[t], NextV(t)) # 0
        /\ Frame(dir[t], NextV(t)) = 0
        /\ \E p \in Page : addr_alloc_page(p) /\ MapFrame(dir[t], NextV(t), p)
        /\ Allotted(t, PageDone(t))
        /\ UNCHANGED << pc, page, starved, halted >>
     \/ /\ Table(dir[t], NextV(t)) = 0
        /\ Goes(t, "map", "map_table")
        /\ \E p \in Page : addr_alloc_page(p) /\ page' = [page EXCEPT ![t] = p]
        /\ UNCHANGED << mem, heap_end, todo, starved, halted >>
     \/ /\ Exhausted
        /\ Allotted(t, Tail(todo[t]))
        /\ UNCHANGED << spaceVars, pc, page, halted >>
     \/ /\ Frame(dir[t], NextV(t)) # 0
        /\ Free # {}
        /\ halted' = "mapped twice"
        /\ UNCHANGED << spaceVars, pc, heap_end, page, todo, starved >>
  /\ UNCHANGED << cr3, esp0, parent, child, dir, at, goal, lost >>

map_table(t) ==
  /\ page' = [page EXCEPT ![t] = 0]
  /\ \/ /\ Goes(t, "map_table", "map")
        /\ \E q \in Page :
             addr_alloc_page(q) /\ MapFrameInNewTable(dir[t], NextV(t), page[t], q)
        /\ Allotted(t, PageDone(t))
        /\ UNCHANGED << dir, at, goal, lost, starved >>
     \/ /\ dir[t] # cr3[t]
        /\ Goes(t, "map_table", "exec_undo")
        /\ Exhausted
        /\ lost' = lost \cup {page[t]}
        /\ at' = [at EXCEPT ![t] = 1]
        /\ UNCHANGED << spaceVars, heap_end, dir, todo, goal >>
     \/ /\ dir[t] = cr3[t]
        /\ Goes(t, "map_table", "user")
        /\ Exhausted
        /\ lost' = lost \cup {page[t]}
        /\ todo' = [todo EXCEPT ![t] = <<>>]
        /\ goal' = [goal EXCEPT ![t] = NoHeap]
        /\ dir'  = [dir EXCEPT ![t] = 0]
        /\ UNCHANGED << spaceVars, heap_end, at >>
  /\ UNCHANGED << cr3, esp0, parent, child, halted >>
------------------------------------------------------------------------------
(***************************************************************************)
(* sys_sbrk: within the last page it only moves heap_end; otherwise it     *)
(* maps the pages from the next page boundary on.  Outside the user's      *)
(* space (in the first task, and in a child of fork) every page is mapped  *)
(* by the kernel, and memory_create_map stops; without a page to map the   *)
(* call ends before that, and moves heap_end, which remains outside.       *)
(***************************************************************************)
Slip_PageAgain(start, end)  == <<PagesIn(start), PagesIn(end)>>
Slip_LastPart(start, end)   == <<PagesIn(start) + 1, end \div PageSize>>
PagesBetween(start, end)    == <<PagesIn(start) + 1, PagesIn(end)>>

sbrk_in_page(t, incr) ==
  LET offset == heap_end[t] % PageSize
  IN  /\ pc[t] = "user"
      /\ heap_end[t] # NoHeap
      /\ offset # 0 /\ offset + incr <= PageSize
      /\ heap_end' = [heap_end EXCEPT ![t] = @ + incr]
      /\ UNCHANGED << spaceVars, cr3, esp0, parent, pc, callVars, lost, starved, halted >>

(* Bound: the heap of a process stays below its stack.  The code does not  *)
(* ask: a program that goes on gets to the pages of its stack.             *)
sbrk_pages(t, incr) ==
  LET end    == heap_end[t] + incr
      offset == heap_end[t] % PageSize
  IN  /\ heap_end[t] # NoHeap
      /\ offset = 0 \/ offset + incr > PageSize
      /\ end <= (StackFrom - 1) * PageSize
      /\ Goes(t, "user", "map")
      /\ dir'  = [dir EXCEPT ![t] = cr3[t]]
      /\ todo' = [todo EXCEPT ![t] = << PagesBetween(heap_end[t], end) >>]
      /\ goal' = [goal EXCEPT ![t] = end]
      /\ UNCHANGED << spaceVars, taskVars, child, at, page, lost, starved, halted >>

sbrk_outside(t) ==
  /\ pc[t] = "user"
  /\ heap_end[t] = NoHeap
  /\ \/ /\ Free # {}
        /\ halted' = "heap outside"
        /\ UNCHANGED starved
     \/ /\ Exhausted
        /\ UNCHANGED halted
  /\ UNCHANGED << spaceVars, taskVars, pc, callVars, lost >>

sbrk_ends(t) ==
  /\ todo[t] = <<>>
  /\ dir[t] = cr3[t]
  /\ Goes(t, "map", "user")
  /\ dir'  = [dir EXCEPT ![t] = 0]
  /\ goal' = [goal EXCEPT ![t] = NoHeap]
  /\ UNCHANGED << spaceVars, taskVars, child, at, page, todo, lost, starved, halted >>

sys_sbrk(t) ==
  (\E incr \in 1..MaxIncr : sbrk_in_page(t, incr) \/ sbrk_pages(t, incr)) \/ sbrk_outside(t)
------------------------------------------------------------------------------
(***************************************************************************)
(* sys_execv: a new directory, the program's segment and the stack; then   *)
(* the process goes over to the new space and the old one is forgotten.  A *)
(* file that is not a program, or a table that cannot be had, ends in      *)
(* exec_failed, which destroys the new space.  copy_args stops the kernel  *)
(* if there is no table for the place of the arguments.  A program here    *)
(* has one segment, from the beginning of the space; load_elf_file loads   *)
(* as many as there are, and heap_end is then the end of the last.         *)
(***************************************************************************)
exec_without_dir(t) ==
  /\ pc[t] = "user"
  /\ Exhausted
  /\ UNCHANGED << spaceVars, taskVars, pc, callVars, lost, halted >>

exec(t, memsz) ==
  /\ \E p \in Page :
       /\ addr_alloc_page(p)
       /\ mem' = [mem EXCEPT ![p] = Empty]
       /\ dir' = [dir EXCEPT ![t] = p]
  /\ \/ /\ Goes(t, "user", "map")
        /\ todo' = [todo EXCEPT ![t] = << <<1, PagesIn(memsz)>>, <<StackFrom, VPages>> >>]
        /\ goal' = [goal EXCEPT ![t] = memsz]
        /\ UNCHANGED at
     \/ /\ Goes(t, "user", "exec_undo")
        /\ at' = [at EXCEPT ![t] = 1]
        /\ UNCHANGED << todo, goal >>
  /\ UNCHANGED << taskVars, child, page, lost, starved, halted >>

exec_ends(t) ==
  /\ todo[t] = <<>>
  /\ dir[t] # cr3[t]
  /\ pc[t] = "map"
  /\ \/ /\ Table(dir[t], VPages) # 0
        /\ pc'   = [pc EXCEPT ![t] = "user"]
        /\ lost' = lost \cup PagesOf(cr3[t])
        /\ cr3'  = [cr3 EXCEPT ![t] = dir[t]]
        /\ dir'  = [dir EXCEPT ![t] = 0]
        /\ goal' = [goal EXCEPT ![t] = NoHeap]
        /\ UNCHANGED halted
     \/ /\ Table(dir[t], VPages) = 0
        /\ halted' = "no stack"
        /\ UNCHANGED << pc, lost, cr3, dir, goal >>
  /\ UNCHANGED << spaceVars, esp0, heap_end, parent, child, at, page, todo, starved >>

exec_undo(t) ==
  /\ memory_destroy_uvm(t, "exec_undo", "exec_failed")
  /\ UNCHANGED << taskVars, child, dir, page, todo, goal, lost, starved, halted >>

exec_failed(t) ==
  /\ Goes(t, "exec_failed", "user")
  /\ dir'  = [dir EXCEPT ![t] = 0]
  /\ todo' = [todo EXCEPT ![t] = <<>>]
  /\ goal' = [goal EXCEPT ![t] = NoHeap]
  /\ UNCHANGED << spaceVars, taskVars, child, at, page, lost, starved, halted >>

sys_execv(t) == exec_ends(t) \/ exec_undo(t) \/ exec_failed(t)
------------------------------------------------------------------------------
(***************************************************************************)
(* A child that has been given -1 for a directory is dispatched some day,  *)
(* and the machine starts again.                                           *)
(***************************************************************************)
Reset(t) ==
  /\ pc[t] = "user"
  /\ cr3[t] = BadDir
  /\ halted' = "reset"
  /\ UNCHANGED << spaceVars, taskVars, pc, callVars, lost, starved >>

(* A call that is under way goes on; a process with a space begins one.    *)
Proceeds(t) == sys_fork(t) \/ sys_wait(t) \/ map_page(t) \/ map_table(t) \/ sbrk_ends(t) \/ sys_execv(t)

Begins(t) ==
  /\ cr3[t] # BadDir
  /\ calls < MaxCalls
  /\ calls' = calls + 1
  /\ fork(t) \/ wait(t) \/ exit(t) \/ sys_sbrk(t)
     \/ exec_without_dir(t) \/ \E memsz \in Programs : exec(t, memsz)

(* The kernel is down; or, by the bound on calls, nobody begins another.   *)
Halted ==
  /\ \/ halted # "no"
     \/ calls = MaxCalls /\ \A t \in Task : pc[t] \in {"free", "user", "zombie"}
  /\ UNCHANGED vars

Next ==
  \/ /\ halted = "no"
     /\ \E t \in Task : Proceeds(t) \/ Reset(t)
     /\ UNCHANGED calls
  \/ /\ halted = "no"
     /\ \E t \in Task : Begins(t)
  \/ Halted

Spec == Init /\ [][Next]_vars
------------------------------------------------------------------------------
Pc == { "free", "new", "user", "zombie", "fork_stack", "fork_dir", "fork_undo",
        "copy_dir", "copy", "copy_table", "copy_undo", "copy_failed",
        "reap", "reap_stack", "map", "map_table", "exec_undo", "exec_failed" }

Halts == { "no", "freed twice", "mapped twice", "heap outside", "no stack", "reset" }

MemTypeOK ==
  /\ used \subseteq Page
  /\ mem \in [Page -> [Entry -> 0..PageCount]]
  /\ cr3 \in [Task -> -1..PageCount]
  /\ esp0 \in [Task -> 0..PageCount]
  /\ heap_end \in [Task -> -1..UserSize]
  /\ parent \in [Task -> Task \cup {NoTask}]
  /\ pc \in [Task -> Pc]
  /\ child \in [Task -> Slot \cup {NoTask}]
  /\ dir \in [Task -> 0..PageCount]
  /\ at \in [Task -> 0..LastStop]
  /\ page \in [Task -> 0..PageCount]
  /\ todo \in [Task -> Seq(VPage \X VPage)]
  /\ goal \in [Task -> -1..UserSize]
  /\ lost \subseteq Page
  /\ starved \in BOOLEAN
  /\ halted \in Halts

(* A zombie that is being reaped: its space is in the hands of its parent. *)
Reaped == { child[t] : t \in { u \in Task : pc[u] \in ReapPc } }

(* A stack that tss_init has freed and task_uninit will free again.        *)
FreedStack(c) == \E t \in Task : pc[t] = "fork_undo" /\ child[t] = c

Spaces == { t \in Task : cr3[t] \notin {0, BadDir} } \ Reaped

(* The stops of dir[t] that are the call's own: all of a space that is     *)
(* being built, and what is left of one that is being destroyed.           *)
Stops == 1..LastStop
InHand(t) ==
  IF dir[t] \in {0, cr3[t]} \/ pc[t] \in {"copy_failed", "exec_failed", "reap_stack"} THEN {}
  ELSE IF pc[t] \in {"copy_undo", "exec_undo", "reap"} THEN at[t]..LastStop
  ELSE Stops

(* All the places that name a page as their own, each with the page.       *)
Named ==
       (UNION { { <<"space", t, n, StopAt(cr3[t], n)>> : n \in Stops } : t \in Spaces })
  \cup (UNION { { <<"call", t, n, StopAt(dir[t], n)>> : n \in InHand(t) } : t \in Task })
  \cup { <<"stack", c, 0, esp0[c]>> : c \in { c \in Task : ~FreedStack(c) } }
  \cup { <<"page", t, 0, page[t]>> : t \in Task }
  \cup { <<"lost", 0, 0, p>> : p \in lost }

Claims == { c \in Named : c[4] # 0 }

(***************************************************************************)
(* No page is ever in two places: two spaces, a space and a kernel stack,  *)
(* a table and the frame of somebody else, a space that lives and one that *)
(* is being built or destroyed.  Many walks run at once, and pages they    *)
(* free are given out again while they are still walking.  (Only once the  *)
(* same stack is freed twice does this end; see HaltsOnlyWhenStarved.)     *)
(***************************************************************************)
OneOwner ==
  halted # "freed twice" => \A c, d \in Claims : c[4] = d[4] => c = d

(***************************************************************************)
(* The bitmap is right about every page: what is in use belongs to         *)
(* somebody, or is one of the pages the code is known to forget (the       *)
(* directory of tss_init when a fork replaces it, the old space when       *)
(* execve goes over to the new one, the frame in hand when there is no     *)
(* page for its table); no failure path leaks anything else, and nothing   *)
(* that is still somebody's has been freed.                                *)
(***************************************************************************)
AllAccounted ==
  halted # "freed twice" => used = { c[4] : c \in Claims }

(***************************************************************************)
(* Whatever other processes do, what an address of a process stands for    *)
(* stays what it is while it keeps its space: its pages are neither taken  *)
(* away nor exchanged, and only a call of its own adds one.                *)
(***************************************************************************)
Isolation ==
  [][ \A t \in Spaces :
        t \in Spaces' /\ cr3'[t] = cr3[t] =>
          \A v \in VPage :
            \/ Frame(cr3[t], v)' = Frame(cr3[t], v)
            \/ Frame(cr3[t], v) = 0 /\ dir[t] = cr3[t] /\ pc[t] \in {"map", "map_table"} ]_vars

(***************************************************************************)
(* A child of fork starts with all the pages its parent has, and no        *)
(* others, unless memory has run out.                                      *)
(***************************************************************************)
ForkCopies ==
  [][ \A t \in Task, c \in Slot :
        pc[t] \in {"copy_dir", "copy", "copy_failed"} /\ pc'[t] = "user" /\ child[t] = c =>
          \/ cr3'[c] # BadDir /\ Mapped(cr3[c])' = Mapped(cr3[t])
          \/ cr3'[c] = BadDir /\ starved' ]_vars

(***************************************************************************)
(* As long as memory has not run out, every byte below heap_end of a       *)
(* process that is back from its calls is mapped: what sbrk has promised   *)
(* can be used.  (Without a frame memory_alloc_for_page_dir returns 0, and *)
(* sbrk promises memory that is not there.)                                *)
(***************************************************************************)
HeapMapped ==
  \A t \in Task :
    ~starved /\ pc[t] = "user" /\ heap_end[t] # NoHeap =>
      1..PagesIn(heap_end[t]) \subseteq Mapped(cr3[t])

(***************************************************************************)
(* Only when memory has run out at some time do the failure paths bring    *)
(* the kernel down: by freeing a kernel stack twice, by mapping a page     *)
(* twice, by an execve without a stack, or by a process with -1 for a      *)
(* directory.  No interleaving of calls that all succeed does.             *)
(***************************************************************************)
HaltsOnlyWhenStarved ==
  halted \in {"freed twice", "mapped twice", "no stack", "reset"} => starved
==============================================================================
