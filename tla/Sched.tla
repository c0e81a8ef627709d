-------------------------------- MODULE Sched --------------------------------
(***************************************************************************)
(* The scheduler of kernel/core/task.c: the ready list, the sleep list,    *)
(* the running task, and the handlers that change them - task_start, the   *)
(* clock interrupt, sys_msleep and sys_yield.  Every handler runs between  *)
(* irq_enter_protection and irq_leave_protection on the single CPU, so it  *)
(* is one atomic action, and each ends in task_dispatch.                   *)
(***************************************************************************)
EXTENDS KList

CONSTANTS
  Task,        \* the task_t objects other than task_manager.idle_task
  Idle,        \* task_manager.idle_task
  First,       \* task_manager.first_task, started by task_first_init
  TimeSlice,   \* TASK_TIME_SLICE_DEFAULT
  TickMs,      \* OS_TICK_MS
  Word,        \* 2^32: the arithmetic of uint32_t wraps here
  Ms           \* the arguments given to msleep, as the int the caller passes

ASSUME SchedAssumption ==
  /\ First \in Task
  /\ Idle \notin Task
  /\ TimeSlice \in Nat \ {0}
  /\ Word \in Nat
  /\ TickMs \in Nat \ {0}
  /\ 2 * TickMs <= Word
  /\ Ms \subseteq { ms \in Int : -Word <= 2 * ms /\ 2 * ms < Word }

VARIABLES
  ready_list,   \* task_manager.ready_list: the running task is its head
  sleep_list,   \* task_manager.sleep_list
  curr_task,    \* task_manager.curr_task
  state,        \* task_t.state
  slice_ticks,  \* task_t.slice_ticks
  sleep_ticks   \* task_t.sleep_ticks

schedVars == << ready_list, sleep_list, curr_task, state, slice_ticks, sleep_ticks >>

AllTasks  == Task \cup {Idle}
TaskState == {"created", "running", "sleep", "ready", "waiting", "zombie"}

(***************************************************************************)
(* task_manager_init and task_first_init: the idle task is initialised but *)
(* never listed, the first task is the current one and the only ready one. *)
(* The other task_t are created (task_init) and not started yet.           *)
(***************************************************************************)
SchedInit ==
  /\ ready_list  = <<First>>
  /\ sleep_list  = <<>>
  /\ curr_task   = First
  /\ state       = [t \in AllTasks |-> IF t = First THEN "ready" ELSE "created"]
  /\ slice_ticks = [t \in AllTasks |-> TimeSlice]
  /\ sleep_ticks = [t \in AllTasks |-> 0]

(***************************************************************************)
(* What the handlers are made of.  A handler computes the ready list and   *)
(* the task states it leaves, and gives them to task_dispatch.  Neither    *)
(* task_set_ready nor task_set_block ever lists the idle task.             *)
(*                                                                         *)
(* A definition named Slip_ is a plausible error in the one that follows;  *)
(* no action uses it.  Each property below fails when the definition is    *)
(* replaced by one of its slips.                                           *)
(***************************************************************************)
Slip_ReadyFirst(ready, t) == IF t = Idle THEN ready ELSE << t >> \o ready
Slip_ListsIdle(ready, t)  == Append(ready, t)

task_set_ready(ready, t) == IF t = Idle THEN ready ELSE Append(ready, t)
task_set_block(ready, t) == IF t = Idle THEN ready ELSE list_remove(ready, t)

Readied(states, t) == IF t = Idle THEN states ELSE [states EXCEPT ![t] = "ready"]

task_next_run(ready) == IF ready = <<>> THEN Idle ELSE Head(ready)

Slip_KeepsTheCpu(ready, states) ==
  LET to == IF curr_task \in ToSet(ready) THEN curr_task ELSE task_next_run(ready)
  IN  /\ ready_list' = ready
      /\ curr_task'  = to
      /\ state' = [states EXCEPT ![to] = "running"]

task_dispatch(ready, states) ==
  LET to == task_next_run(ready)
  IN  /\ ready_list' = ready
      /\ curr_task'  = to
      /\ state' = IF to = curr_task THEN states ELSE [states EXCEPT ![to] = "running"]

(***************************************************************************)
(* task_start: a task that task_init has created becomes ready.  The task  *)
(* that is running calls it (at the end of sys_fork); it does not dispatch.*)
(***************************************************************************)
task_start(t) ==
  /\ curr_task # Idle
  /\ state[t] = "created"
  /\ ready_list' = task_set_ready(ready_list, t)
  /\ state' = Readied(state, t)
  /\ UNCHANGED << sleep_list, curr_task, slice_ticks, sleep_ticks >>

(***************************************************************************)
(* task_time_tick, the clock interrupt: takes a tick from the slice of the *)
(* running task and moves it to the tail of the ready list when the slice  *)
(* is used up; then takes a tick from every sleeper, and moves those whose *)
(* time has come, in the order of the sleep list, behind it.               *)
(***************************************************************************)
Sleeping == ToSet(sleep_list)

Slip_DueBefore   == { t \in Sleeping : sleep_ticks[t] = 0 }
Slip_DueIfBusy   == { t \in Sleeping : sleep_ticks[t] = 1 /\ curr_task # Idle }

Due == { t \in Sleeping : sleep_ticks[t] = 1 }

(* The decrement of sleep_ticks, an int: it wraps below the smallest.      *)
Decremented(ticks) ==
  IF ticks = -(Word \div 2) THEN (Word \div 2) - 1 ELSE ticks - 1

task_time_tick ==
  LET sliceEnds == slice_ticks[curr_task] = 1
      rotated   == IF sliceEnds
                   THEN task_set_ready(task_set_block(ready_list, curr_task), curr_task)
                   ELSE ready_list
      states    == IF sliceEnds THEN Readied(state, curr_task) ELSE state
  IN  \E woken \in InOrder(sleep_list, Due),
         asleep \in InOrder(sleep_list, Sleeping \ Due) :
        /\ slice_ticks' = [slice_ticks EXCEPT
                             ![curr_task] = IF sliceEnds THEN TimeSlice ELSE @ - 1]
        /\ sleep_list'  = asleep
        /\ sleep_ticks' = [t \in AllTasks |->
                             IF t \in Sleeping THEN Decremented(sleep_ticks[t])
                                               ELSE sleep_ticks[t]]
        /\ task_dispatch(rotated \o woken,
                         [t \in AllTasks |-> IF t \in Due THEN "ready" ELSE states[t]])

(***************************************************************************)
(* sys_msleep: the argument is a uint32_t; it is rounded up to whole ticks *)
(* in 32 bits, and task_set_sleep lists nobody for zero ticks although     *)
(* task_set_block has already taken the caller off the ready list.  msleep *)
(* is the library's wrapper, which lets only a positive int through.       *)
(***************************************************************************)
MsToTicks(ms) ==
  LET atLeast == IF ms < TickMs THEN TickMs ELSE ms
  IN  ((atLeast + (TickMs - 1)) % Word) \div TickMs

sys_msleep(ms) ==
  LET ticks == MsToTicks(ms)
      t     == curr_task
      lists == ticks > 0 /\ t # Idle
  IN  /\ curr_task # Idle
      /\ sleep_list'  = IF lists THEN Append(sleep_list, t) ELSE sleep_list
      /\ sleep_ticks' = IF lists THEN [sleep_ticks EXCEPT ![t] = ticks] ELSE sleep_ticks
      /\ task_dispatch(task_set_block(ready_list, t),
                       IF lists THEN [state EXCEPT ![t] = "sleep"] ELSE state)
      /\ UNCHANGED slice_ticks

Slip_AnyInt(ms) == sys_msleep(ms % Word)

msleep(ms) ==
  /\ ms > 0
  /\ sys_msleep(ms % Word)

(***************************************************************************)
(* sys_yield: the caller goes to the tail, unless nobody else is ready.    *)
(***************************************************************************)
sys_yield ==
  /\ curr_task # Idle
  /\ Len(ready_list) > 1
  /\ task_dispatch(task_set_ready(task_set_block(ready_list, curr_task), curr_task),
                   Readied(state, curr_task))
  /\ UNCHANGED << sleep_list, slice_ticks, sleep_ticks >>

SchedNext ==
  \/ task_time_tick
  \/ \E t \in Task : task_start(t)
  \/ \E ms \in Ms : msleep(ms)
  \/ sys_yield

(***************************************************************************)
(* The programmable timer raises the clock interrupt for ever, and no      *)
(* handler keeps interrupts off: the tick is weakly fair.  Nothing is      *)
(* assumed of the tasks.                                                   *)
(***************************************************************************)
SchedSpec == SchedInit /\ [][SchedNext]_schedVars /\ WF_schedVars(task_time_tick)
------------------------------------------------------------------------------
(* The type of the scheduler's variables. *)
SchedTypeOK ==
  /\ ready_list \in Seq(Task)
  /\ sleep_list \in Seq(Task)
  /\ curr_task \in AllTasks
  /\ state \in [AllTasks -> TaskState]
  /\ slice_ticks \in [AllTasks -> 1..TimeSlice]
  /\ sleep_ticks \in [AllTasks -> 0..(Word - 1)]

(***************************************************************************)
(* A task_t has one run_node, so it can be in one list only, and once: the *)
(* ready list, the sleep list and the set of the tasks that are parked     *)
(* elsewhere are disjoint.  And no started task is lost: it is in one of   *)
(* them, or nothing will ever run it again.                                *)
(***************************************************************************)
Started == { t \in Task : state[t] # "created" }
Active  == ToSet(ready_list) \cup Sleeping

ListsApart ==
  /\ NoDuplicate(ready_list)
  /\ NoDuplicate(sleep_list)
  /\ ToSet(ready_list) \cap Sleeping = {}
  /\ Active \subseteq Started

OnePlaceOr(parked) ==
  /\ ListsApart
  /\ Active \cap parked = {}
  /\ Active \cup parked = Started

OnePlace == OnePlaceOr({})

(***************************************************************************)
(* task_dispatch is never forgotten: the CPU belongs to the head of the    *)
(* ready list, and to the idle task only when nobody is ready.             *)
(***************************************************************************)
CurrIsHead == curr_task = task_next_run(ready_list)

(***************************************************************************)
(* A sleeper has ticks left and is marked so: the decrement in the clock   *)
(* interrupt never wraps, and nobody sleeps for 2^32 ticks instead of one. *)
(***************************************************************************)
SleepersCount ==
  \A t \in Sleeping : sleep_ticks[t] > 0 /\ state[t] = "sleep"

(* The scheduler's part of every inductive invariant. *)
SchedInv == SchedTypeOK /\ ListsApart /\ CurrIsHead /\ SleepersCount

(***************************************************************************)
(* Round robin.  Nobody overtakes: while two tasks stay ready, the one     *)
(* that is behind never gets in front, unless the one in front was         *)
(* running and gave up the CPU.  In particular a task that wakes up, or    *)
(* that is started, goes behind every task that was already waiting.       *)
(***************************************************************************)
KeepsOrder(old, new, running) ==
  /\ \A t \in ToSet(new) \ {running}, u \in ToSet(new) :
       Before(old, t, u) => Before(new, t, u)
  /\ \A t \in (ToSet(old) \cap ToSet(new)) \ {running}, u \in ToSet(new) \ ToSet(old) :
       Before(new, t, u)

NoOvertaking == [][KeepsOrder(ready_list, ready_list', curr_task)]_schedVars

(***************************************************************************)
(* Every ready task gets the CPU, however the others behave: the clock     *)
(* takes it from a task that never gives it up.                            *)
(***************************************************************************)
ReadyRuns == \A t \in Task : t \in ToSet(ready_list) ~> curr_task = t

(* Every sleeper wakes up. *)
SleeperWakes == \A t \in Task : t \in Sleeping ~> t \in ToSet(ready_list)
==============================================================================
