--------------------------------- MODULE Ipc ---------------------------------
(***************************************************************************)
(* The mutex (kernel/ipc/mutex.c) and the counting semaphore               *)
(* (kernel/ipc/sem.c) on top of the scheduler.  Each call runs with        *)
(* interrupts off, so it is one action; it blocks by taking its caller off *)
(* the ready list, linking it in a wait list and dispatching.  The callers *)
(* are arbitrary: any task may make any of the calls whenever it has the   *)
(* CPU, while the clock ticks and other tasks start, sleep and yield.      *)
(***************************************************************************)
EXTENDS Sched

CONSTANTS
  Mutex, Sem,  \* the mutex_t and sem_t objects
  SemInit,     \* the init_count each semaphore is given by sem_init
  NoTask,      \* the null task_t pointer
  MaxDepth,    \* bound: how often a mutex is locked by its owner
  MaxCount     \* bound: the count of a semaphore

ASSUME IpcAssumption ==
  /\ NoTask \notin AllTasks
  /\ MaxDepth \in Nat \ {0}
  /\ MaxCount \in Nat
  /\ SemInit \in [Sem -> 0..MaxCount]

VARIABLES
  locked_count,  \* mutex_t.locked_count
  owner,         \* mutex_t.owner
  lock_waiters,  \* mutex_t.wait_list
  count,         \* sem_t.count
  sem_waiters    \* sem_t.wait_list

mutexVars == << locked_count, owner, lock_waiters >>
semVars   == << count, sem_waiters >>
ipcVars   == << schedVars, mutexVars, semVars >>

(* mutex_init and sem_init, before any task uses them. *)
IpcInit ==
  /\ SchedInit
  /\ locked_count = [m \in Mutex |-> 0]
  /\ owner        = [m \in Mutex |-> NoTask]
  /\ lock_waiters = [m \in Mutex |-> <<>>]
  /\ count        = SemInit
  /\ sem_waiters  = [s \in Sem |-> <<>>]

(* The caller blocks: off the ready list, and the CPU goes to another. *)
Slip_StaysReady ==
  /\ task_dispatch(ready_list, state)
  /\ UNCHANGED << sleep_list, slice_ticks, sleep_ticks >>

BlockCaller ==
  /\ task_dispatch(task_set_block(ready_list, curr_task), state)
  /\ UNCHANGED << sleep_list, slice_ticks, sleep_ticks >>

(* A task that was blocked is made ready; the CPU changes hands only if it *)
(* was idle.                                                               *)
Unblock(t) ==
  /\ task_dispatch(task_set_ready(ready_list, t), Readied(state, t))
  /\ UNCHANGED << sleep_list, slice_ticks, sleep_ticks >>

(***************************************************************************)
(* mutex_lock: takes the lock if it is free, counts if the caller has it,  *)
(* and waits otherwise.  A caller that waited owns the lock when it runs   *)
(* again: mutex_unlock has given it to him.                                *)
(***************************************************************************)
mutex_lock(m) ==
  /\ curr_task # Idle
  /\ \/ /\ locked_count[m] = 0
        /\ locked_count' = [locked_count EXCEPT ![m] = 1]
        /\ owner' = [owner EXCEPT ![m] = curr_task]
        /\ UNCHANGED << lock_waiters, schedVars >>
     \/ /\ locked_count[m] \in 1..(MaxDepth - 1)
        /\ owner[m] = curr_task
        /\ locked_count' = [locked_count EXCEPT ![m] = @ + 1]
        /\ UNCHANGED << owner, lock_waiters, schedVars >>
     \/ /\ locked_count[m] # 0
        /\ owner[m] # curr_task
        /\ lock_waiters' = [lock_waiters EXCEPT ![m] = Append(@, curr_task)]
        /\ BlockCaller
        /\ UNCHANGED << locked_count, owner >>
  /\ UNCHANGED semVars

(***************************************************************************)
(* mutex_unlock: undoes one mutex_lock of the owner.  With the last one    *)
(* the lock goes to the first waiter, if there is one, before anybody can  *)
(* see it free.  A call by another task changes nothing.                   *)
(***************************************************************************)
Slip_WakeOnly(m) ==
  /\ owner' = [owner EXCEPT ![m] = NoTask]
  /\ locked_count' = [locked_count EXCEPT ![m] = 0]
  /\ lock_waiters' = [lock_waiters EXCEPT ![m] = Tail(@)]
  /\ Unblock(Head(lock_waiters[m]))

Slip_LastFirst(m) ==
  /\ owner' = [owner EXCEPT ![m] = Last(lock_waiters[m])]
  /\ lock_waiters' = [lock_waiters EXCEPT ![m] = Front(@)]
  /\ Unblock(Last(lock_waiters[m]))
  /\ UNCHANGED locked_count

HandOver(m) ==
  /\ owner' = [owner EXCEPT ![m] = Head(lock_waiters[m])]
  /\ lock_waiters' = [lock_waiters EXCEPT ![m] = Tail(@)]
  /\ Unblock(Head(lock_waiters[m]))
  /\ UNCHANGED locked_count

mutex_unlock(m) ==
  /\ curr_task # Idle
  /\ owner[m] = curr_task
  /\ \/ /\ locked_count[m] > 1
        /\ locked_count' = [locked_count EXCEPT ![m] = @ - 1]
        /\ UNCHANGED << owner, lock_waiters, schedVars >>
     \/ /\ locked_count[m] = 1
        /\ lock_waiters[m] = <<>>
        /\ locked_count' = [locked_count EXCEPT ![m] = 0]
        /\ owner' = [owner EXCEPT ![m] = NoTask]
        /\ UNCHANGED << lock_waiters, schedVars >>
     \/ /\ locked_count[m] = 1
        /\ lock_waiters[m] # <<>>
        /\ HandOver(m)
  /\ UNCHANGED semVars

Slip_CountsWaiters(s) ==
  /\ curr_task # Idle
  /\ count' = [count EXCEPT ![s] = @ - 1]
  /\ IF count[s] > 0
     THEN UNCHANGED << sem_waiters, schedVars >>
     ELSE sem_waiters' = [sem_waiters EXCEPT ![s] = Append(@, curr_task)] /\ BlockCaller
  /\ UNCHANGED mutexVars

sem_wait(s) ==
  /\ curr_task # Idle
  /\ \/ /\ count[s] > 0
        /\ count' = [count EXCEPT ![s] = @ - 1]
        /\ UNCHANGED << sem_waiters, schedVars >>
     \/ /\ count[s] <= 0
        /\ sem_waiters' = [sem_waiters EXCEPT ![s] = Append(@, curr_task)]
        /\ BlockCaller
        /\ UNCHANGED count
  /\ UNCHANGED mutexVars

(***************************************************************************)
(* sem_notify: called by a task, or by the keyboard interrupt (tty_in)     *)
(* whoever is running, the idle task included.                             *)
(***************************************************************************)
Slip_CountsAlways(s) ==
  /\ count[s] < MaxCount
  /\ count' = [count EXCEPT ![s] = @ + 1]
  /\ IF sem_waiters[s] = <<>>
     THEN UNCHANGED << sem_waiters, schedVars >>
     ELSE /\ sem_waiters' = [sem_waiters EXCEPT ![s] = Tail(@)]
          /\ Unblock(Head(sem_waiters[s]))
  /\ UNCHANGED mutexVars

sem_notify(s) ==
  /\ \/ /\ sem_waiters[s] # <<>>
        /\ sem_waiters' = [sem_waiters EXCEPT ![s] = Tail(@)]
        /\ Unblock(Head(sem_waiters[s]))
        /\ UNCHANGED count
     \/ /\ sem_waiters[s] = <<>>
        /\ count[s] < MaxCount
        /\ count' = [count EXCEPT ![s] = @ + 1]
        /\ UNCHANGED << sem_waiters, schedVars >>
  /\ UNCHANGED mutexVars

IpcNext ==
  \/ SchedNext /\ UNCHANGED << mutexVars, semVars >>
  \/ \E m \in Mutex : mutex_lock(m) \/ mutex_unlock(m)
  \/ \E s \in Sem : sem_wait(s) \/ sem_notify(s)

Clock == task_time_tick /\ UNCHANGED << mutexVars, semVars >>

IpcSpec == IpcInit /\ [][IpcNext]_ipcVars /\ WF_ipcVars(Clock)
------------------------------------------------------------------------------
Waiting(m) == ToSet(lock_waiters[m])
Pending(s) == ToSet(sem_waiters[s])

(* The tasks that are linked in a wait list. *)
Parked ==
  (UNION { Waiting(m) : m \in Mutex }) \cup (UNION { Pending(s) : s \in Sem })

IpcTypeOK ==
  /\ SchedTypeOK
  /\ locked_count \in [Mutex -> 0..MaxDepth]
  /\ owner \in [Mutex -> Task \cup {NoTask}]
  /\ lock_waiters \in [Mutex -> Seq(Task)]
  /\ count \in [Sem -> 0..MaxCount]
  /\ sem_waiters \in [Sem -> Seq(Task)]

(***************************************************************************)
(* A task has one run_node and one wait_node: it is ready, asleep or       *)
(* linked in one wait list, once, and never two of these at a time (a      *)
(* second insertion would cut both lists); and a started task is in one of *)
(* them, so nobody is lost between two lists.                              *)
(***************************************************************************)
WaitListsApart ==
  /\ \A m \in Mutex : NoDuplicate(lock_waiters[m])
  /\ \A s \in Sem : NoDuplicate(sem_waiters[s])
  /\ \A m, n \in Mutex : m # n => Waiting(m) \cap Waiting(n) = {}
  /\ \A r, s \in Sem : r # s => Pending(r) \cap Pending(s) = {}
  /\ \A m \in Mutex, s \in Sem : Waiting(m) \cap Pending(s) = {}

EveryTaskInOnePlace == OnePlaceOr(Parked) /\ WaitListsApart

(***************************************************************************)
(* A lock is held exactly when it has an owner, only a held lock has       *)
(* waiters, and the owner is not one of them.  It is what makes the        *)
(* hand-over in mutex_unlock enough: no lock is free with a task waiting.  *)
(***************************************************************************)
LockConsistent ==
  \A m \in Mutex :
    /\ locked_count[m] = 0 <=> owner[m] = NoTask
    /\ owner[m] = NoTask => lock_waiters[m] = <<>>
    /\ owner[m] \notin Waiting(m)

(* Nobody waits for a semaphore that has permits: no wakeup is lost. *)
NoPermitWhileWaiting == \A s \in Sem : sem_waiters[s] # <<>> => count[s] = 0

(* The kernel's locks and semaphores keep the promise of Blocking. *)
Promise == INSTANCE Blocking WITH
  holder <- owner, lockQueue <- lock_waiters,
  permits <- count, semQueue <- sem_waiters, Permits <- SemInit
KeepsPromise == Promise!Spec

(***************************************************************************)
(* A waiter gets the lock, provided every owner lets go of it some day:    *)
(* those who come later cannot pass it, and the scheduler neither loses    *)
(* nor starves anyone.                                                     *)
(***************************************************************************)
EveryOwnerLetsGo(m) == \A t \in Task : owner[m] = t ~> owner[m] # t
WaiterIsServed ==
  \A m \in Mutex :
    EveryOwnerLetsGo(m) =>
      \A t \in Task : t \in Waiting(m) ~> (owner[m] = t /\ curr_task = t)
==============================================================================
