---------------------------- MODULE ProcessProofs ----------------------------
(***************************************************************************)
(* sys_fork, sys_wait and sys_exit with a table of any size and any number *)
(* of processes in sys_fork, as long as no two of them have come to the    *)
(* same slot of the table (SlotRace shows that they can): nobody is lost   *)
(* or listed twice, no parent pointer dangles, only the dead are reaped,   *)
(* and parents are told.  As long as no two have come to the same GDT      *)
(* entry either, everybody has an entry of his own.                        *)
(***************************************************************************)
EXTENDS Process, IpcProofs

Gone == WaitingForChild \cup Dead

(* Who is where, the wait list of the table's mutex included.              *)
PlaceInv == IpcTypeOK /\ SchedInv /\ EveryProcessInOnePlace

SameGone == WaitingForChild' = WaitingForChild /\ Dead' = Dead
------------------------------------------------------------------------------
(***************************************************************************)
(* The steps of the scheduler and of the mutex make tasks ready or running *)
(* that they list, and touch no other state.                               *)
(***************************************************************************)
Quiet ==
  \A u \in Task : \/ state'[u] = state[u]
                  \/ u \in Active' /\ state'[u] \in {"ready", "running"}

(* A dispatch changes a state only of a ready task, to running.            *)
LEMMA DispatchStates ==
  ASSUME NEW ready \in Seq(Task), NEW states \in [AllTasks -> TaskState],
         task_dispatch(ready, states)
  PROVE  \A u \in Task : \/ state'[u] = states[u]
                         \/ u \in ToSet(ready) /\ state'[u] = "running"
<1> DEFINE to == task_next_run(ready)
<1>1. ready # <<>> => Head(ready) = ready[1] /\ 1 \in DOMAIN ready
  BY LenProperties, EmptySeq, HeadTailProperties
<1>2. to = Idle \/ to \in ToSet(ready)
  BY <1>1 DEF ToSet, task_next_run
<1>3. state' = IF to = curr_task THEN states ELSE [states EXCEPT ![to] = "running"]
  BY DEF task_dispatch
<1> HIDE DEF to
<1> QED BY <1>2, <1>3, SchedAssumption DEF SchedAssumption, AllTasks

(* A task that blocks leaves those outside the lists as they are,          *)
LEMMA BlockQuiet ==
  ASSUME SchedInv, curr_task # Idle, BlockCaller
  PROVE  Quiet
<1>1. task_dispatch(Tail(ready_list), state) /\ Tail(ready_list) \in Seq(Task)
  BY BlockCurrent DEF BlockCaller
<1>2. ready_list' = Tail(ready_list)
  BY <1>1 DEF task_dispatch
<1>3. \A u \in Task : state'[u] = state[u] \/ (u \in ToSet(ready_list') /\ state'[u] = "running")
  BY <1>1, <1>2, DispatchStates DEF SchedInv, SchedTypeOK
<1> QED BY <1>3 DEF Quiet, Active

(* and so does one that is made ready,                                     *)
LEMMA UnblockQuiet ==
  ASSUME SchedInv, NEW t \in Task, Unblock(t)
  PROVE  Quiet
<1> DEFINE ready == Append(ready_list, t)
           states == [state EXCEPT ![t] = "ready"]
<1>1. task_dispatch(ready, states)
  BY SchedAssumption DEF SchedAssumption, Unblock, task_set_ready, Readied
<1>2. /\ ready \in Seq(Task) /\ t \in ToSet(ready)
      /\ states \in [AllTasks -> TaskState]
      /\ \A u \in Task : states[u] = IF u = t THEN "ready" ELSE state[u]
  BY InsertLast DEF SchedInv, SchedTypeOK, AllTasks, TaskState
<1>3. ready_list' = ready
  BY <1>1 DEF task_dispatch
<1> HIDE DEF ready, states
<1>4. \A u \in Task : state'[u] = states[u] \/ (u \in ToSet(ready_list') /\ state'[u] = "running")
  BY <1>1, <1>2, <1>3, DispatchStates
<1> QED BY <1>2, <1>3, <1>4 DEF Quiet, Active

(* a tick of the clock,                                                    *)
LEMMA TickQuiet ==
  ASSUME SchedInv, task_time_tick
  PROVE  Quiet
<1> DEFINE sliceEnds == slice_ticks[curr_task] = 1
           rotated == IF sliceEnds
                      THEN task_set_ready(task_set_block(ready_list, curr_task), curr_task)
                      ELSE ready_list
           ran == IF sliceEnds THEN Readied(state, curr_task) ELSE state
           states == [t \in AllTasks |-> IF t \in Due THEN "ready" ELSE ran[t]]
<1>1. PICK woken \in InOrder(sleep_list, Due) : task_dispatch(rotated \o woken, states)
  BY DEF task_time_tick
<1>2. /\ state \in [AllTasks -> TaskState] /\ sleep_list \in Seq(Task)
      /\ ready_list \in Seq(Task) /\ Due \subseteq Sleeping /\ Sleeping = ToSet(sleep_list)
  BY DEF SchedInv, SchedTypeOK, Due, Sleeping
<1>3. woken \in Seq(Task) /\ ToSet(woken) = Due
  BY <1>2, Scanned
<1>4. rotated \in Seq(Task)
  <2>1. CASE sliceEnds /\ curr_task # Idle
    BY <2>1, RotateCurrent
  <2>2. CASE ~ (sliceEnds /\ curr_task # Idle)
    BY <1>2, <2>2 DEF task_set_ready, task_set_block
  <2> QED BY <2>1, <2>2
<1>5. /\ ran \in [AllTasks -> TaskState]
      /\ \A u \in Task : ran[u] = state[u] \/ (u \in Active /\ ran[u] = "ready")
  <2>1. CASE sliceEnds /\ curr_task # Idle
    <3>1. ran = [state EXCEPT ![curr_task] = "ready"] /\ curr_task \in Active /\ curr_task \in Task
      BY <2>1, BlockCurrent DEF Readied, Active
    <3> QED BY <1>2, <3>1 DEF AllTasks, TaskState
  <2>2. CASE ~ (sliceEnds /\ curr_task # Idle)
    BY <1>2, <2>2 DEF Readied
  <2> QED BY <2>1, <2>2
<1> HIDE DEF rotated, ran
<1>6. /\ states \in [AllTasks -> TaskState]
      /\ \A u \in Task : states[u] = state[u] \/ (u \in Active /\ states[u] = "ready")
  BY <1>2, <1>5 DEF AllTasks, TaskState, Active
<1> HIDE DEF states
<1>7. rotated \o woken \in Seq(Task) /\ ready_list' = rotated \o woken
  BY <1>1, <1>3, <1>4, Joined DEF task_dispatch
<1>8. \A u \in Task : state'[u] = states[u] \/ (u \in ToSet(ready_list') /\ state'[u] = "running")
  BY <1>1, <1>6, <1>7, DispatchStates
<1>9. Active' = Active
  BY TickStep
<1> QED BY <1>6, <1>8, <1>9 DEF Quiet, Active

(* and a task that starts.                                                 *)
LEMMA StartQuiet ==
  ASSUME SchedInv, NEW t \in Task, task_start(t)
  PROVE  Quiet
<1>1. ready_list' = Append(ready_list, t) /\ state' = [state EXCEPT ![t] = "ready"]
  BY SchedAssumption DEF SchedAssumption, task_start, task_set_ready, Readied
<1>2. t \in ToSet(Append(ready_list, t))
  BY InsertLast DEF SchedInv, SchedTypeOK
<1>3. state \in [AllTasks -> TaskState]
  BY DEF SchedInv, SchedTypeOK
<1> QED BY <1>1, <1>2, <1>3 DEF Quiet, Active, AllTasks

(* Who is gone stays gone through such a step.                             *)
LEMMA QuietGone ==
  ASSUME Quiet, Active' \cap Gone = {}
  PROVE  SameGone
BY DEF Quiet, Gone, WaitingForChild, Dead, SameGone
------------------------------------------------------------------------------
(***************************************************************************)
(* What these steps do to who is where.                                    *)
(***************************************************************************)
LEMMA TheTable == Mutex = {Table} /\ Task = Slot \cup {First} /\ First \notin Slot
BY ProcessAssumption DEF ProcessAssumption

(* The running task is in a list, waits for nothing and is not gone.       *)
LEMMA RunningIsActive ==
  ASSUME PlaceInv, curr_task # Idle
  PROVE  /\ curr_task \in Task /\ curr_task \in Active /\ curr_task \in Started
         /\ curr_task \notin Waiting(Table) /\ curr_task \notin Gone
BY BlockCurrent DEF PlaceInv, EveryProcessInOnePlace, OnePlaceOr, Active, Gone

(* The clock starts nobody and makes nobody go.                            *)
LEMMA ClockStep ==
  ASSUME PlaceInv, Clock
  PROVE  PlaceInv' /\ SameGone /\ Started' = Started
<1>1. task_time_tick /\ UNCHANGED << locked_count, owner, lock_waiters, count, sem_waiters >>
  BY DEF Clock, mutexVars, semVars
<1>2. SchedInv' /\ Active' = Active /\ Started' = Started
  BY <1>1, TickStep DEF PlaceInv
<1>3. Active \cap Gone = {}
  BY DEF PlaceInv, EveryProcessInOnePlace, OnePlaceOr, Gone
<1>4. SameGone
  BY <1>1, <1>2, <1>3, TickQuiet, QuietGone DEF PlaceInv
<1>5. Waiting(Table)' = Waiting(Table)
  BY <1>1 DEF Waiting
<1>6. EveryProcessInOnePlace'
  BY <1>1, <1>2, <1>4, <1>5 DEF PlaceInv, EveryProcessInOnePlace, OnePlaceOr, SchedInv, SameGone
<1> QED BY <1>1, <1>2, <1>4, <1>6 DEF PlaceInv, IpcTypeOK, SchedInv

(* Locking the table does neither,                                         *)
LEMMA LockStep ==
  ASSUME PlaceInv, mutex_lock(Table)
  PROVE  PlaceInv' /\ SameGone /\ Started' = Started
<1>1. /\ curr_task # Idle /\ UNCHANGED << count, sem_waiters >>
      /\ Table \in Mutex /\ curr_task \in Task
  BY TheTable, RunningIsActive DEF mutex_lock, semVars
<1>2. CASE /\ UNCHANGED << lock_waiters, schedVars >>
           /\ \/ /\ locked_count' = [locked_count EXCEPT ![Table] = 1]
                 /\ owner' = [owner EXCEPT ![Table] = curr_task]
              \/ /\ locked_count[Table] \in 1..(MaxDepth - 1)
                 /\ locked_count' = [locked_count EXCEPT ![Table] = @ + 1]
                 /\ UNCHANGED owner
  <2>1. UNCHANGED << ready_list, sleep_list, curr_task, state, slice_ticks, sleep_ticks >>
    BY <1>2 DEF schedVars
  <2>2. /\ SchedInv' /\ SameGone /\ Started' = Started /\ Active' = Active
        /\ Waiting(Table)' = Waiting(Table)
    BY <1>2, <2>1 DEF PlaceInv, SchedInv, SchedTypeOK, ListsApart, CurrIsHead, SleepersCount,
                      SameGone, WaitingForChild, Dead, Started, Active, Sleeping, Waiting
  <2>3. /\ locked_count \in [Mutex -> 0..MaxDepth] /\ owner \in [Mutex -> Task \cup {NoTask}]
        /\ MaxDepth \in Nat \ {0}
    BY IpcAssumption DEF IpcAssumption, PlaceInv, IpcTypeOK
  <2>5. owner' \in [Mutex -> Task \cup {NoTask}]
    BY <1>1, <1>2, <2>3
  <2>6. locked_count' \in [Mutex -> 0..MaxDepth]
    <3>1. PICK n \in 0..MaxDepth : n = locked_count[Table]
      BY <1>1, <2>3
    <3>2. 0 \in 0..MaxDepth /\ 1 \in 0..MaxDepth
      BY <2>3
    <3>3. n \in 1..(MaxDepth - 1) => n + 1 \in 0..MaxDepth
      BY <1>2, <2>3, <3>1
    <3> QED BY <1>1, <1>2, <2>3, <3>1, <3>2, <3>3
  <2>4. EveryProcessInOnePlace'
    BY <1>2, <2>2 DEF PlaceInv, EveryProcessInOnePlace, OnePlaceOr, SchedInv, SameGone
  <2> QED BY <1>1, <1>2, <2>2, <2>4, <2>5, <2>6 DEF PlaceInv, IpcTypeOK, SchedInv
<1>3. CASE /\ lock_waiters' = [lock_waiters EXCEPT ![Table] = Append(@, curr_task)]
           /\ BlockCaller
           /\ UNCHANGED << locked_count, owner >>
  <2>1. SchedInv' /\ Active' = Active \ {curr_task} /\ Started' = Started
    BY <1>1, <1>3, BlockStep DEF PlaceInv
  <2>2. SameGone
    BY <1>1, <1>3, <2>1, BlockQuiet, QuietGone DEF PlaceInv, EveryProcessInOnePlace, OnePlaceOr, Gone
  <2>3. /\ lock_waiters \in [Mutex -> Seq(Task)] /\ lock_waiters[Table] \in Seq(Task)
        /\ curr_task \notin ToSet(lock_waiters[Table]) /\ NoDuplicate(lock_waiters[Table])
    BY <1>1, RunningIsActive DEF PlaceInv, IpcTypeOK, EveryProcessInOnePlace, Waiting
  <2>4. lock_waiters'[Table] = Append(lock_waiters[Table], curr_task)
    BY <1>1, <1>3, <2>3
  <2>5. /\ lock_waiters'[Table] \in Seq(Task) /\ NoDuplicate(lock_waiters'[Table])
        /\ Waiting(Table)' = Waiting(Table) \cup {curr_task}
    BY <1>1, <2>3, <2>4, InsertLast DEF Waiting
  <2>6. lock_waiters' \in [Mutex -> Seq(Task)]
    BY <1>3, <2>3, <2>4, <2>5
  <2>7. EveryProcessInOnePlace'
    BY <1>1, <2>1, <2>2, <2>5, RunningIsActive
       DEF PlaceInv, EveryProcessInOnePlace, OnePlaceOr, SchedInv, SameGone, Gone
  <2> QED BY <1>1, <1>3, <2>1, <2>2, <2>6, <2>7 DEF PlaceInv, IpcTypeOK, SchedInv
<1> QED BY <1>2, <1>3 DEF mutex_lock

(* nor does unlocking it,                                                  *)
LEMMA UnlockStep ==
  ASSUME PlaceInv, mutex_unlock(Table)
  PROVE  PlaceInv' /\ SameGone /\ Started' = Started
<1>1. /\ curr_task # Idle /\ UNCHANGED << count, sem_waiters >>
      /\ Table \in Mutex /\ curr_task \in Task
  BY TheTable, RunningIsActive DEF mutex_unlock, semVars
<1>2. CASE /\ UNCHANGED << lock_waiters, schedVars >>
           /\ \/ /\ locked_count[Table] > 1
                 /\ locked_count' = [locked_count EXCEPT ![Table] = @ - 1]
                 /\ UNCHANGED owner
              \/ /\ locked_count' = [locked_count EXCEPT ![Table] = 0]
                 /\ owner' = [owner EXCEPT ![Table] = NoTask]
  <2>1. UNCHANGED << ready_list, sleep_list, curr_task, state, slice_ticks, sleep_ticks >>
    BY <1>2 DEF schedVars
  <2>2. /\ SchedInv' /\ SameGone /\ Started' = Started /\ Active' = Active
        /\ Waiting(Table)' = Waiting(Table)
    BY <1>2, <2>1 DEF PlaceInv, SchedInv, SchedTypeOK, ListsApart, CurrIsHead, SleepersCount,
                      SameGone, WaitingForChild, Dead, Started, Active, Sleeping, Waiting
  <2>3. /\ locked_count \in [Mutex -> 0..MaxDepth] /\ owner \in [Mutex -> Task \cup {NoTask}]
        /\ MaxDepth \in Nat \ {0}
    BY IpcAssumption DEF IpcAssumption, PlaceInv, IpcTypeOK
  <2>5. owner' \in [Mutex -> Task \cup {NoTask}]
    BY <1>1, <1>2, <2>3
  <2>6. locked_count' \in [Mutex -> 0..MaxDepth]
    <3>1. PICK n \in 0..MaxDepth : n = locked_count[Table]
      BY <1>1, <2>3
    <3>2. 0 \in 0..MaxDepth /\ 1 \in 0..MaxDepth
      BY <2>3
    <3>3. n > 1 => n - 1 \in 0..MaxDepth
      BY <1>2, <2>3, <3>1
    <3> QED BY <1>1, <1>2, <2>3, <3>1, <3>2, <3>3
  <2>4. EveryProcessInOnePlace'
    BY <1>2, <2>2 DEF PlaceInv, EveryProcessInOnePlace, OnePlaceOr, SchedInv, SameGone
  <2> QED BY <1>1, <1>2, <2>2, <2>4, <2>5, <2>6 DEF PlaceInv, IpcTypeOK, SchedInv
<1>3. CASE lock_waiters[Table] # <<>> /\ HandOver(Table)
  <2> DEFINE q == lock_waiters[Table]
             h == Head(q)
  <2>1. /\ owner' = [owner EXCEPT ![Table] = h]
        /\ lock_waiters' = [lock_waiters EXCEPT ![Table] = Tail(@)]
        /\ Unblock(h) /\ UNCHANGED locked_count
    BY <1>3 DEF HandOver
  <2>2. q \in Seq(Task) /\ NoDuplicate(q) /\ lock_waiters \in [Mutex -> Seq(Task)]
    BY <1>1 DEF PlaceInv, IpcTypeOK, EveryProcessInOnePlace
  <2>3. /\ h \in Task /\ h \in Waiting(Table) /\ Tail(q) \in Seq(Task)
        /\ ToSet(Tail(q)) = Waiting(Table) \ {h} /\ NoDuplicate(Tail(q))
    BY <1>3, <2>2, RemoveHead DEF Waiting
  <2>4. lock_waiters'[Table] = Tail(q) /\ lock_waiters' \in [Mutex -> Seq(Task)]
    BY <1>1, <2>1, <2>2, <2>3
  <2>5. Waiting(Table)' = Waiting(Table) \ {h} /\ NoDuplicate(lock_waiters'[Table])
    BY <2>3, <2>4 DEF Waiting
  <2>6. h \in Started /\ h \notin Active /\ h \notin Gone
    BY <2>3 DEF PlaceInv, EveryProcessInOnePlace, OnePlaceOr, Gone
  <2> HIDE DEF h, q
  <2>7. SchedInv' /\ Active' = Active \cup {h} /\ Started' = Started
    BY <2>1, <2>6, UnblockStep DEF PlaceInv
  <2>8. SameGone
    BY <2>1, <2>3, <2>6, <2>7, UnblockQuiet, QuietGone
       DEF PlaceInv, EveryProcessInOnePlace, OnePlaceOr, Gone
  <2>9. owner' \in [Mutex -> Task \cup {NoTask}]
    BY <2>1, <2>3 DEF PlaceInv, IpcTypeOK
  <2>10. EveryProcessInOnePlace'
    BY <2>3, <2>5, <2>6, <2>7, <2>8
       DEF PlaceInv, EveryProcessInOnePlace, OnePlaceOr, SchedInv, SameGone, Gone
  <2> QED BY <1>1, <2>1, <2>4, <2>7, <2>8, <2>9, <2>10 DEF PlaceInv, IpcTypeOK, SchedInv
<1> QED BY <1>2, <1>3 DEF mutex_unlock
------------------------------------------------------------------------------
(* nor a step outside the scheduler and the locks.                         *)
LEMMA IdleStep ==
  ASSUME PlaceInv, UNCHANGED ipcVars
  PROVE  PlaceInv' /\ SameGone /\ Started' = Started
<1>1. /\ UNCHANGED << ready_list, sleep_list, curr_task, state, slice_ticks, sleep_ticks >>
      /\ UNCHANGED << locked_count, owner, lock_waiters, count, sem_waiters >>
  BY DEF ipcVars, schedVars, mutexVars, semVars
<1>2. /\ SchedInv' /\ SameGone /\ Started' = Started /\ Active' = Active
      /\ Waiting(Table)' = Waiting(Table)
  BY <1>1 DEF PlaceInv, SchedInv, SchedTypeOK, ListsApart, CurrIsHead, SleepersCount,
              SameGone, WaitingForChild, Dead, Started, Active, Sleeping, Waiting
<1>3. EveryProcessInOnePlace'
  BY <1>1, <1>2 DEF PlaceInv, EveryProcessInOnePlace, OnePlaceOr, SchedInv, SameGone
<1> QED BY <1>1, <1>2, <1>3 DEF PlaceInv, IpcTypeOK, SchedInv

(* A dispatch that makes no task of another list ready, and that lists     *)
(* everybody who neither sleeps, nor is queued for the table, nor is gone. *)
LEMMA DispatchStep ==
  ASSUME PlaceInv, NEW ready \in Seq(Task), NEW states \in [AllTasks -> TaskState],
         task_dispatch(ready, states),
         UNCHANGED << sleep_list, slice_ticks, sleep_ticks, mutexVars, semVars >>,
         NoDuplicate(ready),
         ToSet(ready) \cap (Sleeping \cup Waiting(Table)) = {},
         \A u \in ToSet(ready) : states[u] \notin {"created", "waiting", "zombie"},
         \A u \in Sleeping \cup Waiting(Table) : states[u] = state[u],
         \A u \in Task : states[u] # "created" <=> u \in Started,
         \A u \in Started \ (ToSet(ready) \cup Sleeping \cup Waiting(Table)) :
           states[u] \in {"waiting", "zombie"}
  PROVE  /\ PlaceInv' /\ Started' = Started
         /\ Dead' = { u \in Task : states[u] = "zombie" }
<1>1. /\ UNCHANGED << locked_count, owner, lock_waiters, count, sem_waiters >>
      /\ Sleeping' = Sleeping /\ Waiting(Table)' = Waiting(Table)
      /\ SchedTypeOK /\ ToSet(ready) \subseteq Task
      /\ Sleeping \subseteq Task /\ Waiting(Table) \subseteq Task
  <2>1. sleep_list \in Seq(Task) /\ lock_waiters[Table] \in Seq(Task)
    BY TheTable DEF PlaceInv, IpcTypeOK, SchedInv, SchedTypeOK
  <2>2. \A q \in Seq(Task) : ToSet(q) \subseteq Task
    BY DEF ToSet
  <2> QED BY <2>1, <2>2 DEF mutexVars, semVars, Sleeping, Waiting, PlaceInv, SchedInv
<1>2. \A u \in ToSet(ready) : states[u] # "created"
  OBVIOUS
<1>3. /\ ready_list' = ready
      /\ curr_task' \in AllTasks
      /\ state' \in [AllTasks -> TaskState]
      /\ CurrIsHead'
      /\ \A u \in Task : u \notin ToSet(ready) => state'[u] = states[u]
      /\ Started' = { u \in Task : states[u] # "created" }
  BY <1>1, <1>2, Dispatch
<1>4. \A u \in Task : state'[u] = states[u] \/ (u \in ToSet(ready) /\ state'[u] = "running")
  BY DispatchStates
<1>5. Started' = Started /\ Active' = ToSet(ready) \cup Sleeping
  BY <1>1, <1>3 DEF Started, Active
<1>6. SchedTypeOK'
  BY <1>1, <1>3 DEF SchedTypeOK
<1>7. ToSet(ready) \subseteq Started /\ Sleeping \subseteq Started
  BY <1>1, <1>2 DEF PlaceInv, SchedInv, ListsApart, Active
<1>8. ListsApart'
  BY <1>1, <1>3, <1>5, <1>7 DEF PlaceInv, SchedInv, ListsApart
<1>9. SleepersCount'
  BY <1>1, <1>3 DEF PlaceInv, SchedInv, SleepersCount
<1>10. SchedInv'
  BY <1>3, <1>6, <1>8, <1>9 DEF SchedInv
<1>11. /\ \A u \in ToSet(ready) : state'[u] \notin {"waiting", "zombie"}
       /\ \A u \in Task : u \in Dead' <=> states[u] = "zombie"
       /\ \A u \in Task : u \in WaitingForChild' <=> states[u] = "waiting"
  BY <1>1, <1>3, <1>4 DEF Dead, WaitingForChild
<1>12. \A u \in Sleeping \cup Waiting(Table) : u \notin WaitingForChild' \cup Dead'
  BY <1>1, <1>11 DEF PlaceInv, EveryProcessInOnePlace, OnePlaceOr, Active, WaitingForChild, Dead
<1>13. WaitingForChild' \cup Dead' \subseteq Started
  BY <1>11 DEF Dead, WaitingForChild
<1>14. ToSet(ready) \cap (WaitingForChild' \cup Dead') = {}
  BY <1>1, <1>11
<1>15. Waiting(Table) \subseteq Started /\ Waiting(Table) \cap Sleeping = {}
  BY DEF PlaceInv, EveryProcessInOnePlace, OnePlaceOr, Active
<1>16. Started \subseteq ToSet(ready) \cup Sleeping \cup Waiting(Table) \cup WaitingForChild' \cup Dead'
  BY <1>11 DEF Started
<1>17. /\ Active' \cap (Waiting(Table)' \cup WaitingForChild' \cup Dead') = {}
       /\ Active' \cup (Waiting(Table)' \cup WaitingForChild' \cup Dead') = Started'
       /\ Waiting(Table)' \cap (WaitingForChild' \cup Dead') = {}
  BY <1>1, <1>5, <1>7, <1>12, <1>13, <1>14, <1>15, <1>16
<1>18. EveryProcessInOnePlace'
  BY <1>1, <1>8, <1>17 DEF PlaceInv, EveryProcessInOnePlace, OnePlaceOr
<1>19. Dead' = { u \in Task : states[u] = "zombie" }
  BY <1>11 DEF Dead
<1> QED BY <1>1, <1>5, <1>10, <1>18, <1>19 DEF PlaceInv, IpcTypeOK, SchedInv

(* The parent goes to sleep in sys_wait. *)
LEMMA WaitSleepStep ==
  ASSUME PlaceInv, NEW t \in Task, wait_sleep(t)
  PROVE  PlaceInv' /\ Started' = Started /\ Dead' = Dead
<1> DEFINE ready == Tail(ready_list)
           states == [state EXCEPT ![t] = "waiting"]
<1>1. curr_task = t /\ t # Idle
  BY SchedAssumption DEF SchedAssumption, wait_sleep, Goes
<1>2. /\ task_dispatch(ready, states)
      /\ UNCHANGED << sleep_list, slice_ticks, sleep_ticks, mutexVars, semVars >>
      /\ ready \in Seq(Task) /\ NoDuplicate(ready)
      /\ ToSet(ready) = ToSet(ready_list) \ {t}
      /\ t \in ToSet(ready_list)
  BY <1>1, BlockCurrent DEF PlaceInv, wait_sleep
<1>3. /\ t \in Active /\ t \in Started /\ t \notin Waiting(Table) /\ t \notin Gone
  BY <1>1, RunningIsActive
<1>4. /\ states \in [AllTasks -> TaskState]
      /\ \A u \in Task : states[u] = IF u = t THEN "waiting" ELSE state[u]
  BY DEF PlaceInv, SchedInv, SchedTypeOK, AllTasks, TaskState
<1> HIDE DEF ready, states
<1>5. ToSet(ready) \cap (Sleeping \cup Waiting(Table)) = {} /\ t \notin Sleeping
  BY <1>2 DEF PlaceInv, EveryProcessInOnePlace, OnePlaceOr, ListsApart, Active
<1>6. \A u \in Task : states[u] # "created" <=> u \in Started
  BY <1>3, <1>4 DEF Started
<1>7. /\ ToSet(ready) \subseteq Started
      /\ Sleeping \cup Waiting(Table) \subseteq Started
      /\ Started \subseteq Task
  BY <1>2 DEF PlaceInv, EveryProcessInOnePlace, OnePlaceOr, ListsApart, Active, Started
<1>8. \A u \in Sleeping \cup Waiting(Table) : states[u] = state[u]
  BY <1>3, <1>4, <1>5, <1>7
<1>9. \A u \in Started \ (ToSet(ready) \cup Sleeping \cup Waiting(Table)) :
        states[u] \in {"waiting", "zombie"}
  BY <1>2, <1>4 DEF PlaceInv, EveryProcessInOnePlace, OnePlaceOr, Active, WaitingForChild, Dead, Started
<1>10. \A u \in ToSet(ready) : states[u] \notin {"created", "waiting", "zombie"}
  BY <1>2, <1>4, <1>7
     DEF PlaceInv, EveryProcessInOnePlace, OnePlaceOr, Active, WaitingForChild, Dead, Started
<1>11. /\ PlaceInv' /\ Started' = Started
       /\ Dead' = { u \in Task : states[u] = "zombie" }
  BY <1>2, <1>4, <1>5, <1>6, <1>8, <1>9, <1>10, DispatchStep
<1>12. Dead' = Dead
  BY <1>3, <1>4, <1>11 DEF Dead, Gone
<1> QED BY <1>11, <1>12

(***************************************************************************)
(* The end of sys_exit.  Whom it wakes waits for a child; it wakes the     *)
(* first task twice only if the first task is the parent, and then not.    *)
(***************************************************************************)
Woken(t) == (IF WakesFirst(t) THEN <<First>> ELSE <<>>)
              \o (IF WakesParent(t) THEN <<parent[t]>> ELSE <<>>)

(* Who is woken by an exit waits for a child, and is woken once.           *)
LEMMA WokenOnce ==
  ASSUME PlaceInv, NEW t \in Task, parent[t] \in Task
  PROVE  /\ Woken(t) \in Seq(Task) /\ NoDuplicate(Woken(t))
         /\ ToSet(Woken(t)) \subseteq WaitingForChild
<1> DEFINE a == IF WakesFirst(t) THEN <<First>> ELSE <<>>
           b == IF WakesParent(t) THEN <<parent[t]>> ELSE <<>>
<1>1. First \in Task
  BY TheTable
<1>2. /\ a \in Seq(Task) /\ NoDuplicate(a)
      /\ ToSet(a) = IF WakesFirst(t) THEN {First} ELSE {}
  BY <1>1 DEF NoDuplicate, ToSet
<1>3. /\ b \in Seq(Task) /\ NoDuplicate(b)
      /\ ToSet(b) = IF WakesParent(t) THEN {parent[t]} ELSE {}
  BY DEF NoDuplicate, ToSet
<1>4. Woken(t) = a \o b
  BY DEF Woken
<1> HIDE DEF a, b
<1>5. ToSet(a) \cap ToSet(b) = {}
  BY <1>2, <1>3 DEF WakesFirst
<1>6. ToSet(a) \cup ToSet(b) \subseteq WaitingForChild
  BY <1>1, <1>2, <1>3 DEF WakesFirst, WakesParent, WaitingForChild
<1> QED BY <1>2, <1>3, <1>4, <1>5, <1>6, Joined

(* The last step of an exit adds the caller to the dead, and no other.     *)
LEMMA ExitFinalStep ==
  ASSUME PlaceInv, NEW t \in Task, parent[t] \in Task, exit_final(t)
  PROVE  PlaceInv' /\ Started' = Started /\ Dead' = Dead \cup {t}
<1> DEFINE woken == Woken(t)
           all   == ready_list \o woken
           ready == Tail(all)
           states == [u \in AllTasks |-> IF u = t THEN "zombie"
                                         ELSE IF u \in ToSet(woken) THEN "ready" ELSE state[u]]
<1>1. curr_task = t /\ t # Idle
  BY SchedAssumption DEF SchedAssumption, exit_final, Goes
<1>2. /\ task_dispatch(task_set_block(all, t), states)
      /\ UNCHANGED << sleep_list, slice_ticks, sleep_ticks, mutexVars, semVars >>
  BY DEF exit_final, Woken
<1>3. woken \in Seq(Task) /\ NoDuplicate(woken) /\ ToSet(woken) \subseteq WaitingForChild
  BY WokenOnce
<1>4. /\ t \in Active /\ t \in Started /\ t \notin Waiting(Table) /\ t \notin Gone
      /\ t \in ToSet(ready_list) /\ t = Head(ready_list) /\ ready_list # <<>>
  BY <1>1, RunningIsActive, BlockCurrent DEF PlaceInv
<1>5. /\ ready_list \in Seq(Task) /\ NoDuplicate(ready_list)
      /\ state \in [AllTasks -> TaskState] /\ ToSet(ready_list) \cap WaitingForChild = {}
  BY DEF PlaceInv, SchedInv, SchedTypeOK, EveryProcessInOnePlace, OnePlaceOr, ListsApart, Active
<1> HIDE DEF woken
<1>6. /\ all \in Seq(Task) /\ NoDuplicate(all)
      /\ ToSet(all) = ToSet(ready_list) \cup ToSet(woken)
  BY <1>3, <1>5, Joined
<1>7. all # <<>> /\ Head(all) = t
  BY <1>3, <1>4, <1>5
<1> HIDE DEF all
<1>8. /\ task_set_block(all, t) = ready
      /\ ready \in Seq(Task) /\ NoDuplicate(ready)
      /\ ToSet(ready) = ToSet(all) \ {t}
  BY <1>1, <1>6, <1>7, RemoveOfHead, RemoveHead DEF task_set_block
<1>9. /\ states \in [AllTasks -> TaskState]
      /\ \A u \in Task : states[u] = IF u = t THEN "zombie"
                                     ELSE IF u \in ToSet(woken) THEN "ready" ELSE state[u]
  BY <1>5 DEF AllTasks, TaskState
<1>10. task_dispatch(ready, states)
  BY <1>2, <1>8
<1> HIDE DEF ready, states
<1>11. /\ ToSet(ready) \cap (Sleeping \cup Waiting(Table)) = {} /\ t \notin Sleeping
       /\ ToSet(woken) \cap (Sleeping \cup Waiting(Table)) = {}
  BY <1>3, <1>4, <1>6, <1>8 DEF PlaceInv, EveryProcessInOnePlace, OnePlaceOr, ListsApart, Active
<1>12. /\ ToSet(ready) \subseteq Started
       /\ Sleeping \cup Waiting(Table) \subseteq Started
       /\ Started \subseteq Task
       /\ WaitingForChild \subseteq Started
  BY <1>3, <1>6, <1>8 DEF PlaceInv, EveryProcessInOnePlace, OnePlaceOr, ListsApart, Active, Started
<1>13. \A u \in Task : states[u] # "created" <=> u \in Started
  BY <1>3, <1>4, <1>9, <1>12 DEF Started
<1>14. \A u \in Sleeping \cup Waiting(Table) : states[u] = state[u]
  BY <1>4, <1>9, <1>11, <1>12
<1>15. \A u \in Started \ (ToSet(ready) \cup Sleeping \cup Waiting(Table)) :
         states[u] \in {"waiting", "zombie"}
  BY <1>6, <1>8, <1>9
     DEF PlaceInv, EveryProcessInOnePlace, OnePlaceOr, Active, WaitingForChild, Dead, Started
<1>16. \A u \in ToSet(ready) : states[u] \notin {"created", "waiting", "zombie"}
  BY <1>6, <1>8, <1>9, <1>12
     DEF PlaceInv, EveryProcessInOnePlace, OnePlaceOr, Active, WaitingForChild, Dead, Started
<1>17. /\ PlaceInv' /\ Started' = Started
       /\ Dead' = { u \in Task : states[u] = "zombie" }
  BY <1>2, <1>8, <1>9, <1>10, <1>11, <1>13, <1>14, <1>15, <1>16, DispatchStep
<1>18. Dead' = Dead \cup {t}
  BY <1>3, <1>9, <1>17 DEF Dead, WaitingForChild
<1> QED BY <1>17, <1>18

(* A slot is cleared: of a zombie, which is then no longer anywhere, or of *)
(* a task that was never started.                                          *)
LEMMA ClearedStep ==
  ASSUME PlaceInv, NEW s \in Task, s \in Dead \/ s \notin Started, Cleared(s),
         UNCHANGED << mutexVars, semVars >>
  PROVE  /\ PlaceInv' /\ Started' = Started \ {s} /\ Dead' = Dead \ {s}
<1>1. /\ UNCHANGED << ready_list, sleep_list, curr_task, slice_ticks, sleep_ticks >>
      /\ UNCHANGED << locked_count, owner, lock_waiters, count, sem_waiters >>
      /\ state' = [state EXCEPT ![s] = "created"]
  BY DEF Cleared, mutexVars, semVars
<1>2. /\ state' \in [AllTasks -> TaskState]
      /\ \A u \in Task : state'[u] = IF u = s THEN "created" ELSE state[u]
  BY <1>1 DEF PlaceInv, SchedInv, SchedTypeOK, AllTasks, TaskState
<1>3. /\ Started' = Started \ {s} /\ Dead' = Dead \ {s}
      /\ WaitingForChild' = WaitingForChild \ {s}
  BY <1>2 DEF Started, Dead, WaitingForChild
<1>4. Active' = Active /\ Sleeping' = Sleeping /\ Waiting(Table)' = Waiting(Table)
  BY <1>1 DEF Active, Sleeping, Waiting
<1>5. s \notin Active /\ s \notin Waiting(Table)
  BY DEF PlaceInv, EveryProcessInOnePlace, OnePlaceOr
<1>6. SchedTypeOK' /\ CurrIsHead'
  BY <1>1, <1>2 DEF PlaceInv, SchedInv, SchedTypeOK, CurrIsHead
<1>7. ListsApart'
  BY <1>1, <1>3, <1>4, <1>5 DEF PlaceInv, SchedInv, ListsApart
<1>8. SleepersCount'
  BY <1>1, <1>2, <1>4, <1>5 DEF PlaceInv, SchedInv, SleepersCount, ListsApart, Active, Started
<1>9. SchedInv'
  BY <1>6, <1>7, <1>8 DEF SchedInv
<1>10. EveryProcessInOnePlace'
  BY <1>1, <1>3, <1>4, <1>5, <1>7 DEF PlaceInv, EveryProcessInOnePlace, OnePlaceOr
<1> QED BY <1>1, <1>3, <1>6, <1>9, <1>10 DEF PlaceInv, IpcTypeOK

(* task_init sets up a task that nobody has started yet. *)
LEMMA InitStep ==
  ASSUME PlaceInv, NEW t \in Task, slot[t] \in Task \ Started, task_init(t)
  PROVE  PlaceInv' /\ Started' = Started /\ Dead' = Dead
<1> DEFINE s == slot[t]
<1>1. /\ UNCHANGED << ready_list, sleep_list, curr_task >>
      /\ UNCHANGED << locked_count, owner, lock_waiters, count, sem_waiters >>
      /\ state' = [state EXCEPT ![s] = "created"]
      /\ slice_ticks' = [slice_ticks EXCEPT ![s] = TimeSlice]
      /\ sleep_ticks' = [sleep_ticks EXCEPT ![s] = 0]
  BY DEF task_init, mutexVars, semVars
<1>2. s \in Task /\ s \in AllTasks /\ state[s] = "created" /\ s \notin Active
  BY DEF Started, AllTasks, PlaceInv, EveryProcessInOnePlace, OnePlaceOr
<1> HIDE DEF s
<1>3. /\ state \in [AllTasks -> TaskState]
      /\ slice_ticks \in [AllTasks -> 1..TimeSlice]
      /\ sleep_ticks \in [AllTasks -> 0..(Word - 1)]
      /\ TimeSlice \in 1..TimeSlice /\ 0 \in 0..(Word - 1)
  BY SchedAssumption DEF SchedAssumption, PlaceInv, SchedInv, SchedTypeOK
<1>4. /\ state' = state /\ slice_ticks' \in [AllTasks -> 1..TimeSlice]
      /\ sleep_ticks' \in [AllTasks -> 0..(Word - 1)]
      /\ \A u \in AllTasks : u # s => sleep_ticks'[u] = sleep_ticks[u]
  BY <1>1, <1>2, <1>3
<1>5. /\ Started' = Started /\ Dead' = Dead /\ WaitingForChild' = WaitingForChild
      /\ Active' = Active /\ Sleeping' = Sleeping /\ Waiting(Table)' = Waiting(Table)
  BY <1>1, <1>4 DEF Started, Dead, WaitingForChild, Active, Sleeping, Waiting
<1>6. SchedTypeOK' /\ CurrIsHead' /\ ListsApart'
  BY <1>1, <1>4, <1>5 DEF PlaceInv, SchedInv, SchedTypeOK, CurrIsHead, ListsApart
<1>7. SleepersCount'
  BY <1>2, <1>4, <1>5 DEF PlaceInv, SchedInv, SleepersCount, ListsApart, Active, Started, AllTasks
<1>8. EveryProcessInOnePlace'
  BY <1>1, <1>5, <1>6 DEF PlaceInv, EveryProcessInOnePlace, OnePlaceOr
<1> QED BY <1>1, <1>5, <1>6, <1>7, <1>8 DEF PlaceInv, IpcTypeOK, SchedInv

(* The child is started. *)
LEMMA ChildStep ==
  ASSUME PlaceInv, NEW s \in Task, task_start(s), UNCHANGED << mutexVars, semVars >>
  PROVE  PlaceInv' /\ Started' = Started \cup {s} /\ Dead' = Dead
<1>1. UNCHANGED << locked_count, owner, lock_waiters, count, sem_waiters >> /\ s \notin Started
  BY DEF task_start, mutexVars, semVars, Started
<1>2. SchedInv' /\ Active' = Active \cup {s} /\ Started' = Started \cup {s}
  BY StartStep DEF PlaceInv
<1>3. /\ s \notin Active \cup Waiting(Table) \cup Gone
      /\ Waiting(Table)' = Waiting(Table)
  BY <1>1 DEF PlaceInv, EveryProcessInOnePlace, OnePlaceOr, Gone, Waiting
<1>4. Active' \cap Gone = {}
  BY <1>2, <1>3 DEF PlaceInv, EveryProcessInOnePlace, OnePlaceOr, Gone
<1>5. SameGone
  BY <1>4, StartQuiet, QuietGone DEF PlaceInv
<1>6. EveryProcessInOnePlace'
  BY <1>1, <1>2, <1>3, <1>4, <1>5
     DEF PlaceInv, EveryProcessInOnePlace, OnePlaceOr, SchedInv, SameGone, Gone
<1> QED BY <1>1, <1>2, <1>5, <1>6 DEF PlaceInv, IpcTypeOK, SchedInv, SameGone
------------------------------------------------------------------------------
(***************************************************************************)
(* The invariant of the table.                                             *)
(***************************************************************************)
(* Who is started has a name, except for the first task, which never       *)
(* exits; and whose parent is has to live.                                 *)
People ==
  /\ Started \subseteq named \cup {First}
  /\ First \in Started \ Dead
  /\ \A s \in Slot \cap Started : parent[s] \in Started \ Dead

(* The slots that have a GDT entry: a slot gets its entry a step before    *)
(* its name, and the others have 0.                                        *)
Equipped == named \cup { slot[t] : t \in { u \in Task : pc[u] = "fork_fields" } }

EntriesApart ==
  /\ \A s \in Equipped : tss_sel[s] \in gdt
  /\ \A s, r \in Equipped : r # s => tss_sel[r] # tss_sel[s]
  /\ \A s \in Slot \ Equipped : tss_sel[s] = 0

(* What the call of a task has in hand: sys_fork a slot without a name,    *)
(* and an entry; and sys_exit leaves no child behind the slot it has       *)
(* reached.                                                                *)
Making == { "fork_sel", "fork_tss", "fork_fields", "fork_undo", "fork_free_lock", "fork_free" }

Forking(t) ==
  /\ pc[t] \in ForkPc => t \in Started \ Dead
  /\ pc[t] \in Making => slot[t] \in Slot \ named
  /\ pc[t] = "fork_unlock" => slot[t] \in (Slot \ named) \cup {NoSlot}
  /\ pc[t] = "fork_start" => slot[t] \in named \ Started
  /\ pc[t] = "fork_tss" => sel[t] \in 1..GdtSize

Exiting(t) ==
  /\ pc[t] \in ExitPc => t # First
  /\ pc[t] \in {"exit_adopt", "exit_look"} => slot[t] \in Slot
  /\ \A s \in Slot : parent[s] = t =>
       /\ pc[t] = "exit_adopt" => slot[t] <= s
       /\ pc[t] = "exit_look" => slot[t] < s
       /\ pc[t] \notin {"exit_unlock", "exit_final"}

TableTypeOK ==
  /\ named \subseteq Slot
  /\ parent \in [Task -> Task \cup {NoTask}]
  /\ tss_sel \in [Task -> 0..GdtSize]
  /\ gdt \subseteq 1..GdtSize
  /\ pc \in [Task -> Pc]
  /\ slot \in [Task -> 0..TaskNr]
  /\ sel \in [Task -> 0..GdtSize]
  /\ move_child \in [Task -> BOOLEAN]

Calls == \A t \in Task : Forking(t) /\ Exiting(t)

ProcInv == PlaceInv /\ TableTypeOK /\ People /\ Calls

(* The entry that a fork has found is free until that fork takes it.       *)
Found == \A t \in Task : pc[t] = "fork_tss" => sel[t] \notin gdt

EntryInv == EntriesApart /\ Found

(***************************************************************************)
(* ProcInv is kept by the steps from states in which no two forks have the *)
(* same slot; EntryInv, what the entries need beyond that, from those in   *)
(* which they have not the same entry either.                              *)
(***************************************************************************)
Kept == ProcInv' /\ (EntryInv /\ OwnSel => EntryInv')
------------------------------------------------------------------------------
(***************************************************************************)
(* A step of the running task that takes nobody's name or entry, starts    *)
(* nobody, and gives children to the first task only: most of the steps.   *)
(***************************************************************************)
LEMMA TableNumbers == Slot = 1..TaskNr /\ TaskNr \in Nat \ {0} /\ GdtSize \in Nat
BY ProcessAssumption DEF ProcessAssumption, Slot

(***************************************************************************)
(* A step that changes no entry of the table but the caller's own place in *)
(* its call.                                                               *)
(***************************************************************************)
LEMMA Onward ==
  ASSUME ProcInv, NEW t \in Task, NEW to \in Pc,
         pc' = [pc EXCEPT ![t] = to],
         "fork_fields" \notin {pc[t], to},
         to = "fork_tss" => sel'[t] \notin gdt,
         UNCHANGED named,
         gdt' \subseteq 1..GdtSize, tss_sel' \in [Task -> 0..GdtSize],
         EntryInv => UNCHANGED << tss_sel, gdt >>,
         slot' \in [Task -> 0..TaskNr], sel' \in [Task -> 0..GdtSize],
         move_child' \in [Task -> BOOLEAN],
         \A u \in Task : u # t => slot'[u] = slot[u] /\ sel'[u] = sel[u],
         parent' \in [Task -> Task \cup {NoTask}],
         \A s \in Slot : \/ parent'[s] \in {parent[s], First}
                         \/ s \notin Started /\ parent'[s] = NoTask,
         PlaceInv', Started' = Started,
         Dead' = Dead \/ (pc[t] = "exit_final" /\ Dead' = Dead \cup {t}),
         Forking(t)', Exiting(t)'
  PROVE  Kept
<1>1. pc \in [Task -> Pc] /\ pc' \in [Task -> Pc]
      /\ \A u \in Task : pc'[u] = IF u = t THEN to ELSE pc[u]
  BY DEF ProcInv, TableTypeOK
<1>2. TableTypeOK'
  BY <1>1 DEF ProcInv, TableTypeOK
<1>3. People'
  <2>1. First \in Started' \ Dead' /\ Started' \subseteq named' \cup {First}
    BY DEF ProcInv, People, Calls, Exiting, ExitPc
  <2>2. ASSUME NEW s \in Slot \cap Started PROVE parent'[s] \in Started \ Dead'
    <3>1. parent[s] \in Started \ Dead /\ parent'[s] \in {parent[s], First}
      BY DEF ProcInv, People
    <3>2. pc[t] = "exit_final" => parent[s] # t
      BY DEF ProcInv, Calls, Exiting
    <3> QED BY <2>1, <3>1, <3>2
  <2> QED BY <2>1, <2>2 DEF People
<1>4. Equipped' = Equipped
  BY <1>1 DEF Equipped
<1>5. ASSUME EntryInv PROVE EntryInv'
  <2>1. EntriesApart'
    BY <1>4, <1>5 DEF EntryInv, EntriesApart
  <2>2. Found'
    BY <1>1, <1>5 DEF EntryInv, Found
  <2> QED BY <2>1, <2>2 DEF EntryInv
<1>6. ASSUME NEW u \in Task, u # t PROVE Forking(u)' /\ Exiting(u)'
  <2>1. pc'[u] = pc[u] /\ slot'[u] = slot[u] /\ sel'[u] = sel[u] /\ Forking(u) /\ Exiting(u)
    BY <1>1, <1>6 DEF ProcInv, Calls
  <2>2. Forking(u)'
    BY <1>6, <2>1 DEF Forking
  <2>3. ASSUME u # First PROVE \A s \in Slot : parent'[s] = u => parent[s] = u
    BY <2>3, IpcAssumption DEF IpcAssumption, AllTasks
  <2>4. Exiting(u)'
    BY <2>1, <2>3 DEF Exiting, ExitPc
  <2> QED BY <2>2, <2>4
<1> QED BY <1>2, <1>3, <1>5, <1>6 DEF Kept, ProcInv, Calls

(* The runner of a call: a task that is started and not gone.              *)
LEMMA Runner ==
  ASSUME ProcInv, NEW t \in Task, curr_task = t
  PROVE  /\ t # Idle /\ t # NoTask /\ t \in Started \ Dead
         /\ Forking(t) /\ Exiting(t) /\ t \in Slot \cup {First}
BY RunningIsActive, TheTable, SchedAssumption, IpcAssumption
   DEF SchedAssumption, IpcAssumption, AllTasks, ProcInv, Calls, Gone
------------------------------------------------------------------------------
(* sys_fork, step by step. *)
LEMMA ForkKeeps ==
  ASSUME ProcInv, NEW t \in Task, fork(t)
  PROVE  Kept
<1>1. /\ curr_task = t /\ pc[t] = "user" /\ mutex_lock(Table)
      /\ pc' = [pc EXCEPT ![t] = "fork_scan"]
      /\ UNCHANGED << named, parent, tss_sel, gdt, slot, sel, move_child >>
  BY DEF fork, LockTable, Goes
<1>2. PlaceInv' /\ Started' = Started /\ Dead' = Dead
  BY <1>1, LockStep DEF ProcInv, SameGone
<1>3. pc'[t] = "fork_scan"
  BY <1>1 DEF ProcInv, TableTypeOK
<1>4. Forking(t)' /\ Exiting(t)'
  BY <1>1, <1>2, <1>3, Runner DEF Forking, Exiting, Making, ExitPc
<1>5. "fork_scan" \in Pc /\ "fork_fields" \notin {pc[t], "fork_scan"}
  BY <1>1 DEF Pc, ForkPc
<1> QED BY <1>1, <1>2, <1>4, <1>5, Onward DEF ProcInv, TableTypeOK

(* alloc_task finds a slot that has no name.                               *)
LEMMA ScanKeeps ==
  ASSUME ProcInv, NEW t \in Task, alloc_task_scan(t)
  PROVE  Kept
<1>1. /\ pc[t] = "fork_scan" /\ UNCHANGED ipcVars
      /\ pc' = [pc EXCEPT ![t] = "fork_unlock"]
      /\ UNCHANGED << named, parent, tss_sel, gdt, sel, move_child >>
  BY DEF alloc_task_scan, Goes
<1>2. PICK s \in (Slot \ named) \cup {NoSlot} : slot' = [slot EXCEPT ![t] = s]
  BY DEF alloc_task_scan
<1>3. s \in 0..TaskNr
  BY TableNumbers DEF NoSlot
<1>4. /\ slot' \in [Task -> 0..TaskNr] /\ slot'[t] = s
      /\ \A u \in Task : u # t => slot'[u] = slot[u]
  BY <1>2, <1>3 DEF ProcInv, TableTypeOK
<1>5. PlaceInv' /\ Started' = Started /\ Dead' = Dead
  BY <1>1, IdleStep DEF ProcInv, SameGone
<1>6. pc'[t] = "fork_unlock"
  BY <1>1 DEF ProcInv, TableTypeOK
<1>7. Forking(t)' /\ Exiting(t)'
  BY <1>1, <1>4, <1>5, <1>6 DEF ProcInv, Calls, Forking, Exiting, Making, ForkPc, ExitPc
<1>8. "fork_unlock" \in Pc /\ "fork_fields" \notin {pc[t], "fork_unlock"} /\ pc[t] \in ForkPc
  BY <1>1 DEF Pc, ForkPc
<1> QED BY <1>1, <1>4, <1>5, <1>7, <1>8, Onward DEF ProcInv, TableTypeOK

(* lets go of the table,                                                   *)
LEMMA AllocKeeps ==
  ASSUME ProcInv, NEW t \in Task, alloc_task_unlock(t)
  PROVE  Kept
<1> DEFINE to == IF slot[t] = NoSlot THEN "user" ELSE "fork_sel"
<1>1. /\ curr_task = t /\ pc[t] = "fork_unlock" /\ mutex_unlock(Table)
      /\ pc' = [pc EXCEPT ![t] = to]
      /\ UNCHANGED << named, parent, tss_sel, gdt, slot, sel, move_child >>
  BY DEF alloc_task_unlock, Goes
<1>2. PlaceInv' /\ Started' = Started /\ Dead' = Dead
  BY <1>1, UnlockStep DEF ProcInv, SameGone
<1>3. pc'[t] = to /\ Forking(t)
  BY <1>1 DEF ProcInv, TableTypeOK, Calls
<1>4. Forking(t)' /\ Exiting(t)'
  BY <1>1, <1>2, <1>3 DEF Forking, Exiting, Making, ForkPc, ExitPc
<1>5. to \in Pc /\ to # "fork_tss" /\ "fork_fields" \notin {pc[t], to} /\ pc[t] \in ForkPc
  BY <1>1 DEF Pc, ForkPc
<1> HIDE DEF to
<1> QED BY <1>1, <1>2, <1>4, <1>5, Onward DEF ProcInv, TableTypeOK

(* and when it takes an entry of the GDT,                                  *)
LEMMA SelKeeps ==
  ASSUME ProcInv, NEW t \in Task, gdt_alloc_desc(t)
  PROVE  Kept
<1>1. /\ pc[t] = "fork_sel" /\ UNCHANGED << ipcVars, named, parent, tss_sel, gdt, slot, move_child >>
  BY DEF gdt_alloc_desc, Goes
<1>2. PlaceInv' /\ Started' = Started /\ Dead' = Dead /\ Forking(t)
  BY <1>1, IdleStep DEF ProcInv, SameGone, Calls
<1>3. pc[t] \in ForkPc /\ pc[t] # "fork_fields"
      /\ {"fork_tss", "fork_undo"} \subseteq Pc \ {"fork_fields"}
  BY <1>1 DEF Pc, ForkPc
<1>4. CASE pc' = [pc EXCEPT ![t] = "fork_tss"]
           /\ \E n \in FreeSels : sel' = [sel EXCEPT ![t] = n]
  <2>1. PICK n \in (1..GdtSize) \ gdt : sel' = [sel EXCEPT ![t] = n]
    BY <1>4 DEF FreeSels
  <2>2. n \in 0..GdtSize
    BY TableNumbers
  <2>3. /\ sel' \in [Task -> 0..GdtSize] /\ sel'[t] = n /\ pc'[t] = "fork_tss"
        /\ \A u \in Task : u # t => sel'[u] = sel[u]
    BY <1>4, <2>1, <2>2 DEF ProcInv, TableTypeOK
  <2>4. Forking(t)' /\ Exiting(t)'
    BY <1>1, <1>2, <2>1, <2>3 DEF Forking, Exiting, Making, ForkPc, ExitPc
  <2> QED BY <1>1, <1>2, <1>3, <1>4, <2>1, <2>3, <2>4, Onward DEF ProcInv, TableTypeOK
<1>5. CASE pc' = [pc EXCEPT ![t] = "fork_undo"] /\ UNCHANGED sel
  <2>1. pc'[t] = "fork_undo"
    BY <1>5 DEF ProcInv, TableTypeOK
  <2>2. Forking(t)' /\ Exiting(t)'
    BY <1>1, <1>2, <2>1 DEF Forking, Exiting, Making, ForkPc, ExitPc
  <2> QED BY <1>1, <1>2, <1>3, <1>5, <2>2, Onward DEF ProcInv, TableTypeOK
<1> QED BY <1>4, <1>5 DEF gdt_alloc_desc, Goes

(* What a fork has in hand no other fork has.                              *)
LEMMA NobodyElses ==
  ASSUME OwnSlot, NEW t \in Task, NEW u \in Task, u # t,
         {pc[t], pc[u]} \subseteq ForkPc \ {"fork_scan"}, slot[t] \in Slot
  PROVE  slot[u] # slot[t]
<1>1. slot[t] # NoSlot
  BY TableNumbers DEF NoSlot
<1> QED BY <1>1 DEF OwnSlot, Building

(* and gives it to the slot,                                               *)
LEMMA TssKeeps ==
  ASSUME ProcInv, OwnSlot, NEW t \in Task, tss_init(t)
  PROVE  Kept
<1>1. /\ pc[t] = "fork_tss" /\ UNCHANGED << ipcVars, named, parent, slot, move_child >>
      /\ sel' = [sel EXCEPT ![t] = 0]
  BY DEF tss_init, Goes
<1>2. PlaceInv' /\ Started' = Started /\ Dead' = Dead /\ Forking(t)
  BY <1>1, IdleStep DEF ProcInv, SameGone, Calls
<1>3. /\ slot[t] \in Slot \ named /\ sel[t] \in 1..GdtSize
      /\ slot[t] \in Task /\ t \in Started \ Dead /\ pc[t] \in ForkPc \ {"fork_scan"}
  BY <1>1, <1>2, TheTable DEF Forking, Making, ForkPc
<1>4. /\ sel' \in [Task -> 0..GdtSize]
      /\ \A u \in Task : u # t => sel'[u] = sel[u]
  BY <1>1, TableNumbers DEF ProcInv, TableTypeOK
<1>5. EntryInv => sel[t] \notin gdt
  BY <1>1 DEF EntryInv, Found
<1>6. CASE /\ pc' = [pc EXCEPT ![t] = "fork_fields"]
           /\ gdt' = gdt \cup {sel[t]}
           /\ tss_sel' = [tss_sel EXCEPT ![slot[t]] = sel[t]]
  <2> DEFINE s == slot[t]
             n == sel[t]
  <2>1. /\ "fork_fields" \in Pc
        /\ pc' \in [Task -> Pc]
        /\ \A u \in Task : pc'[u] = IF u = t THEN "fork_fields" ELSE pc[u]
    BY <1>6 DEF ProcInv, TableTypeOK, Pc, ForkPc
  <2>2. /\ tss_sel' \in [Task -> 0..GdtSize]
        /\ \A u \in Task : tss_sel'[u] = IF u = s THEN n ELSE tss_sel[u]
    BY <1>3, <1>6 DEF ProcInv, TableTypeOK
  <2>3. TableTypeOK'
    BY <1>1, <1>3, <1>4, <1>6, <2>1, <2>2 DEF ProcInv, TableTypeOK
  <2>4. People'
    BY <1>1, <1>2 DEF ProcInv, People
  <2>5. ASSUME NEW u \in Task PROVE Forking(u)' /\ Exiting(u)'
    <3>1. CASE u = t
      BY <1>1, <1>2, <1>3, <2>1, <3>1 DEF Forking, Exiting, Making, ExitPc
    <3>2. CASE u # t
      BY <1>1, <1>2, <1>4, <2>1, <3>2 DEF Forking, Exiting, ProcInv, Calls
    <3> QED BY <3>1, <3>2
  <2>6. ASSUME EntryInv, OwnSel PROVE EntryInv'
    <3>1. s \notin Equipped
      BY <1>3, NobodyElses, <1>1 DEF Equipped, ForkPc
    <3>2. Equipped' = Equipped \cup {s}
      BY <1>1, <2>1 DEF Equipped
    <3>3. Equipped \subseteq Task
      BY TheTable DEF Equipped, ProcInv, TableTypeOK, Calls, Forking, Making
    <3>4. EntriesApart'
      BY <1>3, <1>5, <1>6, <2>2, <2>6, <3>1, <3>2, <3>3, TheTable DEF EntryInv, EntriesApart
    <3>5. \A u \in Task : u # t => sel[u] # n
      BY <1>3, <2>6, TableNumbers DEF OwnSel
    <3>6. Found'
      BY <1>4, <1>6, <2>1, <2>6, <3>5 DEF EntryInv, Found
    <3> QED BY <3>4, <3>6 DEF EntryInv
  <2> QED BY <1>2, <2>3, <2>4, <2>5, <2>6 DEF Kept, ProcInv, Calls
<1>7. CASE /\ pc' = [pc EXCEPT ![t] = "fork_undo"]
           /\ gdt' = gdt \ {sel[t]}
           /\ UNCHANGED tss_sel
  <2>1. gdt' \subseteq 1..GdtSize /\ (EntryInv => gdt' = gdt)
    BY <1>5, <1>7 DEF ProcInv, TableTypeOK
  <2>2. pc'[t] = "fork_undo"
    BY <1>7 DEF ProcInv, TableTypeOK
  <2>3. Forking(t)' /\ Exiting(t)'
    BY <1>1, <1>2, <1>3, <2>2 DEF Forking, Exiting, Making, ExitPc
  <2>4. "fork_undo" \in Pc /\ "fork_fields" \notin {pc[t], "fork_undo"}
    BY <1>1 DEF Pc, ForkPc
  <2> QED BY <1>1, <1>2, <1>3, <1>4, <1>7, <2>1, <2>3, <2>4, Onward DEF ProcInv, TableTypeOK
<1> QED BY <1>6, <1>7 DEF tss_init, Goes

(* and names the slot,                                                     *)
LEMMA InitKeeps ==
  ASSUME ProcInv, OwnSlot, NEW t \in Task, task_init(t)
  PROVE  Kept
<1> DEFINE s == slot[t]
<1>1. /\ pc[t] = "fork_fields" /\ pc' = [pc EXCEPT ![t] = "fork_start"]
      /\ named' = named \cup {s} /\ parent' = [parent EXCEPT ![s] = NoTask]
      /\ UNCHANGED << tss_sel, gdt, slot, sel, move_child >>
  BY DEF task_init, Goes
<1>2. /\ s \in Slot \ named /\ s \in Task /\ s \notin Started
      /\ named \subseteq Slot /\ Slot \subseteq Task /\ t \in Started \ Dead
      /\ pc[t] \in ForkPc \ {"fork_scan"}
  BY <1>1, TheTable DEF ProcInv, Calls, Forking, Making, People, TableTypeOK, ForkPc
<1>3. PlaceInv' /\ Started' = Started /\ Dead' = Dead
  BY <1>2, InitStep DEF ProcInv
<1>4. \A u \in Task : u # t /\ pc[u] \in ForkPc \ {"fork_scan"} => slot[u] # s
  BY <1>2, NobodyElses
<1>5. /\ pc' \in [Task -> Pc]
      /\ \A u \in Task : pc'[u] = IF u = t THEN "fork_start" ELSE pc[u]
  BY <1>1 DEF ProcInv, TableTypeOK, Pc, ForkPc
<1>6. /\ parent' \in [Task -> Task \cup {NoTask}]
      /\ \A u \in Task : parent'[u] = IF u = s THEN NoTask ELSE parent[u]
  BY <1>1 DEF ProcInv, TableTypeOK
<1>7. Equipped' = Equipped
  BY <1>1, <1>5 DEF Equipped
<1> HIDE DEF s
<1>8. TableTypeOK'
  BY <1>1, <1>2, <1>5, <1>6 DEF ProcInv, TableTypeOK
<1>9. ASSUME EntryInv PROVE EntryInv'
  <2>1. EntriesApart'
    BY <1>1, <1>7, <1>9 DEF EntryInv, EntriesApart
  <2>2. Found'
    BY <1>1, <1>5, <1>9 DEF EntryInv, Found
  <2> QED BY <2>1, <2>2 DEF EntryInv
<1>10. People'
  BY <1>1, <1>2, <1>3, <1>6 DEF ProcInv, People
<1>11. ASSUME NEW u \in Task PROVE Forking(u)' /\ Exiting(u)'
  <2>1. NoTask \notin Task
    BY IpcAssumption DEF IpcAssumption, AllTasks
  <2>2. \A r \in Slot : parent'[r] = u => parent[r] = u
    BY <1>2, <1>6, <2>1
  <2>3. CASE u = t
    BY <1>1, <1>2, <1>3, <1>5, <2>3 DEF Forking, Exiting, Making, ExitPc, s
  <2>4. CASE u # t
    <3>1. Forking(u) /\ Exiting(u) /\ pc'[u] = pc[u]
      BY <1>5, <2>4 DEF ProcInv, Calls
    <3>2. pc[u] \in Making \cup {"fork_unlock"} => slot[u] # s
      BY <1>4, <2>4 DEF Making, ForkPc
    <3>3. Forking(u)'
      BY <1>1, <1>3, <3>1, <3>2 DEF Forking
    <3>4. Exiting(u)'
      BY <1>1, <2>2, <3>1 DEF Exiting, ExitPc
    <3> QED BY <3>3, <3>4
  <2> QED BY <2>3, <2>4
<1> QED BY <1>3, <1>8, <1>9, <1>10, <1>11 DEF Kept, ProcInv, Calls

(* starts the child,                                                       *)
LEMMA StartKeeps ==
  ASSUME ProcInv, OwnSlot, NEW t \in Task, fork_start(t)
  PROVE  Kept
<1> DEFINE s == slot[t]
<1>1. /\ curr_task = t /\ pc[t] = "fork_start" /\ task_start(s)
      /\ pc' = [pc EXCEPT ![t] = "user", ![s] = "user"]
      /\ parent' = [parent EXCEPT ![s] = t]
      /\ slot' = [slot EXCEPT ![t] = NoSlot]
      /\ UNCHANGED << mutexVars, semVars, named, tss_sel, gdt, sel, move_child >>
  BY DEF fork_start
<1>2. /\ t \in Started \ Dead
      /\ s \in named \ Started /\ s \in Slot /\ s \in Task /\ s # t /\ s # First
      /\ pc[t] \in ForkPc \ {"fork_scan"}
  BY <1>1, TheTable, Runner DEF Forking, ProcInv, TableTypeOK, ForkPc
<1>3. PlaceInv' /\ Started' = Started \cup {s} /\ Dead' = Dead
  BY <1>1, <1>2, ChildStep DEF ProcInv
<1>4. \A u \in Task : u # t /\ pc[u] \in ForkPc \ {"fork_scan"} => slot[u] # s
  BY <1>2, NobodyElses
<1>5. /\ pc' \in [Task -> Pc] /\ pc[s] \notin ForkPc
      /\ \A u \in Task : pc'[u] = IF u \in {t, s} THEN "user" ELSE pc[u]
  BY <1>1, <1>2 DEF ProcInv, TableTypeOK, Pc, Calls, Forking
<1>6. /\ parent' \in [Task -> Task \cup {NoTask}]
      /\ \A u \in Task : parent'[u] = IF u = s THEN t ELSE parent[u]
  BY <1>1, <1>2 DEF ProcInv, TableTypeOK
<1>7. /\ slot' \in [Task -> 0..TaskNr]
      /\ \A u \in Task : u # t => slot'[u] = slot[u]
  BY <1>1, TableNumbers DEF ProcInv, TableTypeOK, NoSlot
<1> HIDE DEF s
<1>8. TableTypeOK'
  BY <1>1, <1>5, <1>6, <1>7 DEF ProcInv, TableTypeOK
<1>9. People'
  BY <1>1, <1>2, <1>3, <1>6, TheTable DEF ProcInv, People
<1>10. Equipped' = Equipped
  BY <1>1, <1>5, <1>7 DEF Equipped, ForkPc
<1>11. ASSUME EntryInv PROVE EntryInv'
  <2>1. EntriesApart'
    BY <1>1, <1>10, <1>11 DEF EntryInv, EntriesApart
  <2>2. Found'
    BY <1>1, <1>5, <1>11 DEF EntryInv, Found
  <2> QED BY <2>1, <2>2 DEF EntryInv
<1>12. ASSUME NEW u \in Task PROVE Forking(u)' /\ Exiting(u)'
  <2>1. CASE u \in {t, s}
    BY <1>5, <2>1 DEF Forking, Exiting, Making, ForkPc, ExitPc
  <2>2. CASE u \notin {t, s}
    <3>1. Forking(u) /\ Exiting(u) /\ slot'[u] = slot[u] /\ pc'[u] = pc[u]
      BY <1>5, <1>7, <2>2 DEF ProcInv, Calls
    <3>2. pc[u] = "fork_start" => slot[u] # s
      BY <1>4, <2>2 DEF ForkPc
    <3>3. Forking(u)'
      BY <1>1, <1>3, <3>1, <3>2 DEF Forking
    <3>4. \A r \in Slot : parent'[r] = u => parent[r] = u
      BY <1>2, <1>6, <2>2, TheTable
    <3>5. Exiting(u)'
      BY <3>1, <3>4 DEF Exiting, ExitPc
    <3> QED BY <3>3, <3>5
  <2> QED BY <2>1, <2>2
<1> QED BY <1>3, <1>8, <1>9, <1>11, <1>12 DEF Kept, ProcInv, Calls

(* or gives the entry back when it fails.                                  *)
LEMMA UndoKeeps ==
  ASSUME ProcInv, OwnSlot, NEW t \in Task, task_uninit(t)
  PROVE  Kept
<1> DEFINE s == slot[t]
<1>1. /\ pc[t] = "fork_undo" /\ pc' = [pc EXCEPT ![t] = "fork_free_lock"]
      /\ gdt' = gdt \ {tss_sel[s]} /\ Cleared(s)
      /\ UNCHANGED << mutexVars, semVars, slot, sel, move_child >>
  BY DEF task_uninit, Goes
<1>2. /\ s \in Slot \ named /\ s \in Task /\ s \notin Started /\ t \in Started \ Dead
      /\ pc[t] \in ForkPc \ {"fork_scan"}
  BY <1>1, TheTable DEF ProcInv, Calls, Forking, Making, People, ForkPc
<1>3. s \notin Equipped
  BY <1>1, <1>2, NobodyElses DEF Equipped, ForkPc
<1>4. /\ EntryInv => tss_sel[s] = 0
      /\ gdt \subseteq 1..GdtSize /\ tss_sel \in [Task -> 0..GdtSize]
  BY <1>2, <1>3 DEF ProcInv, EntryInv, EntriesApart, TableTypeOK
<1> HIDE DEF s
<1>5. /\ gdt' \subseteq 1..GdtSize /\ tss_sel' \in [Task -> 0..GdtSize] /\ named' = named
      /\ EntryInv => UNCHANGED << tss_sel, gdt >>
  <2>1. tss_sel' = [tss_sel EXCEPT ![s] = 0] /\ 0 \in 0..GdtSize /\ named' = named
    BY <1>1, <1>2, TableNumbers DEF Cleared
  <2>2. tss_sel' \in [Task -> 0..GdtSize] /\ gdt' \subseteq 1..GdtSize
    BY <1>1, <1>4, <2>1
  <2>3. ASSUME EntryInv PROVE gdt' = gdt /\ tss_sel' = tss_sel
    BY <1>1, <1>2, <1>4, <2>1, <2>3
  <2> QED BY <2>1, <2>2, <2>3
<1>6. /\ parent' \in [Task -> Task \cup {NoTask}]
      /\ \A u \in Slot : parent'[u] = parent[u] \/ (u \notin Started /\ parent'[u] = NoTask)
  BY <1>1, <1>2, TheTable DEF Cleared, ProcInv, TableTypeOK
<1>7. PlaceInv' /\ Started' = Started /\ Dead' = Dead
  <2>1. PlaceInv' /\ Started' = Started \ {s} /\ Dead' = Dead \ {s}
    BY <1>1, <1>2, ClearedStep DEF ProcInv
  <2>2. s \notin Dead
    BY <1>2 DEF Dead, Started
  <2> QED BY <1>2, <2>1, <2>2
<1>8. pc'[t] = "fork_free_lock"
  BY <1>1 DEF ProcInv, TableTypeOK
<1>9. Forking(t)' /\ Exiting(t)'
  BY <1>1, <1>2, <1>5, <1>7, <1>8 DEF Forking, Exiting, Making, ExitPc, s
<1>10. "fork_free_lock" \in Pc /\ "fork_fields" \notin {pc[t], "fork_free_lock"}
  BY <1>1 DEF Pc, ForkPc
<1> QED BY <1>1, <1>2, <1>5, <1>6, <1>7, <1>9, <1>10, Onward DEF ProcInv, TableTypeOK

(* free_task, about to lock the table,                                     *)
LEMMA FreeLockKeeps ==
  ASSUME ProcInv, NEW t \in Task, free_task_lock(t)
  PROVE  Kept
<1>1. /\ pc[t] = "fork_free_lock" /\ mutex_lock(Table)
      /\ pc' = [pc EXCEPT ![t] = "fork_free"]
      /\ UNCHANGED << named, parent, tss_sel, gdt, slot, sel, move_child >>
  BY DEF free_task_lock, LockTable, Goes
<1>2. PlaceInv' /\ Started' = Started /\ Dead' = Dead
  BY <1>1, LockStep DEF ProcInv, SameGone
<1>3. pc'[t] = "fork_free" /\ Forking(t)
  BY <1>1 DEF ProcInv, TableTypeOK, Calls
<1>4. Forking(t)' /\ Exiting(t)'
  BY <1>1, <1>2, <1>3 DEF Forking, Exiting, Making, ForkPc, ExitPc
<1>5. "fork_free" \in Pc /\ "fork_fields" \notin {pc[t], "fork_free"} /\ pc[t] \in ForkPc
  BY <1>1 DEF Pc, ForkPc
<1> QED BY <1>1, <1>2, <1>4, <1>5, Onward DEF ProcInv, TableTypeOK

(* and when the slot is free again.                                        *)
LEMMA FreeKeeps ==
  ASSUME ProcInv, NEW t \in Task, free_task(t)
  PROVE  Kept
<1>1. /\ curr_task = t /\ pc[t] = "fork_free" /\ mutex_unlock(Table)
      /\ pc' = [pc EXCEPT ![t] = "user"]
      /\ named' = named \ {slot[t]} /\ slot' = [slot EXCEPT ![t] = NoSlot]
      /\ UNCHANGED << parent, tss_sel, gdt, sel, move_child >>
  BY DEF free_task, Goes
<1>2. PlaceInv' /\ Started' = Started /\ Dead' = Dead
  BY <1>1, UnlockStep DEF ProcInv, SameGone
<1>3. Forking(t)
  BY DEF ProcInv, Calls
<1>4. named' = named
  BY <1>1, <1>3 DEF Forking, Making
<1>5. /\ slot' \in [Task -> 0..TaskNr] /\ pc'[t] = "user"
      /\ \A u \in Task : u # t => slot'[u] = slot[u]
  BY <1>1, TableNumbers DEF ProcInv, TableTypeOK, NoSlot
<1>6. Forking(t)' /\ Exiting(t)'
  BY <1>5 DEF Forking, Exiting, Making, ForkPc, ExitPc
<1>7. "user" \in Pc /\ "fork_fields" \notin {pc[t], "user"} /\ pc[t] \in ForkPc
  BY <1>1 DEF Pc, ForkPc
<1> QED BY <1>1, <1>2, <1>4, <1>5, <1>6, <1>7, Onward DEF ProcInv, TableTypeOK
------------------------------------------------------------------------------
(* sys_wait, step by step. *)
LEMMA WaitLockKeeps ==
  ASSUME ProcInv, NEW t \in Task, wait(t) \/ wait_lock(t)
  PROVE  Kept
<1>1. /\ pc[t] \in {"user", "wait_lock"} /\ mutex_lock(Table)
      /\ pc' = [pc EXCEPT ![t] = "wait_scan"]
      /\ UNCHANGED << named, parent, tss_sel, gdt, slot, sel, move_child >>
  BY DEF wait, wait_lock, LockTable, Goes
<1>2. PlaceInv' /\ Started' = Started /\ Dead' = Dead
  BY <1>1, LockStep DEF ProcInv, SameGone
<1>3. pc'[t] = "wait_scan"
  BY <1>1 DEF ProcInv, TableTypeOK
<1>4. Forking(t)' /\ Exiting(t)'
  BY <1>3 DEF Forking, Exiting, Making, ForkPc, ExitPc
<1>5. "wait_scan" \in Pc \ ForkPc /\ "fork_fields" \notin {pc[t], "wait_scan"}
  BY <1>1 DEF Pc, ForkPc, WaitPc
<1> QED BY <1>1, <1>2, <1>4, <1>5, Onward DEF ProcInv, TableTypeOK

(* A zombie is nobody's parent, and no fork has its slot in hand.          *)
LEMMA ReapKeeps ==
  ASSUME ProcInv, NEW t \in Task, NEW z \in Zombies(t), Cleared(z),
         Goes(t, "wait_scan", "wait_found"),
         UNCHANGED << mutexVars, semVars, gdt, slot, sel, move_child >>
  PROVE  Kept
<1>1. /\ curr_task = t /\ pc[t] = "wait_scan"
      /\ pc' = [pc EXCEPT ![t] = "wait_found"]
      /\ named' = named \ {z} /\ parent' = [parent EXCEPT ![z] = NoTask]
      /\ tss_sel' = [tss_sel EXCEPT ![z] = 0]
  BY DEF Goes, Cleared
<1>2. /\ z \in Slot /\ z \in Task /\ z \in Dead /\ z \in Started /\ z # First
      /\ z \in named /\ named \subseteq Slot
  BY TheTable DEF Zombies, Dead, Started, ProcInv, People, TableTypeOK
<1>3. PlaceInv' /\ Started' = Started \ {z} /\ Dead' = Dead \ {z}
  BY <1>2, ClearedStep DEF ProcInv
<1>4. /\ pc' \in [Task -> Pc]
      /\ \A u \in Task : pc'[u] = IF u = t THEN "wait_found" ELSE pc[u]
  BY <1>1 DEF ProcInv, TableTypeOK, Pc, WaitPc
<1>5. /\ parent' \in [Task -> Task \cup {NoTask}]
      /\ tss_sel' \in [Task -> 0..GdtSize]
      /\ \A u \in Task : parent'[u] = IF u = z THEN NoTask ELSE parent[u]
      /\ \A u \in Task : tss_sel'[u] = IF u = z THEN 0 ELSE tss_sel[u]
  BY <1>1, <1>2, TableNumbers DEF ProcInv, TableTypeOK
<1>6. TableTypeOK'
  BY <1>1, <1>4, <1>5 DEF ProcInv, TableTypeOK
<1>7. ASSUME NEW u \in Task PROVE pc'[u] \in ForkPc => pc[u] = pc'[u]
  BY <1>4 DEF ForkPc
<1>8. People'
  BY <1>1, <1>2, <1>3, <1>5, TheTable DEF ProcInv, People
<1>9. \A u \in Task : pc[u] = "fork_fields" => slot[u] \in Slot \ named
  BY DEF ProcInv, Calls, Forking, Making
<1>10. Equipped \subseteq Slot /\ Equipped' = Equipped \ {z}
  BY <1>1, <1>2, <1>4, <1>9 DEF Equipped
<1>11. ASSUME EntryInv PROVE EntryInv'
  <2>1. EntriesApart'
    BY <1>2, <1>5, <1>10, <1>11, TheTable DEF EntryInv, EntriesApart
  <2>2. Found'
    BY <1>4, <1>11 DEF EntryInv, Found
  <2> QED BY <2>1, <2>2 DEF EntryInv
<1>12. ASSUME NEW u \in Task PROVE Forking(u)' /\ Exiting(u)'
  <2>1. Forking(u) /\ Exiting(u)
    BY DEF ProcInv, Calls
  <2>2. NoTask \notin Task
    BY IpcAssumption DEF IpcAssumption, AllTasks
  <2>3. \A r \in Slot : parent'[r] = u => parent[r] = u
    BY <1>2, <1>5, <2>2, TheTable
  <2>4. Forking(u)'
    BY <1>1, <1>2, <1>3, <1>4, <1>7, <2>1 DEF Forking, Making
  <2>5. Exiting(u)'
    BY <1>1, <1>4, <2>1, <2>3 DEF Exiting, ExitPc
  <2> QED BY <2>4, <2>5
<1> QED BY <1>3, <1>6, <1>8, <1>11, <1>12 DEF Kept, ProcInv, Calls

(* sys_wait looks for a zombie and reaps it,                               *)
LEMMA WaitScanKeeps ==
  ASSUME ProcInv, NEW t \in Task, wait_scan(t)
  PROVE  Kept
<1>1. UNCHANGED << mutexVars, semVars, gdt, slot, sel, move_child >>
  BY DEF wait_scan
<1>2. CASE /\ Goes(t, "wait_scan", "wait_found")
           /\ \E z \in Zombies(t) : IsFirst(z, Zombies(t)) /\ Cleared(z)
  BY <1>1, <1>2, ReapKeeps
<1>3. CASE /\ Goes(t, "wait_scan", "wait_none")
           /\ UNCHANGED << schedVars, named, parent, tss_sel >>
  <2>1. /\ pc[t] = "wait_scan" /\ pc' = [pc EXCEPT ![t] = "wait_none"]
        /\ UNCHANGED ipcVars
    BY <1>1, <1>3 DEF Goes, ipcVars
  <2>2. PlaceInv' /\ Started' = Started /\ Dead' = Dead
    BY <2>1, IdleStep DEF ProcInv, SameGone
  <2>3. pc'[t] = "wait_none"
    BY <2>1 DEF ProcInv, TableTypeOK
  <2>4. Forking(t)' /\ Exiting(t)'
    BY <2>3 DEF Forking, Exiting, Making, ForkPc, ExitPc
  <2>5. "wait_none" \in Pc \ ForkPc /\ "fork_fields" \notin {pc[t], "wait_none"}
    BY <2>1 DEF Pc, ForkPc, WaitPc
  <2> QED BY <1>1, <1>3, <2>1, <2>2, <2>4, <2>5, Onward DEF ProcInv, TableTypeOK
<1> QED BY <1>2, <1>3 DEF wait_scan

(* returns when it has reaped one,                                         *)
LEMMA WaitUnlockKeeps ==
  ASSUME ProcInv, NEW t \in Task, wait_unlock(t)
  PROVE  Kept
<1>1. PICK to \in {"user", "wait_sleep"} :
        /\ pc[t] \in {"wait_found", "wait_none"}
        /\ pc' = [pc EXCEPT ![t] = to]
  BY DEF wait_unlock, Goes
<1>2. /\ mutex_unlock(Table)
      /\ UNCHANGED << named, parent, tss_sel, gdt, slot, sel, move_child >>
  BY DEF wait_unlock
<1>3. PlaceInv' /\ Started' = Started /\ Dead' = Dead
  BY <1>2, UnlockStep DEF ProcInv, SameGone
<1>4. pc'[t] = to
  BY <1>1 DEF ProcInv, TableTypeOK
<1>5. Forking(t)' /\ Exiting(t)'
  BY <1>4 DEF Forking, Exiting, Making, ForkPc, ExitPc
<1>6. to \in Pc \ ForkPc /\ "fork_fields" \notin {pc[t], to}
  BY <1>1 DEF Pc, ForkPc, WaitPc
<1> QED BY <1>1, <1>2, <1>3, <1>5, <1>6, Onward DEF ProcInv, TableTypeOK

(* or sleeps.                                                              *)
LEMMA WaitSleepKeeps ==
  ASSUME ProcInv, NEW t \in Task, wait_sleep(t)
  PROVE  Kept
<1>1. /\ pc[t] = "wait_sleep" /\ pc' = [pc EXCEPT ![t] = "wait_lock"]
      /\ UNCHANGED << named, parent, tss_sel, gdt, slot, sel, move_child >>
  BY DEF wait_sleep, Goes
<1>2. PlaceInv' /\ Started' = Started /\ Dead' = Dead
  BY WaitSleepStep DEF ProcInv
<1>3. pc'[t] = "wait_lock"
  BY <1>1 DEF ProcInv, TableTypeOK
<1>4. Forking(t)' /\ Exiting(t)'
  BY <1>3 DEF Forking, Exiting, Making, ForkPc, ExitPc
<1>5. "wait_lock" \in Pc \ ForkPc /\ "fork_fields" \notin {pc[t], "wait_lock"}
  BY <1>1 DEF Pc, ForkPc, WaitPc
<1> QED BY <1>1, <1>2, <1>4, <1>5, Onward DEF ProcInv, TableTypeOK
------------------------------------------------------------------------------
(* sys_exit, step by step. *)
LEMMA ExitKeeps ==
  ASSUME ProcInv, NEW t \in Task, exit(t)
  PROVE  Kept
<1>1. /\ t # First /\ pc[t] = "user" /\ mutex_lock(Table)
      /\ pc' = [pc EXCEPT ![t] = "exit_adopt"]
      /\ slot' = [slot EXCEPT ![t] = 1]
      /\ move_child' = [move_child EXCEPT ![t] = FALSE]
      /\ UNCHANGED << named, parent, tss_sel, gdt, sel >>
  BY DEF exit, LockTable, Goes
<1>2. PlaceInv' /\ Started' = Started /\ Dead' = Dead
  BY <1>1, LockStep DEF ProcInv, SameGone
<1>3. 1 \in Slot /\ 1 \in 0..TaskNr /\ \A s \in Slot : 1 <= s
  BY TableNumbers
<1>4. /\ slot' \in [Task -> 0..TaskNr] /\ move_child' \in [Task -> BOOLEAN]
      /\ slot'[t] = 1 /\ pc'[t] = "exit_adopt"
      /\ \A u \in Task : u # t => slot'[u] = slot[u]
  BY <1>1, <1>3 DEF ProcInv, TableTypeOK
<1>5. Forking(t)' /\ Exiting(t)'
  BY <1>1, <1>3, <1>4 DEF Forking, Exiting, Making, ForkPc, ExitPc
<1>6. "exit_adopt" \in Pc \ ForkPc /\ "fork_fields" \notin {pc[t], "exit_adopt"}
  BY <1>1 DEF Pc, ForkPc, ExitPc
<1> QED BY <1>1, <1>2, <1>4, <1>5, <1>6, Onward DEF ProcInv, TableTypeOK

(* The loop goes on behind a slot that is not a child's any more.          *)
LEMMA NextSlotKeeps ==
  ASSUME ProcInv, NEW t \in Task, NEW from \in {"exit_adopt", "exit_look"}, NextSlot(t, from),
         \A s \in Slot : parent[s] = t => slot[t] < s,
         UNCHANGED << ipcVars, named, parent, tss_sel, gdt, sel >>,
         move_child' \in [Task -> BOOLEAN]
  PROVE  Kept
<1>1. pc[t] = from /\ Exiting(t) /\ slot[t] \in Slot /\ t # First
  BY DEF NextSlot, Goes, ProcInv, Calls, Exiting, ExitPc
<1>2. PlaceInv' /\ Started' = Started /\ Dead' = Dead
  BY IdleStep DEF ProcInv, SameGone
<1>3. PICK n \in 1..TaskNr : n = slot[t]
  BY <1>1, TableNumbers
<1>4. "fork_fields" # pc[t] /\ {"exit_unlock", "exit_adopt"} \subseteq Pc \ (ForkPc \cup {"fork_fields"})
  BY <1>1 DEF Pc, ForkPc, ExitPc
<1>5. CASE /\ slot[t] = TaskNr /\ pc' = [pc EXCEPT ![t] = "exit_unlock"]
           /\ slot' = [slot EXCEPT ![t] = NoSlot]
  <2>1. \A s \in Slot : parent[s] # t
    BY <1>3, <1>5, TableNumbers
  <2>2. /\ slot' \in [Task -> 0..TaskNr] /\ pc'[t] = "exit_unlock"
        /\ \A u \in Task : u # t => slot'[u] = slot[u]
    BY <1>5, TableNumbers DEF ProcInv, TableTypeOK, NoSlot
  <2>3. Forking(t)' /\ Exiting(t)'
    BY <1>1, <2>1, <2>2 DEF Forking, Exiting, Making, ForkPc, ExitPc
  <2> QED BY <1>2, <1>4, <1>5, <2>2, <2>3, Onward DEF ProcInv, TableTypeOK
<1>6. CASE /\ slot[t] # TaskNr /\ pc' = [pc EXCEPT ![t] = "exit_adopt"]
           /\ slot' = [slot EXCEPT ![t] = @ + 1]
  <2>1. n + 1 \in 1..TaskNr /\ n + 1 \in 0..TaskNr /\ \A s \in Slot : n < s => n + 1 <= s
    BY <1>3, <1>6, TableNumbers
  <2>2. /\ slot' \in [Task -> 0..TaskNr] /\ pc'[t] = "exit_adopt"
        /\ slot'[t] = n + 1
        /\ \A u \in Task : u # t => slot'[u] = slot[u]
    BY <1>3, <1>6, <2>1 DEF ProcInv, TableTypeOK
  <2>3. Forking(t)' /\ Exiting(t)'
    BY <1>1, <1>3, <2>1, <2>2, TableNumbers DEF Forking, Exiting, Making, ForkPc, ExitPc
  <2> QED BY <1>2, <1>4, <1>6, <2>2, <2>3, Onward DEF ProcInv, TableTypeOK
<1> QED BY <1>5, <1>6 DEF NextSlot, Goes

(* sys_exit gives its children to the first process,                       *)
LEMMA AdoptKeeps ==
  ASSUME ProcInv, NEW t \in Task, exit_adopt(t)
  PROVE  Kept
<1>1. /\ pc[t] = "exit_adopt" /\ Exiting(t) /\ slot[t] \in Slot /\ t # First
      /\ UNCHANGED << ipcVars, named, tss_sel, gdt, sel, move_child >>
      /\ move_child \in [Task -> BOOLEAN]
      /\ \A s \in Slot : parent[s] = t => slot[t] <= s
  BY DEF exit_adopt, ProcInv, Calls, Exiting, ExitPc, TableTypeOK
<1>2. PICK n \in 1..TaskNr : n = slot[t]
  BY <1>1, TableNumbers
<1>3. CASE /\ pc' = [pc EXCEPT ![t] = "exit_look"]
           /\ parent' = [parent EXCEPT ![slot[t]] = First]
           /\ UNCHANGED slot
  <2>1. PlaceInv' /\ Started' = Started /\ Dead' = Dead
    BY <1>1, IdleStep DEF ProcInv, SameGone
  <2>2. /\ parent' \in [Task -> Task \cup {NoTask}] /\ n \in Slot
        /\ \A s \in Slot : parent'[s] = IF s = n THEN First ELSE parent[s]
    BY <1>2, <1>3, TheTable, TableNumbers DEF ProcInv, TableTypeOK
  <2>3. pc'[t] = "exit_look"
    BY <1>3 DEF ProcInv, TableTypeOK
  <2>4. \A s \in Slot : parent'[s] = t => n < s
    BY <1>1, <1>2, <2>2, TableNumbers
  <2>5. Forking(t)' /\ Exiting(t)'
    BY <1>1, <1>2, <1>3, <2>3, <2>4 DEF Forking, Exiting, Making, ForkPc, ExitPc
  <2>6. "exit_look" \in Pc \ ForkPc /\ "fork_fields" \notin {pc[t], "exit_look"}
    BY <1>1 DEF Pc, ForkPc, ExitPc
  <2> QED BY <1>1, <1>3, <2>1, <2>2, <2>5, <2>6, Onward DEF ProcInv, TableTypeOK
<1>4. CASE parent[slot[t]] # t /\ NextSlot(t, "exit_adopt") /\ UNCHANGED parent
  <2>1. \A s \in Slot : parent[s] = t => slot[t] < s
    BY <1>1, <1>2, <1>4, TableNumbers
  <2> QED BY <1>1, <1>4, <2>1, NextSlotKeeps
<1> QED BY <1>3, <1>4 DEF exit_adopt, Goes

(* looks whether one of them is a zombie,                                  *)
LEMMA LookKeeps ==
  ASSUME ProcInv, NEW t \in Task, exit_look(t)
  PROVE  Kept
<1>1. /\ pc[t] = "exit_look" /\ NextSlot(t, "exit_look") /\ Exiting(t)
      /\ UNCHANGED << ipcVars, named, parent, tss_sel, gdt, sel >>
  BY DEF exit_look, ProcInv, Calls
<1>2. \A s \in Slot : parent[s] = t => slot[t] < s
  BY <1>1 DEF Exiting
<1>3. move_child' \in [Task -> BOOLEAN]
  <2>1. PICK b \in BOOLEAN : b = (move_child[t] \/ state[slot[t]] = "zombie")
    OBVIOUS
  <2>2. move_child' = [move_child EXCEPT ![t] = b]
    BY <2>1 DEF exit_look
  <2> QED BY <2>2 DEF ProcInv, TableTypeOK
<1> QED BY <1>1, <1>2, <1>3, NextSlotKeeps

(* unlocks the table,                                                      *)
LEMMA ExitUnlockKeeps ==
  ASSUME ProcInv, NEW t \in Task, exit_unlock(t)
  PROVE  Kept
<1>1. /\ pc[t] = "exit_unlock" /\ pc' = [pc EXCEPT ![t] = "exit_final"]
      /\ mutex_unlock(Table) /\ Exiting(t)
      /\ UNCHANGED << named, parent, tss_sel, gdt, slot, sel, move_child >>
  BY DEF exit_unlock, Goes, ProcInv, Calls
<1>2. PlaceInv' /\ Started' = Started /\ Dead' = Dead
  BY <1>1, UnlockStep DEF ProcInv, SameGone
<1>3. pc'[t] = "exit_final"
  BY <1>1 DEF ProcInv, TableTypeOK
<1>4. Forking(t)' /\ Exiting(t)'
  BY <1>1, <1>3 DEF Forking, Exiting, Making, ForkPc, ExitPc
<1>5. "exit_final" \in Pc \ ForkPc /\ "fork_fields" \notin {pc[t], "exit_final"}
  BY <1>1 DEF Pc, ForkPc, ExitPc
<1> QED BY <1>1, <1>2, <1>4, <1>5, Onward DEF ProcInv, TableTypeOK

(* and becomes a zombie.                                                   *)
LEMMA FinalKeeps ==
  ASSUME ProcInv, NEW t \in Task, exit_final(t)
  PROVE  Kept
<1>1. /\ curr_task = t /\ pc[t] = "exit_final" /\ pc' = [pc EXCEPT ![t] = "zombie"]
      /\ move_child' = [move_child EXCEPT ![t] = FALSE]
      /\ UNCHANGED << named, parent, tss_sel, gdt, slot, sel >>
  BY DEF exit_final, Goes
<1>2. parent[t] \in Task
  <2>1. t \in Slot \cap Started
    BY <1>1, Runner DEF Exiting, ExitPc
  <2> QED BY <2>1 DEF ProcInv, People, Started
<1>3. PlaceInv' /\ Started' = Started /\ Dead' = Dead \cup {t}
  BY <1>2, ExitFinalStep DEF ProcInv
<1>4. pc'[t] = "zombie" /\ move_child' \in [Task -> BOOLEAN]
  BY <1>1 DEF ProcInv, TableTypeOK
<1>5. Forking(t)' /\ Exiting(t)'
  BY <1>4 DEF Forking, Exiting, Making, ForkPc, ExitPc
<1>6. "zombie" \in Pc \ ForkPc /\ "fork_fields" \notin {pc[t], "zombie"}
  BY <1>1 DEF Pc, ForkPc, WaitPc, ExitPc
<1> QED BY <1>1, <1>3, <1>4, <1>5, <1>6, Onward DEF ProcInv, TableTypeOK
------------------------------------------------------------------------------
(* The clock changes no entry of the table,                                *)
LEMMA TickKeeps ==
  ASSUME ProcInv, Tick
  PROVE  Kept
<1>1. /\ PlaceInv' /\ Started' = Started /\ Dead' = Dead
      /\ UNCHANGED << named, parent, tss_sel, gdt, pc, slot, sel, move_child >>
  BY ClockStep DEF Tick, ProcInv, SameGone, procVars
<1>2. TableTypeOK' /\ People' /\ (EntryInv => EntryInv')
  BY <1>1 DEF ProcInv, TableTypeOK, People, EntryInv, EntriesApart, Equipped, Found
<1>3. \A t \in Task : Forking(t)' /\ Exiting(t)'
  BY <1>1 DEF ProcInv, Calls, Forking, Exiting
<1> QED BY <1>1, <1>2, <1>3 DEF Kept, ProcInv, Calls

(* and no more does a step of nobody.                                      *)
LEMMA StutterKeeps ==
  ASSUME ProcInv, UNCHANGED allVars
  PROVE  Kept
<1>1. /\ PlaceInv' /\ Started' = Started /\ Dead' = Dead
      /\ UNCHANGED << named, parent, tss_sel, gdt, pc, slot, sel, move_child >>
  BY IdleStep DEF allVars, ProcInv, SameGone, procVars
<1>2. TableTypeOK' /\ People' /\ (EntryInv => EntryInv')
  BY <1>1 DEF ProcInv, TableTypeOK, People, EntryInv, EntriesApart, Equipped, Found
<1>3. \A t \in Task : Forking(t)' /\ Exiting(t)'
  BY <1>1 DEF ProcInv, Calls, Forking, Exiting
<1> QED BY <1>1, <1>2, <1>3 DEF Kept, ProcInv, Calls

(* The invariant of the processes holds at the start,                      *)
LEMMA ProcInit == Init => ProcInv /\ EntryInv
<1> SUFFICES ASSUME Init PROVE ProcInv /\ EntryInv
  OBVIOUS
<1>1. IpcInit /\ IpcInv
  BY InvInit DEF Init
<1>2. \A u \in AllTasks : state[u] = IF u = First THEN "ready" ELSE "created"
  BY <1>1 DEF IpcInit, SchedInit
<1>3. Started = {First} /\ Dead = {} /\ WaitingForChild = {}
  BY <1>2, TheTable DEF Started, Dead, WaitingForChild, AllTasks
<1>4. lock_waiters[Table] = <<>> /\ Waiting(Table) = {}
  BY <1>1, TheTable DEF IpcInit, Waiting, ToSet
<1>5. Parked = {}
  BY <1>1 DEF IpcInit, Parked, Waiting, Pending, ToSet
<1>6. EveryProcessInOnePlace
  BY <1>1, <1>3, <1>4, <1>5
     DEF IpcInv, EveryTaskInOnePlace, EveryProcessInOnePlace, OnePlaceOr, NoDuplicate
<1>7. PlaceInv
  BY <1>1, <1>6 DEF PlaceInv, IpcInv
<1>8. TableTypeOK
  BY TableNumbers DEF Init, TableTypeOK, Pc, NoSlot
<1>9. People
  BY <1>3, TheTable DEF People
<1>10. EntryInv
  BY TheTable DEF Init, EntryInv, EntriesApart, Equipped, Found
<1>11. Calls
  BY DEF Init, Calls, Forking, Exiting, ForkPc, ExitPc, Making
<1> QED BY <1>7, <1>8, <1>9, <1>10, <1>11 DEF ProcInv

(* and every step keeps it.                                                *)
LEMMA ProcStep ==
  ASSUME ProcInv, OwnSlot, [Next]_allVars
  PROVE  Kept
<1>1. ASSUME NEW t \in Task, sys_fork(t) PROVE Kept
  BY <1>1, ScanKeeps, AllocKeeps, SelKeeps, TssKeeps, InitKeeps, StartKeeps, UndoKeeps,
     FreeLockKeeps, FreeKeeps DEF sys_fork
<1>2. ASSUME NEW t \in Task, sys_wait(t) PROVE Kept
  BY <1>2, WaitLockKeeps, WaitScanKeeps, WaitUnlockKeeps, WaitSleepKeeps DEF sys_wait
<1>3. ASSUME NEW t \in Task, sys_exit(t) PROVE Kept
  BY <1>3, AdoptKeeps, LookKeeps, ExitUnlockKeeps, FinalKeeps DEF sys_exit
<1>4. ASSUME NEW t \in Task, fork(t) \/ wait(t) \/ exit(t) PROVE Kept
  BY <1>4, ForkKeeps, WaitLockKeeps, ExitKeeps
<1> QED BY <1>1, <1>2, <1>3, <1>4, TickKeeps, StutterKeeps DEF Next, Proceeds
------------------------------------------------------------------------------
(***************************************************************************)
(* The system calls keep the invariant, whatever the number of slots and   *)
(* of GDT entries and however they interleave, forks with forks included,  *)
(* as long as no two forks have picked the same slot.                      *)
(***************************************************************************)
THEOREM ProcInvariant == Spec /\ []OwnSlot => []ProcInv
<1>1. Init => ProcInv
  BY ProcInit
<1>2. ProcInv /\ OwnSlot /\ [Next]_allVars => ProcInv'
  BY ProcStep DEF Kept
<1> QED BY <1>1, <1>2, PTL DEF Spec

(* So they keep what is said of the entries, as long as no two forks have  *)
(* found the same entry either.                                            *)
THEOREM EntryInvariant == Spec /\ []ForksApart => []EntryInv
<1>1. Init => ProcInv /\ EntryInv
  BY ProcInit
<1>2. ProcInv /\ EntryInv /\ ForksApart /\ [Next]_allVars => ProcInv' /\ EntryInv'
  BY ProcStep DEF Kept, ForksApart
<1> QED BY <1>1, <1>2, PTL DEF Spec

(* The table, the GDT and the calls under way are what they should be.     *)
THEOREM ProcTypes == Spec /\ []OwnSlot => []ProcTypeOK
<1>1. ProcInv => ProcTypeOK
  BY DEF ProcInv, PlaceInv, TableTypeOK, ProcTypeOK
<1> QED BY <1>1, ProcInvariant, PTL

(* The wakeups of sys_exit, the reaping and the lock of the table lose     *)
(* nobody and link nobody twice.                                           *)
THEOREM ProcessesInOnePlace == Spec /\ []OwnSlot => []EveryProcessInOnePlace
<1>1. ProcInv => EveryProcessInOnePlace
  BY DEF ProcInv, PlaceInv
<1> QED BY <1>1, ProcInvariant, PTL

(* The parent that sys_exit wakes and sys_wait compares with lives, until  *)
(* two forks have had the same slot in hand.                               *)
THEOREM ParentsLive == Spec /\ []OwnSlot => []ParentsAlive
<1>1. ProcInv => ParentsAlive
  <2> SUFFICES ASSUME ProcInv, NEW s \in Slot, state[s] # "created"
               PROVE  /\ parent[s] \in named \cup {First}
                      /\ state[parent[s]] \notin {"created", "zombie"}
    BY DEF ParentsAlive
  <2>1. s \in Slot \cap Started
    BY TheTable DEF Started
  <2>2. parent[s] \in Started \ Dead /\ Started \subseteq named \cup {First}
    BY <2>1 DEF ProcInv, People
  <2> QED BY <2>2 DEF Started, Dead
<1> QED BY <1>1, ProcInvariant, PTL

(***************************************************************************)
(* Every process with a name has a GDT entry of its own until two forks    *)
(* have had the same slot or the same entry in hand.  OwnSel fails only    *)
(* between gdt_alloc_desc and the write of the entry, so that race and the *)
(* one of the slots are the only ways in which two processes come to share *)
(* an entry: a failing fork gives back no other's, and neither exits nor   *)
(* reaping make one free that is in use.  (What holds of all behaviours    *)
(* with []ForksApart holds of every beginning without the races, since the *)
(* system may stop after it.)                                              *)
(***************************************************************************)
THEOREM EntriesAreOwn == Spec /\ []ForksApart => []OwnTss
<1>1. EntryInv => OwnTss
  BY DEF EntryInv, EntriesApart, Equipped, OwnTss, Entry
<1> QED BY <1>1, EntryInvariant, PTL

(* Only a zombie loses its slot, when it is in no list any more.           *)
THEOREM OnlyTheDeadAreFreed == Spec /\ []OwnSlot => FreedWhenDead
<1> DEFINE A == \A s \in named \ named' :
                  /\ state[s] = "zombie"
                  /\ s # curr_task
                  /\ s \notin Active \cup Waiting(Table)
<1>1. ProcInv /\ [Next]_allVars => [A]_allVars
  <2> SUFFICES ASSUME ProcInv, Next, NEW s \in named \ named'
               PROVE  s \in Dead
    <3>1. ASSUME ProcInv, NEW s \in named, s \in Dead
          PROVE  /\ state[s] = "zombie" /\ s # curr_task
                 /\ s \notin Active \cup Waiting(Table)
      <4>1. s \in Task /\ state[s] = "zombie" /\ s \notin Active \cup Waiting(Table)
        BY <3>1 DEF ProcInv, PlaceInv, EveryProcessInOnePlace, OnePlaceOr, Dead
      <4>2. s # curr_task
        BY <3>1, <4>1, RunningIsActive, SchedAssumption DEF SchedAssumption, ProcInv
      <4> QED BY <4>1, <4>2
    <3> QED BY <3>1
  <2>1. ASSUME NEW t \in Task, wait_scan(t) PROVE s \in Dead
    <3>1. PICK z \in Zombies(t) : named' = named \ {z}
      BY <2>1 DEF wait_scan, Cleared
    <3>2. s = z /\ s \in Task
      BY <3>1, TheTable DEF ProcInv, TableTypeOK
    <3> QED BY <3>1, <3>2 DEF Zombies, Dead
  <2>2. ASSUME NEW t \in Task, task_uninit(t) \/ free_task(t) PROVE FALSE
    <3>1. named' = named \ {slot[t]} /\ slot[t] \notin named
      BY <2>2 DEF task_uninit, free_task, Cleared, Goes, ProcInv, Calls, Forking, Making
    <3> QED BY <3>1
  <2>3. ASSUME NEW t \in Task, task_init(t) PROVE FALSE
    BY <2>3 DEF task_init
  <2>4. ASSUME named' = named PROVE FALSE
    BY <2>4
  <2>5. ASSUME NEW t \in Task, sys_fork(t) PROVE FALSE
    BY <2>2, <2>3, <2>4, <2>5 DEF sys_fork, alloc_task_scan, alloc_task_unlock, gdt_alloc_desc,
         tss_init, fork_start, free_task_lock
  <2>6. ASSUME NEW t \in Task, sys_wait(t) PROVE s \in Dead
    BY <2>1, <2>4, <2>6 DEF sys_wait, wait_lock, wait_unlock, wait_sleep
  <2>7. ASSUME NEW t \in Task, sys_exit(t) PROVE FALSE
    BY <2>4, <2>7 DEF sys_exit, exit_adopt, exit_look, exit_unlock, exit_final
  <2>8. ASSUME NEW t \in Task, fork(t) \/ wait(t) \/ exit(t) PROVE FALSE
    BY <2>4, <2>8 DEF fork, wait, exit
  <2>9. ASSUME Tick PROVE FALSE
    BY <2>4, <2>9 DEF Tick, procVars
  <2> QED BY <2>5, <2>6, <2>7, <2>8, <2>9 DEF Next, Proceeds
<1> HIDE DEF A
<1>2. Spec /\ []OwnSlot => [][A]_allVars
  BY <1>1, ProcInvariant, PTL DEF Spec
<1> QED BY <1>2 DEF A, FreedWhenDead
------------------------------------------------------------------------------
(***************************************************************************)
(* Nobody's child dies unnoticed: what ParentIsTold says of the runs holds *)
(* for a table of any size.  It needs the lock of the table: while an      *)
(* exiting process looks at a child that it has given to the first task,   *)
(* the first task must not reap it.                                        *)
(***************************************************************************)
(* Where a task has the table, or waits for it to go on from there.        *)
EntryPc == { "fork_scan", "fork_free", "wait_scan", "exit_adopt" }
TablePc == EntryPc \cup { "fork_unlock", "wait_found", "wait_none", "exit_look", "exit_unlock" }

Holding ==
  /\ LockConsistent
  /\ locked_count[Table] \in {0, 1}
  /\ \A t \in Task :
       /\ owner[Table] = t => pc[t] \in TablePc
       /\ t \in Waiting(Table) => pc[t] \in EntryPc
       /\ pc[t] \in TablePc => owner[Table] = t \/ t \in Waiting(Table)

(* Who does not live is in no call; who is not started has no parent.      *)
Outside == \A t \in Task \ (Started \ Dead) : pc[t] \in {"user", "zombie"}
Orphans == \A s \in Slot \ Started : parent[s] = NoTask

(* Between its two steps at a slot, sys_exit looks at the first task's     *)
(* child.                                                                  *)
Adopted == \A t \in Task : pc[t] = "exit_look" => parent[slot[t]] = First

TellInv == ProcInv /\ Holding /\ Outside /\ Orphans /\ Adopted

(* What a step has to do.                                                  *)
Told ==
  TellInv' /\ \A t \in Task : t # curr_task /\ Overslept(t)' => Overslept(t)

(* One task at a time is in the table.                                     *)
Inside(t) == pc[t] \in TablePc /\ t \notin Waiting(Table)
OneInside == \A t, u \in Task : Inside(t) /\ Inside(u) => t = u
------------------------------------------------------------------------------
(* Who runs is alive, and alone in the table if it is in it.               *)
LEMMA Actor ==
  ASSUME TellInv, NEW a \in Task, curr_task = a
  PROVE  /\ a \in Started \ Dead /\ a \notin Waiting(Table) /\ a # Idle /\ a # NoTask
         /\ pc[a] \in TablePc => owner[Table] = a
         /\ pc[a] \in TablePc =>
              \A u \in Task : u # a /\ pc[u] \in TablePc => pc[u] \in EntryPc
<1>1. a \in Started \ Dead /\ a \notin Waiting(Table) /\ a # Idle /\ a # NoTask
  BY Runner, RunningIsActive DEF TellInv, ProcInv
<1> QED BY <1>1 DEF TellInv, Holding

(* A step that neither enters the table nor leaves it.                     *)
LEMMA KeepHolds ==
  ASSUME TellInv, NEW a \in Task, curr_task = a, NEW to, pc' = [pc EXCEPT ![a] = to],
         pc[a] \in TablePc <=> to \in TablePc, UNCHANGED mutexVars
  PROVE  Holding'
<1>1. /\ a \notin Waiting(Table) /\ UNCHANGED << locked_count, owner, lock_waiters >>
      /\ Waiting(Table)' = Waiting(Table)
  BY Actor DEF mutexVars, Waiting
<1>2. \A u \in Task : pc'[u] = IF u = a THEN to ELSE pc[u]
  BY DEF TellInv, ProcInv, TableTypeOK
<1>3. LockConsistent'
  BY <1>1 DEF TellInv, Holding, LockConsistent, Waiting
<1> QED BY <1>1, <1>2, <1>3 DEF TellInv, Holding

(* Locking the table, or waiting for it, makes one its holder or waiter.   *)
LEMMA LockHolds ==
  ASSUME TellInv, NEW a \in Task, curr_task = a, NEW to \in EntryPc, pc' = [pc EXCEPT ![a] = to],
         pc[a] \notin TablePc, mutex_lock(Table)
  PROVE  Holding'
<1>1. /\ a \notin Waiting(Table) /\ a # NoTask /\ owner[Table] # a
      /\ Mutex = {Table} /\ NoTask \notin Task
  BY Actor, TheTable, IpcAssumption DEF TellInv, Holding, IpcAssumption, AllTasks
<1>2. \A u \in Task : pc'[u] = IF u = a THEN to ELSE pc[u]
  BY DEF TellInv, ProcInv, TableTypeOK
<1>3. /\ locked_count \in [Mutex -> 0..MaxDepth] /\ owner \in [Mutex -> Task \cup {NoTask}]
      /\ lock_waiters \in [Mutex -> Seq(Task)]
  BY DEF TellInv, ProcInv, PlaceInv, IpcTypeOK
<1>4. CASE /\ locked_count[Table] = 0
           /\ locked_count' = [locked_count EXCEPT ![Table] = 1]
           /\ owner' = [owner EXCEPT ![Table] = a]
           /\ UNCHANGED lock_waiters
  <2>1. /\ locked_count'[Table] = 1 /\ owner'[Table] = a
        /\ Waiting(Table)' = Waiting(Table) /\ lock_waiters' = lock_waiters
    BY <1>1, <1>3, <1>4 DEF Waiting
  <2>2. LockConsistent'
    BY <1>1, <2>1 DEF LockConsistent
  <2>3. owner[Table] = NoTask
    BY <1>1, <1>4 DEF TellInv, Holding, LockConsistent
  <2>4. \A u \in Task : u # a /\ pc[u] \in TablePc => u \in Waiting(Table)
    BY <1>1, <2>3 DEF TellInv, Holding
  <2> QED BY <1>1, <1>2, <2>1, <2>2, <2>4 DEF TellInv, Holding, TablePc
<1>5. CASE /\ locked_count[Table] # 0
           /\ lock_waiters' = [lock_waiters EXCEPT ![Table] = Append(@, a)]
           /\ UNCHANGED << locked_count, owner >>
  <2>1. lock_waiters'[Table] = Append(lock_waiters[Table], a) /\ lock_waiters[Table] \in Seq(Task)
    BY <1>1, <1>3, <1>5
  <2>2. Waiting(Table)' = Waiting(Table) \cup {a}
    BY <2>1, InsertLast DEF Waiting
  <2>3. owner[Table] # NoTask
    BY <1>1, <1>5 DEF TellInv, Holding, LockConsistent
  <2>4. LockConsistent'
    BY <1>1, <1>5, <2>2, <2>3 DEF TellInv, Holding, LockConsistent
  <2> QED BY <1>1, <1>2, <1>5, <2>2, <2>4 DEF TellInv, Holding, TablePc
<1> QED BY <1>1, <1>4, <1>5 DEF mutex_lock

(* Unlocking hands the table to the first who waits.                       *)
LEMMA UnlockHolds ==
  ASSUME TellInv, NEW a \in Task, curr_task = a, NEW to, pc' = [pc EXCEPT ![a] = to],
         to \notin TablePc, mutex_unlock(Table)
  PROVE  Holding'
<1>1. /\ a \notin Waiting(Table) /\ owner[Table] = a
      /\ Mutex = {Table} /\ NoTask \notin Task
  BY Actor, TheTable, IpcAssumption DEF mutex_unlock, IpcAssumption, AllTasks
<1>2. \A u \in Task : pc'[u] = IF u = a THEN to ELSE pc[u]
  BY DEF TellInv, ProcInv, TableTypeOK
<1>3. /\ locked_count \in [Mutex -> 0..MaxDepth] /\ owner \in [Mutex -> Task \cup {NoTask}]
      /\ lock_waiters \in [Mutex -> Seq(Task)]
  BY DEF TellInv, ProcInv, PlaceInv, IpcTypeOK
<1>4. locked_count[Table] = 1
  <2>1. locked_count[Table] # 0
    BY <1>1 DEF TellInv, Holding, LockConsistent
  <2> QED BY <2>1 DEF TellInv, Holding
<1>5. CASE /\ lock_waiters[Table] = <<>>
           /\ locked_count' = [locked_count EXCEPT ![Table] = 0]
           /\ owner' = [owner EXCEPT ![Table] = NoTask]
           /\ UNCHANGED lock_waiters
  <2>1. /\ locked_count'[Table] = 0 /\ owner'[Table] = NoTask
        /\ Waiting(Table)' = {} /\ Waiting(Table) = {} /\ lock_waiters'[Table] = <<>>
    BY <1>1, <1>3, <1>5 DEF Waiting, ToSet
  <2>2. LockConsistent'
    BY <1>1, <2>1 DEF LockConsistent
  <2>3. \A u \in Task : u # a => pc[u] \notin TablePc
    BY <1>1, <2>1 DEF TellInv, Holding
  <2> QED BY <1>1, <1>2, <2>1, <2>2, <2>3 DEF Holding
<1>6. CASE lock_waiters[Table] # <<>> /\ HandOver(Table)
  <2> DEFINE q == lock_waiters[Table]
             h == Head(q)
  <2>1. /\ owner' = [owner EXCEPT ![Table] = h]
        /\ lock_waiters' = [lock_waiters EXCEPT ![Table] = Tail(@)]
        /\ UNCHANGED locked_count
    BY <1>6 DEF HandOver
  <2>2. q \in Seq(Task) /\ NoDuplicate(q)
    BY <1>1, <1>3 DEF TellInv, ProcInv, PlaceInv, EveryProcessInOnePlace
  <2>3. /\ h \in Task /\ h \in Waiting(Table)
        /\ ToSet(Tail(q)) = Waiting(Table) \ {h}
    BY <1>6, <2>2, RemoveHead DEF Waiting
  <2>4. /\ lock_waiters'[Table] = Tail(q) /\ owner'[Table] = h
        /\ locked_count'[Table] = 1
    BY <1>1, <1>3, <1>4, <2>1
  <2>5. Waiting(Table)' = Waiting(Table) \ {h}
    BY <2>3, <2>4 DEF Waiting
  <2> HIDE DEF h, q
  <2>6. LockConsistent'
    BY <1>1, <2>3, <2>4, <2>5 DEF LockConsistent
  <2>7. \A u \in Task : u # a /\ pc[u] \in TablePc => u \in Waiting(Table)
    BY <1>1 DEF TellInv, Holding
  <2>8. pc[h] \in EntryPc /\ h # a
    BY <1>1, <2>3 DEF TellInv, Holding
  <2> QED BY <1>1, <1>2, <2>3, <2>4, <2>5, <2>6, <2>7, <2>8 DEF TellInv, Holding, TablePc
<1> QED BY <1>1, <1>4, <1>5, <1>6 DEF mutex_unlock
------------------------------------------------------------------------------
(* A step of the running task that makes nobody a zombie and moves no      *)
(* child, and forgets nothing that the first task must be told.            *)
LEMMA Steady ==
  ASSUME TellInv, ProcInv', NEW a \in Task, curr_task = a,
         NEW to, pc' = [pc EXCEPT ![a] = to], to # "exit_look",
         Holding', Started' = Started, Dead' = Dead,
         WaitingForChild' \subseteq WaitingForChild \cup {a},
         \A u \in Task : u # a => slot'[u] = slot[u] /\ move_child'[u] = move_child[u],
         \A s \in Slot : parent'[s] = parent[s],
         HasToTell(a) => to \in ExitPc /\ move_child'[a]
  PROVE  Told
<1>1. /\ \A u \in Task : pc'[u] = IF u = a THEN to ELSE pc[u]
      /\ a \in Started \ Dead /\ Slot \subseteq Task
  BY Actor, TheTable DEF TellInv, ProcInv, TableTypeOK
<1>2. Outside' /\ Orphans'
  BY <1>1 DEF TellInv, Outside, Orphans
<1>3. \A u \in Task : pc[u] = "exit_look" => slot[u] \in Slot
  BY DEF TellInv, ProcInv, Calls, Exiting
<1>4. Adopted'
  BY <1>1, <1>3 DEF TellInv, Adopted
<1>5. \A u \in Task : state'[u] = "zombie" <=> state[u] = "zombie"
  BY DEF Dead
<1>6. \A u \in Task : HasToTell(u) => HasToTell(u)'
  BY <1>1, <1>3, <1>5 DEF HasToTell
<1>7. ASSUME NEW t \in Task, t # a, Overslept(t)' PROVE Overslept(t)
  <2>1. state[t] = "waiting"
    BY <1>7 DEF Overslept, WaitingForChild
  <2>2. Zombies(t)' \subseteq Zombies(t)
    BY <1>1, <1>5 DEF Zombies
  <2> QED BY <1>6, <1>7, <2>1, <2>2 DEF Overslept
<1> QED BY <1>2, <1>4, <1>7 DEF TellInv, Told

(* No parent oversleeps when another process locks the table,              *)
LEMMA LockTold ==
  ASSUME TellInv, ProcInv', NEW a \in Task, NEW from, NEW to \in EntryPc,
         from \notin TablePc \cup ExitPc,
         LockTable(a, from, to), UNCHANGED parent,
         \A u \in Task : u # a => slot'[u] = slot[u] /\ move_child'[u] = move_child[u]
  PROVE  Told
<1>1. /\ curr_task = a /\ pc[a] = from /\ pc' = [pc EXCEPT ![a] = to] /\ mutex_lock(Table)
  BY DEF LockTable, Goes
<1>2. Started' = Started /\ SameGone
  BY <1>1, LockStep DEF TellInv, ProcInv
<1>3. Holding'
  BY <1>1, LockHolds
<1>4. ~ HasToTell(a) /\ to # "exit_look"
  BY <1>1 DEF HasToTell, ExitPc, EntryPc
<1> QED BY <1>1, <1>2, <1>3, <1>4, Steady DEF SameGone

(* when it unlocks it,                                                     *)
LEMMA UnlockTold ==
  ASSUME TellInv, ProcInv', NEW a \in Task, NEW from, NEW to, to \notin TablePc,
         Goes(a, from, to), mutex_unlock(Table), UNCHANGED << parent, move_child >>,
         from \in ExitPc => from = "exit_unlock" /\ to \in ExitPc,
         \A u \in Task : u # a => slot'[u] = slot[u]
  PROVE  Told
<1>1. curr_task = a /\ pc[a] = from /\ pc' = [pc EXCEPT ![a] = to]
  BY DEF Goes
<1>2. Started' = Started /\ SameGone
  BY <1>1, UnlockStep DEF TellInv, ProcInv
<1>3. Holding'
  BY <1>1, UnlockHolds
<1>4. HasToTell(a) => to \in ExitPc /\ move_child'[a]
  BY <1>1 DEF HasToTell, ExitPc
<1>5. to # "exit_look"
  BY DEF TablePc
<1> QED BY <1>1, <1>2, <1>3, <1>4, <1>5, Steady DEF SameGone

(* or when it does neither.                                                *)
LEMMA IdleTold ==
  ASSUME TellInv, ProcInv', NEW a \in Task, NEW from, NEW to, Goes(a, from, to),
         from \in TablePc <=> to \in TablePc, to # "exit_look",
         UNCHANGED << ipcVars, parent >>,
         \A u \in Task : u # a => slot'[u] = slot[u] /\ move_child'[u] = move_child[u],
         HasToTell(a) => to \in ExitPc /\ move_child'[a]
  PROVE  Told
<1>1. /\ curr_task = a /\ pc[a] = from /\ pc' = [pc EXCEPT ![a] = to]
      /\ UNCHANGED ipcVars /\ UNCHANGED mutexVars
  BY DEF Goes, ipcVars
<1>2. Started' = Started /\ SameGone
  BY <1>1, IdleStep DEF TellInv, ProcInv
<1>3. Holding'
  BY <1>1, KeepHolds
<1> QED BY <1>1, <1>2, <1>3, Steady DEF SameGone

(* sys_fork tells nobody and hides nothing. *)
LEMMA ForkTells ==
  ASSUME TellInv, ProcInv', NEW a \in Task,
         \/ fork(a) \/ alloc_task_scan(a) \/ alloc_task_unlock(a) \/ gdt_alloc_desc(a)
         \/ tss_init(a) \/ free_task_lock(a) \/ free_task(a)
  PROVE  Told
<1>1. pc[a] \in ForkPc => ~ HasToTell(a)
  BY DEF HasToTell, ForkPc, ExitPc
<1>2. slot \in [Task -> 0..TaskNr]
  BY DEF TellInv, ProcInv, TableTypeOK
<1>3. CASE fork(a)
  <2>1. LockTable(a, "user", "fork_scan") /\ UNCHANGED << parent, slot, move_child >>
    BY <1>3 DEF fork
  <2> QED BY <2>1, LockTold DEF TablePc, EntryPc, ExitPc
<1>4. CASE free_task_lock(a)
  <2>1. LockTable(a, "fork_free_lock", "fork_free") /\ UNCHANGED << parent, slot, move_child >>
    BY <1>4 DEF free_task_lock
  <2> QED BY <2>1, LockTold DEF TablePc, EntryPc, ExitPc
<1>5. CASE alloc_task_unlock(a)
  <2>1. PICK to \in {"user", "fork_sel"} : Goes(a, "fork_unlock", to)
    BY <1>5 DEF alloc_task_unlock
  <2>2. mutex_unlock(Table) /\ UNCHANGED << parent, slot, move_child >>
    BY <1>5 DEF alloc_task_unlock
  <2>3. to \notin TablePc /\ "fork_unlock" \notin ExitPc
    BY DEF TablePc, EntryPc, ExitPc
  <2> QED BY <2>1, <2>2, <2>3, UnlockTold
<1>6. CASE free_task(a)
  <2>1. /\ Goes(a, "fork_free", "user") /\ mutex_unlock(Table) /\ UNCHANGED << parent, move_child >>
        /\ \A u \in Task : u # a => slot'[u] = slot[u]
    BY <1>2, <1>6 DEF free_task
  <2>2. "user" \notin TablePc /\ "fork_free" \notin ExitPc
    BY DEF TablePc, EntryPc, ExitPc
  <2> QED BY <2>1, <2>2, UnlockTold
<1>7. CASE alloc_task_scan(a)
  <2>1. /\ Goes(a, "fork_scan", "fork_unlock") /\ UNCHANGED << ipcVars, parent, move_child >>
        /\ \A u \in Task : u # a => slot'[u] = slot[u]
    BY <1>2, <1>7 DEF alloc_task_scan
  <2>2. {"fork_scan", "fork_unlock"} \subseteq TablePc /\ ~ HasToTell(a)
    BY <1>1, <2>1 DEF TablePc, EntryPc, Goes, ForkPc
  <2> QED BY <2>1, <2>2, IdleTold
<1>8. CASE gdt_alloc_desc(a) \/ tss_init(a)
  <2>1. PICK from \in {"fork_sel", "fork_tss"}, to \in {"fork_tss", "fork_undo", "fork_fields"} :
          Goes(a, from, to)
    BY <1>8 DEF gdt_alloc_desc, tss_init
  <2>2. UNCHANGED << ipcVars, parent, slot, move_child >>
    BY <1>8 DEF gdt_alloc_desc, tss_init
  <2>3. from \notin TablePc /\ to \notin TablePc /\ to # "exit_look" /\ ~ HasToTell(a)
    BY <1>1, <2>1 DEF TablePc, EntryPc, Goes, ForkPc
  <2> QED BY <2>1, <2>2, <2>3, IdleTold
<1> QED BY <1>3, <1>4, <1>5, <1>6, <1>7, <1>8

(* task_init and task_uninit write to a task that nobody has started: it   *)
(* has the state and the parent already that they give it.                 *)
LEMMA SlotTells ==
  ASSUME TellInv, ProcInv', NEW a \in Task, task_init(a) \/ task_uninit(a)
  PROVE  Told
<1> DEFINE s == slot[a]
<1>1. PICK to \in {"fork_start", "fork_free_lock"} :
        /\ curr_task = a /\ pc[a] \in {"fork_fields", "fork_undo"} /\ pc' = [pc EXCEPT ![a] = to]
        /\ state' = [state EXCEPT ![s] = "created"]
        /\ parent' = [parent EXCEPT ![s] = NoTask]
        /\ UNCHANGED << mutexVars, slot, move_child >>
  BY DEF task_init, task_uninit, Cleared, Goes
<1>2. s \in Slot /\ s \in Task \ Started
  BY <1>1, TheTable DEF TellInv, ProcInv, Calls, Forking, Making, People
<1>3. state[s] = "created" /\ parent[s] = NoTask
  BY <1>2 DEF Started, TellInv, Orphans
<1>4. /\ state \in [AllTasks -> TaskState] /\ parent \in [Task -> Task \cup {NoTask}]
  BY DEF TellInv, ProcInv, PlaceInv, SchedInv, SchedTypeOK, TableTypeOK
<1> HIDE DEF s
<1>5. state' = state /\ parent' = parent
  BY <1>1, <1>3, <1>4
<1>6. Started' = Started /\ Dead' = Dead /\ WaitingForChild' = WaitingForChild
  BY <1>5 DEF Started, Dead, WaitingForChild
<1>7. pc[a] \notin TablePc /\ to \notin TablePc /\ ~ HasToTell(a) /\ to # "exit_look"
  BY <1>1 DEF TablePc, EntryPc, HasToTell, ExitPc
<1>8. Holding'
  BY <1>1, <1>7, KeepHolds
<1> QED BY <1>1, <1>5, <1>6, <1>7, <1>8, Steady

(* The child of a fork is started: it was in no call, and has no child.    *)
LEMMA StartTells ==
  ASSUME TellInv, ProcInv', NEW a \in Task, fork_start(a)
  PROVE  Told
<1> DEFINE s == slot[a]
<1>1. /\ curr_task = a /\ pc[a] = "fork_start" /\ task_start(s)
      /\ pc' = [pc EXCEPT ![a] = "user", ![s] = "user"]
      /\ parent' = [parent EXCEPT ![s] = a]
      /\ slot' = [slot EXCEPT ![a] = NoSlot]
      /\ UNCHANGED << locked_count, owner, lock_waiters, semVars, move_child >>
  BY DEF fork_start, mutexVars
<1>2. s \in Slot /\ s \in Task \ Started /\ a \in Started \ Dead /\ a \notin Waiting(Table)
  BY <1>1, Actor, TheTable DEF TellInv, ProcInv, Calls, Forking, TableTypeOK
<1> HIDE DEF s
<1>3. /\ \A u \in Task : pc'[u] = IF u \in {a, s} THEN "user" ELSE pc[u]
      /\ \A u \in Task : parent'[u] = IF u = s THEN a ELSE parent[u]
      /\ \A u \in Task : u # a => slot'[u] = slot[u]
  BY <1>1, <1>2 DEF TellInv, ProcInv, TableTypeOK
<1>4. Started' = Started \cup {s} /\ Dead' = Dead
  BY <1>1, <1>2, ChildStep DEF TellInv, ProcInv, mutexVars
<1>5. /\ state' = [state EXCEPT ![s] = "ready"] /\ state \in [AllTasks -> TaskState]
  <2>1. s # Idle
    BY <1>2, SchedAssumption DEF SchedAssumption
  <2>2. state' = [state EXCEPT ![s] = "ready"]
    BY <1>1, <2>1 DEF task_start, Readied
  <2> QED BY <2>2 DEF TellInv, ProcInv, PlaceInv, SchedInv, SchedTypeOK
<1>6. \A u \in Task : state'[u] = IF u = s THEN "ready" ELSE state[u]
  BY <1>2, <1>5 DEF AllTasks
<1>7. pc[s] \in {"user", "zombie"} /\ pc[a] \notin TablePc
  BY <1>1, <1>2 DEF TellInv, Outside, TablePc, EntryPc
<1>8. Waiting(Table)' = Waiting(Table) /\ s \notin Waiting(Table) /\ owner[Table] # s
  BY <1>1, <1>2, <1>7 DEF Waiting, TellInv, Holding, TablePc, EntryPc
<1>9. Holding'
  <2>1. LockConsistent'
    BY <1>1 DEF TellInv, Holding, LockConsistent, Waiting
  <2>2. \A u \in Task : u \notin {a, s} => pc'[u] = pc[u]
    BY <1>3
  <2>3. owner[Table] # a /\ "user" \notin TablePc /\ pc'[a] = "user" /\ pc'[s] = "user"
    BY <1>2, <1>3, <1>7 DEF TellInv, Holding, TablePc, EntryPc
  <2> QED BY <1>1, <1>2, <1>8, <2>1, <2>2, <2>3 DEF TellInv, Holding
<1>10. Outside' /\ Orphans'
  BY <1>2, <1>3, <1>4, TheTable DEF TellInv, Outside, Orphans
<1>11. \A u \in Task : pc[u] = "exit_look" =>
         u \notin {a, s} /\ slot[u] \in Slot /\ slot[u] \in Task /\ slot[u] # s
  <2>1. First # NoTask
    BY TheTable, IpcAssumption DEF IpcAssumption, AllTasks
  <2> QED BY <1>1, <1>2, <1>7, <2>1, TheTable
          DEF TellInv, ProcInv, Calls, Exiting, Adopted, Orphans
<1>12. Adopted'
  BY <1>3, <1>11 DEF TellInv, Adopted
<1>13. \A u \in Task : HasToTell(u) => HasToTell(u)'
  <2>1. ASSUME NEW u \in Task, HasToTell(u) PROVE HasToTell(u)'
    <3>1. u \notin {a, s} /\ pc[u] \in ExitPc
      BY <1>1, <1>7, <2>1 DEF HasToTell, ExitPc
    <3>2. pc'[u] = pc[u] /\ slot'[u] = slot[u] /\ move_child'[u] = move_child[u]
      BY <1>1, <1>3, <3>1
    <3>3. pc[u] = "exit_look" => state'[slot[u]] = state[slot[u]]
      BY <1>6, <1>11
    <3> QED BY <2>1, <3>2, <3>3 DEF HasToTell
  <2> QED BY <2>1
<1>14. ASSUME NEW t \in Task, Overslept(t)' PROVE Overslept(t)
  <2>1. state[t] = "waiting"
    BY <1>6, <1>14 DEF Overslept
  <2>2. Zombies(t)' \subseteq Zombies(t)
    BY <1>3, <1>6, TheTable DEF Zombies
  <2> QED BY <1>13, <1>14, <2>1, <2>2 DEF Overslept
<1> QED BY <1>9, <1>10, <1>12, <1>14 DEF TellInv, Told
------------------------------------------------------------------------------
(* A dispatch changes a state to running or not at all.                    *)
LEMMA DispatchEither ==
  ASSUME NEW ready, NEW states \in [AllTasks -> TaskState], task_dispatch(ready, states)
  PROVE  \A u \in Task : state'[u] \in {states[u], "running"}
BY DEF task_dispatch, AllTasks

(* sys_wait.  What it reaps is a child of its own, and nobody who exits is *)
(* looking at it.                                                          *)
LEMMA ReapTells ==
  ASSUME TellInv, ProcInv', NEW a \in Task, Goes(a, "wait_scan", "wait_found"),
         NEW z \in Zombies(a), Cleared(z),
         UNCHANGED << mutexVars, semVars, slot, move_child >>
  PROVE  Told
<1>1. /\ curr_task = a /\ pc[a] = "wait_scan" /\ pc' = [pc EXCEPT ![a] = "wait_found"]
      /\ parent' = [parent EXCEPT ![z] = NoTask]
      /\ state' = [state EXCEPT ![z] = "created"]
      /\ UNCHANGED << mutexVars, slot, move_child >>
  BY DEF Goes, Cleared
<1>2. z \in Slot /\ z \in Task /\ z \in Dead /\ Slot \subseteq Task
  BY TheTable DEF Zombies, Dead
<1>3. Started' = Started \ {z} /\ Dead' = Dead \ {z}
  BY <1>2, ClearedStep DEF TellInv, ProcInv
<1>4. /\ \A u \in Task : pc'[u] = IF u = a THEN "wait_found" ELSE pc[u]
      /\ \A u \in Task : parent'[u] = IF u = z THEN NoTask ELSE parent[u]
      /\ \A u \in Task : state'[u] = IF u = z THEN "created" ELSE state[u]
  <2>1. state \in [AllTasks -> TaskState] /\ z \in AllTasks /\ Task \subseteq AllTasks
    BY <1>2 DEF TellInv, ProcInv, PlaceInv, SchedInv, SchedTypeOK, AllTasks
  <2> QED BY <1>1, <1>2, <2>1 DEF TellInv, ProcInv, TableTypeOK
<1>5. Holding'
  BY <1>1, KeepHolds DEF TablePc, EntryPc
<1>6. \A u \in Task : pc[u] # "exit_look" /\ pc'[u] # "exit_look"
  BY <1>1, <1>4, Actor DEF TablePc, EntryPc
<1>7. Outside' /\ Orphans' /\ Adopted'
  BY <1>1, <1>2, <1>3, <1>4, <1>6, Actor DEF TellInv, Outside, Orphans, Adopted
<1>8. \A u \in Task : HasToTell(u) => HasToTell(u)'
  BY <1>1, <1>4, <1>6 DEF HasToTell, ExitPc
<1>9. ASSUME NEW t \in Task, Overslept(t)' PROVE Overslept(t)
  <2>1. state[t] = "waiting"
    BY <1>4, <1>9 DEF Overslept
  <2>2. Zombies(t)' \subseteq Zombies(t)
    BY <1>2, <1>4 DEF Zombies
  <2> QED BY <1>8, <1>9, <2>1, <2>2 DEF Overslept
<1> QED BY <1>5, <1>7, <1>9 DEF TellInv, Told

(* sys_wait makes nobody else oversleep.                                   *)
LEMMA WaitTells ==
  ASSUME TellInv, ProcInv', NEW a \in Task, wait(a) \/ sys_wait(a)
  PROVE  Told
<1>1. CASE wait(a) \/ wait_lock(a)
  <2>1. PICK from \in {"user", "wait_lock"} : LockTable(a, from, "wait_scan")
    BY <1>1 DEF wait, wait_lock
  <2>2. UNCHANGED << parent, slot, move_child >> /\ from \notin TablePc \cup ExitPc
    BY <1>1 DEF wait, wait_lock, TablePc, EntryPc, ExitPc
  <2> QED BY <2>1, <2>2, LockTold DEF EntryPc
<1>2. CASE wait_unlock(a)
  <2>1. PICK from \in {"wait_found", "wait_none"}, to \in {"user", "wait_sleep"} : Goes(a, from, to)
    BY <1>2 DEF wait_unlock
  <2>2. /\ mutex_unlock(Table) /\ UNCHANGED << parent, slot, move_child >>
        /\ to \notin TablePc /\ from \notin ExitPc
    BY <1>2 DEF wait_unlock, TablePc, EntryPc, ExitPc
  <2> QED BY <2>1, <2>2, UnlockTold
<1>3. CASE wait_scan(a)
  <2>1. CASE /\ Goes(a, "wait_scan", "wait_found")
             /\ \E z \in Zombies(a) : IsFirst(z, Zombies(a)) /\ Cleared(z)
    BY <1>3, <2>1, ReapTells DEF wait_scan
  <2>2. CASE /\ Goes(a, "wait_scan", "wait_none")
             /\ UNCHANGED << schedVars, named, parent, tss_sel >>
    <3>1. UNCHANGED << ipcVars, parent, slot, move_child >>
      BY <1>3, <2>2 DEF wait_scan, ipcVars
    <3>2. {"wait_scan", "wait_none"} \subseteq TablePc /\ ~ HasToTell(a)
      BY <2>2 DEF TablePc, EntryPc, HasToTell, Goes, ExitPc
    <3> QED BY <2>2, <3>1, <3>2, IdleTold
  <2> QED BY <1>3, <2>1, <2>2 DEF wait_scan
<1>4. CASE wait_sleep(a)
  <2> DEFINE states == [state EXCEPT ![a] = "waiting"]
  <2>1. /\ curr_task = a /\ pc[a] = "wait_sleep" /\ pc' = [pc EXCEPT ![a] = "wait_lock"]
        /\ task_dispatch(task_set_block(ready_list, a), states)
        /\ UNCHANGED << mutexVars, parent, slot, move_child >>
    BY <1>4 DEF wait_sleep, Goes
  <2>2. /\ states \in [AllTasks -> TaskState]
        /\ \A u \in Task : states[u] = IF u = a THEN "waiting" ELSE state[u]
    BY DEF TellInv, ProcInv, PlaceInv, SchedInv, SchedTypeOK, AllTasks, TaskState
  <2> HIDE DEF states
  <2>3. WaitingForChild' \subseteq WaitingForChild \cup {a}
    BY <2>1, <2>2, DispatchEither DEF WaitingForChild
  <2>4. Started' = Started /\ Dead' = Dead
    BY <1>4, WaitSleepStep DEF TellInv, ProcInv
  <2>5. pc[a] \notin TablePc /\ "wait_lock" \notin TablePc /\ ~ HasToTell(a)
    BY <2>1 DEF TablePc, EntryPc, HasToTell, ExitPc
  <2>6. Holding'
    BY <2>1, <2>5, KeepHolds
  <2> QED BY <2>1, <2>3, <2>4, <2>5, <2>6, Steady
<1> QED BY <1>1, <1>2, <1>3, <1>4 DEF sys_wait
------------------------------------------------------------------------------
(* sys_exit.  With a child that it gives to the first task comes the duty  *)
(* to tell it, at the latest at the end.                                   *)
LEMMA AdoptTells ==
  ASSUME TellInv, ProcInv', NEW a \in Task, Goes(a, "exit_adopt", "exit_look"),
         parent[slot[a]] = a, parent' = [parent EXCEPT ![slot[a]] = First],
         UNCHANGED << ipcVars, slot, move_child >>
  PROVE  Told
<1> DEFINE s == slot[a]
<1>1. /\ curr_task = a /\ pc[a] = "exit_adopt" /\ pc' = [pc EXCEPT ![a] = "exit_look"]
      /\ UNCHANGED << mutexVars, slot, move_child >>
  BY DEF Goes, ipcVars
<1>2. state' = state /\ Started' = Started /\ Dead' = Dead
  BY IdleStep DEF ipcVars, schedVars, TellInv, ProcInv, SameGone
<1>3. /\ s \in Slot /\ s \in Task /\ s \in Started /\ parent[s] = a /\ Slot \subseteq Task
      /\ a \in Started \ Dead
  BY <1>1, Actor, TheTable DEF TellInv, ProcInv, Calls, Exiting, Orphans
<1>4. /\ \A u \in Task : pc'[u] = IF u = a THEN "exit_look" ELSE pc[u]
      /\ \A u \in Task : parent'[u] = IF u = s THEN First ELSE parent[u]
  BY <1>1, <1>3, TheTable DEF TellInv, ProcInv, TableTypeOK
<1> HIDE DEF s
<1>5. Holding'
  BY <1>1, KeepHolds DEF TablePc, EntryPc
<1>6. \A u \in Task : u # a => pc[u] # "exit_look"
  BY <1>1, Actor DEF TablePc, EntryPc
<1>7. Outside' /\ Orphans'
  BY <1>2, <1>3, <1>4 DEF TellInv, Outside, Orphans
<1>8. Adopted'
  BY <1>1, <1>3, <1>4, <1>6 DEF s, Adopted
<1>9. \A u \in Task : HasToTell(u) => HasToTell(u)'
  BY <1>1, <1>2, <1>4, <1>6 DEF HasToTell, ExitPc
<1>10. state[s] = "zombie" => HasToTell(a)'
  BY <1>1, <1>2, <1>4 DEF HasToTell, s
<1>11. ASSUME NEW t \in Task, Overslept(t)' PROVE Overslept(t)
  <2>1. state[t] = "waiting"
    BY <1>2, <1>11 DEF Overslept
  <2>2. ~ (t = First /\ state[s] = "zombie")
    BY <1>10, <1>11 DEF Overslept
  <2>3. Zombies(t)' \subseteq Zombies(t)
    BY <1>2, <1>3, <1>4, <2>2 DEF Zombies
  <2> QED BY <1>9, <1>11, <2>1, <2>3 DEF Overslept
<1> QED BY <1>5, <1>7, <1>8, <1>11 DEF TellInv, Told

(* Who is to be woken by an exit is among the woken.                       *)
LEMMA WokenAll ==
  ASSUME NEW t \in Task, parent[t] \in Task
  PROVE  /\ WakesFirst(t) => First \in ToSet(Woken(t))
         /\ WakesParent(t) => parent[t] \in ToSet(Woken(t))
<1> DEFINE a == IF WakesFirst(t) THEN <<First>> ELSE <<>>
           b == IF WakesParent(t) THEN <<parent[t]>> ELSE <<>>
<1>1. /\ a \in Seq(Task)
      /\ ToSet(a) = IF WakesFirst(t) THEN {First} ELSE {}
  BY TheTable DEF ToSet
<1>2. /\ b \in Seq(Task)
      /\ ToSet(b) = IF WakesParent(t) THEN {parent[t]} ELSE {}
  BY DEF ToSet
<1>3. Woken(t) = a \o b
  BY DEF Woken
<1> HIDE DEF a, b
<1> QED BY <1>1, <1>2, <1>3, Joined

(* A process that becomes a zombie wakes the parent that waits.            *)
LEMMA FinalTells ==
  ASSUME TellInv, ProcInv', NEW a \in Task, exit_final(a)
  PROVE  Told
<1> DEFINE states == [u \in AllTasks |-> IF u = a THEN "zombie"
                                         ELSE IF u \in ToSet(Woken(a)) THEN "ready" ELSE state[u]]
<1>1. /\ curr_task = a /\ pc[a] = "exit_final" /\ pc' = [pc EXCEPT ![a] = "zombie"]
      /\ task_dispatch(task_set_block(ready_list \o Woken(a), a), states)
      /\ move_child' = [move_child EXCEPT ![a] = FALSE]
      /\ UNCHANGED << mutexVars, parent, slot >>
  BY DEF exit_final, Goes, Woken
<1>2. parent[a] \in Task
  <2>1. a \in Slot \cap Started
    BY <1>1, Runner DEF TellInv, Exiting, ExitPc
  <2> QED BY <2>1 DEF TellInv, ProcInv, People, Started
<1>3. Started' = Started /\ Dead' = Dead \cup {a}
  BY <1>2, ExitFinalStep DEF TellInv, ProcInv
<1>4. /\ states \in [AllTasks -> TaskState]
      /\ \A u \in Task : states[u] = IF u = a THEN "zombie"
                                     ELSE IF u \in ToSet(Woken(a)) THEN "ready" ELSE state[u]
  BY DEF TellInv, ProcInv, PlaceInv, SchedInv, SchedTypeOK, AllTasks, TaskState
<1> HIDE DEF states
<1>5. \A u \in Task : state'[u] = "waiting" => state[u] = "waiting" /\ u \notin ToSet(Woken(a))
  BY <1>1, <1>4, DispatchEither
<1>6. /\ \A u \in Task : pc'[u] = IF u = a THEN "zombie" ELSE pc[u]
      /\ \A u \in Task : u # a => move_child'[u] = move_child[u]
      /\ a \in Started \ Dead /\ First \in Task /\ Slot \subseteq Task
  BY <1>1, Actor, TheTable DEF TellInv, ProcInv, TableTypeOK
<1>7. Holding'
  BY <1>1, KeepHolds DEF TablePc, EntryPc
<1>8. Outside' /\ Orphans' /\ Adopted'
  BY <1>1, <1>3, <1>6 DEF TellInv, Outside, Orphans, Adopted
<1>9. \A u \in Task : state'[u] = "zombie" <=> u = a \/ state[u] = "zombie"
  BY <1>3 DEF Dead
<1>10. \A u \in Task : u # a /\ HasToTell(u) => HasToTell(u)'
  <2>1. \A u \in Task : pc[u] = "exit_look" => slot[u] \in Task
    BY <1>6 DEF TellInv, ProcInv, Calls, Exiting
  <2> QED BY <1>1, <1>6, <1>9, <2>1 DEF HasToTell
<1>11. ASSUME NEW t \in Task, t # a, Overslept(t)' PROVE Overslept(t)
  <2>1. state[t] = "waiting" /\ t \notin ToSet(Woken(a))
    BY <1>5, <1>11 DEF Overslept
  <2>2. parent[a] # t
    BY <1>2, <2>1, WokenAll DEF WakesParent
  <2>3. Zombies(t)' \subseteq Zombies(t)
    BY <1>1, <1>6, <1>9, <2>2 DEF Zombies
  <2>4. t = First => ~ HasToTell(a)
    BY <1>1, <1>2, <2>1, <2>2, WokenAll DEF WakesFirst, HasToTell
  <2> QED BY <1>10, <1>11, <2>1, <2>3, <2>4 DEF Overslept
<1> QED BY <1>1, <1>7, <1>8, <1>11 DEF TellInv, Told

(* Going on to the next slot tells nobody less.                            *)
LEMMA NextSlotTells ==
  ASSUME TellInv, ProcInv', NEW a \in Task, NEW from \in {"exit_adopt", "exit_look"},
         NextSlot(a, from), UNCHANGED << ipcVars, parent >>,
         \A u \in Task : u # a => move_child'[u] = move_child[u],
         HasToTell(a) => move_child'[a]
  PROVE  Told
<1>1. PICK to \in {"exit_unlock", "exit_adopt"} : Goes(a, from, to)
  BY DEF NextSlot
<1>2. \A u \in Task : u # a => slot'[u] = slot[u]
  BY DEF NextSlot, TellInv, ProcInv, TableTypeOK
<1>3. from \in TablePc /\ to \in TablePc /\ to \in ExitPc /\ to # "exit_look"
  BY DEF TablePc, EntryPc, ExitPc
<1> QED BY <1>1, <1>2, <1>3, IdleTold

(* sys_exit makes nobody else oversleep.                                   *)
LEMMA ExitTells ==
  ASSUME TellInv, ProcInv', NEW a \in Task, exit(a) \/ sys_exit(a)
  PROVE  Told
<1>1. slot \in [Task -> 0..TaskNr] /\ move_child \in [Task -> BOOLEAN]
  BY DEF TellInv, ProcInv, TableTypeOK
<1>2. CASE exit(a)
  <2>1. /\ LockTable(a, "user", "exit_adopt") /\ UNCHANGED parent
        /\ \A u \in Task : u # a => slot'[u] = slot[u] /\ move_child'[u] = move_child[u]
    BY <1>1, <1>2 DEF exit
  <2> QED BY <2>1, LockTold DEF TablePc, EntryPc, ExitPc
<1>3. CASE exit_adopt(a)
  <2>1. pc[a] = "exit_adopt" /\ UNCHANGED << ipcVars, move_child >>
    BY <1>3 DEF exit_adopt
  <2>2. HasToTell(a) => move_child'[a]
    BY <2>1 DEF HasToTell
  <2>3. CASE /\ parent[slot[a]] = a /\ Goes(a, "exit_adopt", "exit_look")
             /\ parent' = [parent EXCEPT ![slot[a]] = First] /\ UNCHANGED slot
    BY <2>1, <2>3, AdoptTells
  <2>4. CASE NextSlot(a, "exit_adopt") /\ UNCHANGED parent
    BY <2>1, <2>2, <2>4, NextSlotTells
  <2> QED BY <1>3, <2>3, <2>4 DEF exit_adopt
<1>4. CASE exit_look(a)
  <2>1. /\ pc[a] = "exit_look" /\ NextSlot(a, "exit_look") /\ UNCHANGED << ipcVars, parent >>
        /\ move_child' = [move_child EXCEPT ![a] = @ \/ state[slot[a]] = "zombie"]
    BY <1>4 DEF exit_look
  <2>2. /\ \A u \in Task : u # a => move_child'[u] = move_child[u]
        /\ HasToTell(a) => move_child'[a]
    BY <1>1, <2>1 DEF HasToTell
  <2> QED BY <2>1, <2>2, NextSlotTells
<1>5. CASE exit_unlock(a)
  <2>1. /\ Goes(a, "exit_unlock", "exit_final") /\ mutex_unlock(Table)
        /\ UNCHANGED << parent, slot, move_child >>
    BY <1>5 DEF exit_unlock
  <2>2. "exit_final" \notin TablePc /\ "exit_final" \in ExitPc
    BY DEF TablePc, EntryPc, ExitPc
  <2> QED BY <2>1, <2>2, UnlockTold
<1> QED BY <1>2, <1>3, <1>4, <1>5, FinalTells DEF sys_exit
------------------------------------------------------------------------------
(* The clock wakes nobody who waits for a child. *)
LEMMA CalmTells ==
  ASSUME TellInv, ProcInv', Tick \/ UNCHANGED allVars
  PROVE  Told
<1>1. /\ UNCHANGED << named, parent, tss_sel, gdt, pc, slot, sel, move_child >>
      /\ UNCHANGED << locked_count, owner, lock_waiters >>
      /\ SameGone /\ Started' = Started
  <2>1. CASE Tick
    BY <2>1, ClockStep DEF Tick, Clock, procVars, mutexVars, TellInv, ProcInv
  <2>2. CASE UNCHANGED allVars
    BY <2>2, IdleStep DEF allVars, ipcVars, procVars, mutexVars, TellInv, ProcInv
  <2> QED BY <2>1, <2>2
<1>2. Holding'
  BY <1>1 DEF TellInv, Holding, LockConsistent, Waiting
<1>3. Outside' /\ Orphans' /\ Adopted'
  BY <1>1 DEF TellInv, Outside, Orphans, Adopted, SameGone
<1>4. /\ \A u \in Task : state'[u] = "zombie" <=> state[u] = "zombie"
      /\ \A u \in Task : state'[u] = "waiting" <=> state[u] = "waiting"
      /\ Slot \subseteq Task
  BY <1>1, TheTable DEF SameGone, Dead, WaitingForChild
<1>5. \A u \in Task : HasToTell(u) => HasToTell(u)'
  <2>1. \A u \in Task : pc[u] = "exit_look" => slot[u] \in Task
    BY <1>4 DEF TellInv, ProcInv, Calls, Exiting
  <2> QED BY <1>1, <1>4, <2>1 DEF HasToTell
<1>6. ASSUME NEW t \in Task, Overslept(t)' PROVE Overslept(t)
  <2>1. Zombies(t)' \subseteq Zombies(t)
    BY <1>1, <1>4 DEF Zombies
  <2> QED BY <1>4, <1>5, <1>6, <2>1 DEF Overslept
<1> QED BY <1>2, <1>3, <1>6 DEF TellInv, Told

(* Nobody has to be told at the start.                                     *)
LEMMA TellInit == Init => TellInv
<1> SUFFICES ASSUME Init PROVE TellInv
  OBVIOUS
<1>1. ProcInv /\ IpcInit
  BY ProcInit DEF Init
<1>2. /\ Started \subseteq {First} /\ First \notin Slot /\ Mutex = {Table} /\ NoTask \notin Task
      /\ Slot \subseteq Task
  BY <1>1, TheTable, IpcAssumption
     DEF IpcAssumption, IpcInit, SchedInit, Started, AllTasks
<1>3. locked_count[Table] = 0 /\ owner[Table] = NoTask /\ lock_waiters[Table] = <<>>
      /\ Waiting(Table) = {}
  BY <1>1, <1>2 DEF IpcInit, Waiting, ToSet
<1>4. LockConsistent
  BY <1>2, <1>3 DEF LockConsistent
<1>5. Holding
  BY <1>2, <1>3, <1>4 DEF Init, Holding, TablePc, EntryPc
<1>6. Outside /\ Orphans /\ Adopted
  BY <1>2 DEF Init, Outside, Orphans, Adopted
<1> QED BY <1>1, <1>5, <1>6 DEF TellInv

(* Every step keeps the invariant, and tells who has to be told.           *)
LEMMA TellStep ==
  ASSUME TellInv, OwnSlot, [Next]_allVars
  PROVE  Told
<1>1. ProcInv'
  BY ProcStep DEF TellInv, Kept
<1>2. ASSUME NEW a \in Task, sys_fork(a) \/ fork(a) PROVE Told
  BY <1>1, <1>2, ForkTells, SlotTells, StartTells DEF sys_fork
<1>3. ASSUME NEW a \in Task, sys_wait(a) \/ wait(a) PROVE Told
  BY <1>1, <1>3, WaitTells
<1>4. ASSUME NEW a \in Task, sys_exit(a) \/ exit(a) PROVE Told
  BY <1>1, <1>4, ExitTells
<1>5. CASE Tick \/ UNCHANGED allVars
  BY <1>1, <1>5, CalmTells
<1> QED BY <1>2, <1>3, <1>4, <1>5 DEF Next, Proceeds
------------------------------------------------------------------------------
(* The lock of the table is taken and let go of in pairs, and the calls    *)
(* that need it have it: TellInv holds throughout.                         *)
THEOREM TellInvariant == Spec /\ []OwnSlot => []TellInv
<1>1. Init => TellInv
  BY TellInit
<1>2. TellInv /\ OwnSlot /\ [Next]_allVars => TellInv'
  BY TellStep DEF Told
<1> QED BY <1>1, <1>2, PTL DEF Spec

(* One task at a time is in the part of a call that has the table.         *)
THEOREM OneInTheTable == Spec /\ []OwnSlot => []OneInside
<1>1. TellInv => OneInside
  BY DEF TellInv, Holding, OneInside, Inside
<1> QED BY <1>1, TellInvariant, PTL

(* No step of anybody else leaves a parent asleep next to a zombie.        *)
THEOREM EveryParentIsTold == Spec /\ []OwnSlot => ParentIsTold
<1> DEFINE A == \A t \in Task : ~ Overslept(t) /\ Overslept(t)' => curr_task = t
<1>1. TellInv /\ OwnSlot /\ [Next]_allVars => [A]_allVars
  BY TellStep DEF Told
<1> HIDE DEF A
<1>2. Spec /\ []OwnSlot => [][A]_allVars
  BY <1>1, TellInvariant, PTL DEF Spec
<1> QED BY <1>2 DEF A, ParentIsTold
==============================================================================
