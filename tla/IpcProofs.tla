------------------------------ MODULE IpcProofs ------------------------------
(***************************************************************************)
(* The invariants of the mutex and the semaphore, and that they keep the   *)
(* promise of Blocking, for every set of tasks, mutexes and semaphores.    *)
(***************************************************************************)
EXTENDS Ipc, SchedProofs

(* The inductive invariant. *)
IpcInv ==
  /\ IpcTypeOK
  /\ SchedInv
  /\ EveryTaskInOnePlace
  /\ LockConsistent
  /\ NoPermitWhileWaiting

------------------------------------------------------------------------------
(* What blocking and unblocking do to the scheduler. *)
LEMMA BlockStep ==
  ASSUME SchedInv, curr_task # Idle, BlockCaller
  PROVE  SchedInv' /\ Active' = Active \ {curr_task} /\ Started' = Started
<1> DEFINE rest == Tail(ready_list)
<1>1. /\ curr_task \in Task
      /\ curr_task \in ToSet(ready_list)
      /\ task_set_block(ready_list, curr_task) = rest
      /\ rest \in Seq(Task)
      /\ ToSet(rest) = ToSet(ready_list) \ {curr_task}
      /\ NoDuplicate(rest)
  BY BlockCurrent
<1>2. task_dispatch(rest, state) /\ UNCHANGED << sleep_list, slice_ticks, sleep_ticks >>
  BY <1>1 DEF BlockCaller
<1> HIDE DEF rest
<1>3. SchedTypeOK /\ state \in [AllTasks -> TaskState]
  BY DEF SchedInv, SchedTypeOK
<1>4. \A t \in ToSet(rest) : state[t] # "created"
  BY <1>1 DEF SchedInv, ListsApart, Active, Started
<1>5. /\ ready_list' = rest
      /\ curr_task' \in AllTasks
      /\ state' \in [AllTasks -> TaskState]
      /\ CurrIsHead'
      /\ \A t \in Task : t \notin ToSet(rest) => state'[t] = state[t]
      /\ Started' = { t \in Task : state[t] # "created" }
  BY <1>1, <1>2, <1>3, <1>4, Dispatch
<1>6. Started' = Started
  BY <1>5 DEF Started
<1>7. Sleeping' = Sleeping /\ Active' = Active \ {curr_task}
  BY <1>1, <1>2, <1>5 DEF Sleeping, Active, SchedInv, ListsApart
<1>8. SchedTypeOK'
  BY <1>1, <1>2, <1>3, <1>5 DEF SchedTypeOK
<1>9. ListsApart'
  BY <1>1, <1>2, <1>5, <1>6, <1>7 DEF SchedInv, ListsApart
<1>10. SleepersCount'
  <2>1. \A t \in Sleeping : t \in Task /\ t \notin ToSet(rest)
    BY <1>1 DEF SchedInv, ListsApart, Active, Started
  <2> QED BY <1>2, <1>5, <1>7, <2>1 DEF SchedInv, SleepersCount
<1> QED BY <1>5, <1>6, <1>7, <1>8, <1>9, <1>10 DEF SchedInv

(* A task that was in a wait list is made ready: it is started already, so *)
(* nobody else's place changes.                                            *)
LEMMA UnblockStep ==
  ASSUME SchedInv, NEW t \in Started, t \notin Active, Unblock(t)
  PROVE  SchedInv' /\ Active' = Active \cup {t} /\ Started' = Started
<1> DEFINE ready == Append(ready_list, t)
           states == [state EXCEPT ![t] = "ready"]
<1>1. t \in Task /\ t # Idle /\ t \in AllTasks
  BY SchedAssumption DEF SchedAssumption, Started, AllTasks
<1>2. task_dispatch(ready, states) /\ UNCHANGED << sleep_list, slice_ticks, sleep_ticks >>
  BY <1>1 DEF Unblock, task_set_ready, Readied
<1>3. /\ SchedTypeOK
      /\ state \in [AllTasks -> TaskState]
      /\ ready_list \in Seq(Task)
      /\ NoDuplicate(ready_list)
      /\ t \notin ToSet(ready_list) /\ t \notin Sleeping
  BY DEF SchedInv, SchedTypeOK, ListsApart, Active
<1>4. /\ ready \in Seq(Task)
      /\ ToSet(ready) = ToSet(ready_list) \cup {t}
      /\ NoDuplicate(ready)
  BY <1>1, <1>3, InsertLast
<1>5. /\ states \in [AllTasks -> TaskState]
      /\ \A u \in Task : states[u] # "created" <=> u \in Started
      /\ \A u \in Task : u # t => states[u] = state[u]
  BY <1>1, <1>3 DEF Started, AllTasks, TaskState
<1> HIDE DEF ready, states
<1>6. \A u \in ToSet(ready) : states[u] # "created"
  BY <1>1, <1>4, <1>5 DEF SchedInv, ListsApart, Active, Started
<1>7. /\ ready_list' = ready
      /\ curr_task' \in AllTasks
      /\ state' \in [AllTasks -> TaskState]
      /\ CurrIsHead'
      /\ \A u \in Task : u \notin ToSet(ready) => state'[u] = states[u]
      /\ Started' = { u \in Task : states[u] # "created" }
  BY <1>2, <1>3, <1>4, <1>5, <1>6, Dispatch
<1>8. Started' = Started
  BY <1>5, <1>7 DEF Started
<1>9. Sleeping' = Sleeping /\ Active' = Active \cup {t}
  BY <1>2, <1>4, <1>7 DEF Sleeping, Active
<1>10. SchedTypeOK'
  BY <1>2, <1>3, <1>4, <1>7 DEF SchedTypeOK
<1>11. ListsApart'
  BY <1>2, <1>3, <1>4, <1>7, <1>8, <1>9 DEF SchedInv, ListsApart
<1>12. SleepersCount'
  <2>1. \A u \in Sleeping : u \in Task /\ u \notin ToSet(ready) /\ u # t
    BY <1>3, <1>4 DEF SchedInv, ListsApart, Active, Started
  <2> QED BY <1>2, <1>5, <1>7, <1>9, <2>1 DEF SchedInv, SleepersCount
<1> QED BY <1>7, <1>8, <1>9, <1>10, <1>11, <1>12 DEF SchedInv

(* A step of the scheduler lists the tasks it starts and loses nobody. *)
LEMMA SchedStep ==
  ASSUME SchedInv, SchedNext
  PROVE  /\ SchedInv'
         /\ \/ Active' = Active /\ Started' = Started
            \/ \E t \in Task \ Started :
                 Active' = Active \cup {t} /\ Started' = Started \cup {t}
<1>1. CASE task_time_tick
  BY <1>1, TickStep
<1>2. ASSUME NEW t \in Task, task_start(t)
      PROVE  SchedInv' /\ \E u \in Task \ Started :
                            Active' = Active \cup {u} /\ Started' = Started \cup {u}
  <2>1. t \notin Started
    BY <1>2 DEF task_start, Started
  <2> QED BY <1>2, <2>1, StartStep
<1>3. ASSUME NEW ms \in Ms, msleep(ms) PROVE SchedInv' /\ Active' = Active /\ Started' = Started
  BY <1>3, MSleepStep
<1>4. CASE sys_yield
  BY <1>4, YieldStep
<1> QED BY <1>1, <1>2, <1>3, <1>4 DEF SchedNext
------------------------------------------------------------------------------
(* A task in a wait list is parked.                                        *)
LEMMA InParked ==
  \A t : t \in Parked <=> \/ \E m \in Mutex : t \in Waiting(m)
                          \/ \E s \in Sem : t \in Pending(s)
BY DEF Parked

(* What a wait list's insertion and removal do to who is parked. *)
LEMMA LockWaitersGrow ==
  ASSUME IpcTypeOK, WaitListsApart, NEW m \in Mutex, NEW t \in Task \ Parked,
         lock_waiters' = [lock_waiters EXCEPT ![m] = Append(@, t)],
         sem_waiters' = sem_waiters
  PROVE  /\ lock_waiters' \in [Mutex -> Seq(Task)]
         /\ WaitListsApart'
         /\ Parked' = Parked \cup {t}
         /\ Waiting(m)' = Waiting(m) \cup {t}
         /\ \A n \in Mutex \ {m} : lock_waiters'[n] = lock_waiters[n]
         /\ lock_waiters'[m] # <<>>
<1>1. /\ lock_waiters \in [Mutex -> Seq(Task)]
      /\ lock_waiters'[m] = Append(lock_waiters[m], t)
      /\ \A n \in Mutex \ {m} : lock_waiters'[n] = lock_waiters[n]
      /\ lock_waiters[m] \in Seq(Task)
      /\ t \notin Waiting(m)
  BY InParked DEF IpcTypeOK
<1>2. /\ lock_waiters'[m] \in Seq(Task)
      /\ Waiting(m)' = Waiting(m) \cup {t}
      /\ NoDuplicate(lock_waiters'[m])
  BY <1>1, InsertLast DEF Waiting, WaitListsApart
<1>3. lock_waiters'[m] # <<>>
  BY <1>1, AppendProperties
<1>4. lock_waiters' \in [Mutex -> Seq(Task)]
  BY <1>1, <1>2
<1>5. /\ \A n \in Mutex \ {m} : Waiting(n)' = Waiting(n)
      /\ \A s \in Sem : Pending(s)' = Pending(s)
  BY <1>1 DEF Waiting, Pending
<1>6. Parked' = Parked \cup {t}
  <2>1. \A u : u \in Parked' <=> \/ \E n \in Mutex : u \in Waiting(n)'
                                \/ \E s \in Sem : u \in Pending(s)'
    BY DEF Parked
  <2>2. \A u : u \in Parked' <=> u \in Parked \/ u = t
    BY <1>2, <1>5, <2>1, InParked
  <2> QED BY <2>2
<1>7. /\ \A n \in Mutex : t \notin Waiting(n)
      /\ \A s \in Sem : t \notin Pending(s)
  BY InParked
<1>8. WaitListsApart'
  <2>1. \A n \in Mutex : NoDuplicate(lock_waiters'[n])
    BY <1>1, <1>2 DEF WaitListsApart
  <2>2. \A s \in Sem : NoDuplicate(sem_waiters'[s])
    BY DEF WaitListsApart
  <2>3. \A n, o \in Mutex : n # o => Waiting(n)' \cap Waiting(o)' = {}
    BY <1>2, <1>5, <1>7 DEF WaitListsApart
  <2>4. \A r, s \in Sem : r # s => Pending(r)' \cap Pending(s)' = {}
    BY <1>5 DEF WaitListsApart
  <2>5. \A n \in Mutex, s \in Sem : Waiting(n)' \cap Pending(s)' = {}
    BY <1>2, <1>5, <1>7 DEF WaitListsApart
  <2> QED BY <2>1, <2>2, <2>3, <2>4, <2>5 DEF WaitListsApart
<1> QED BY <1>1, <1>2, <1>3, <1>4, <1>6, <1>8

(* The first waiter of a lock leaves its list: he is parked no more.       *)
LEMMA LockWaitersShrink ==
  ASSUME IpcTypeOK, WaitListsApart, NEW m \in Mutex, lock_waiters[m] # <<>>,
         lock_waiters' = [lock_waiters EXCEPT ![m] = Tail(@)],
         sem_waiters' = sem_waiters
  PROVE  LET t == Head(lock_waiters[m])
         IN  /\ t \in Task /\ t \in Parked
             /\ lock_waiters' \in [Mutex -> Seq(Task)]
             /\ WaitListsApart'
             /\ Parked' = Parked \ {t}
             /\ Waiting(m)' = Waiting(m) \ {t}
             /\ \A n \in Mutex \ {m} : lock_waiters'[n] = lock_waiters[n]
<1> DEFINE t == Head(lock_waiters[m])
<1>1. /\ lock_waiters \in [Mutex -> Seq(Task)]
      /\ lock_waiters'[m] = Tail(lock_waiters[m])
      /\ \A n \in Mutex \ {m} : lock_waiters'[n] = lock_waiters[n]
      /\ lock_waiters[m] \in Seq(Task)
      /\ NoDuplicate(lock_waiters[m])
  BY DEF IpcTypeOK, WaitListsApart
<1>2. /\ t \in Task
      /\ t \in Waiting(m)
      /\ lock_waiters'[m] \in Seq(Task)
      /\ Waiting(m)' = Waiting(m) \ {t}
      /\ NoDuplicate(lock_waiters'[m])
  BY <1>1, RemoveHead DEF Waiting
<1> HIDE DEF t
<1>3. lock_waiters' \in [Mutex -> Seq(Task)]
  BY <1>1, <1>2
<1>4. /\ \A n \in Mutex \ {m} : Waiting(n)' = Waiting(n)
      /\ \A s \in Sem : Pending(s)' = Pending(s)
  BY <1>1 DEF Waiting, Pending
<1>5. /\ \A n \in Mutex \ {m} : t \notin Waiting(n)
      /\ \A s \in Sem : t \notin Pending(s)
  BY <1>2 DEF WaitListsApart
<1>6. Parked' = Parked \ {t}
  <2>1. \A u : u \in Parked' <=> \/ \E n \in Mutex : u \in Waiting(n)'
                                \/ \E s \in Sem : u \in Pending(s)'
    BY DEF Parked
  <2>2. \A u : u \in Parked' <=> u \in Parked /\ u # t
    BY <1>2, <1>4, <1>5, <2>1, InParked
  <2> QED BY <2>2
<1>7. WaitListsApart'
  <2>1. \A n \in Mutex : NoDuplicate(lock_waiters'[n])
    BY <1>1, <1>2 DEF WaitListsApart
  <2>2. \A s \in Sem : NoDuplicate(sem_waiters'[s])
    BY DEF WaitListsApart
  <2>3. \A n, o \in Mutex : n # o => Waiting(n)' \cap Waiting(o)' = {}
    BY <1>2, <1>4 DEF WaitListsApart
  <2>4. \A r, s \in Sem : r # s => Pending(r)' \cap Pending(s)' = {}
    BY <1>4 DEF WaitListsApart
  <2>5. \A n \in Mutex, s \in Sem : Waiting(n)' \cap Pending(s)' = {}
    BY <1>2, <1>4 DEF WaitListsApart
  <2> QED BY <2>1, <2>2, <2>3, <2>4, <2>5 DEF WaitListsApart
<1>8. t \in Parked
  BY <1>2 DEF Parked
<1> QED BY <1>1, <1>2, <1>3, <1>6, <1>7, <1>8 DEF t

(* The running task enters the wait list of a semaphore.                   *)
LEMMA SemWaitersGrow ==
  ASSUME IpcTypeOK, WaitListsApart, NEW s \in Sem, NEW t \in Task \ Parked,
         sem_waiters' = [sem_waiters EXCEPT ![s] = Append(@, t)],
         lock_waiters' = lock_waiters
  PROVE  /\ sem_waiters' \in [Sem -> Seq(Task)]
         /\ WaitListsApart'
         /\ Parked' = Parked \cup {t}
         /\ Pending(s)' = Pending(s) \cup {t}
         /\ \A r \in Sem \ {s} : sem_waiters'[r] = sem_waiters[r]
         /\ sem_waiters'[s] # <<>>
<1>1. /\ sem_waiters \in [Sem -> Seq(Task)]
      /\ sem_waiters'[s] = Append(sem_waiters[s], t)
      /\ \A r \in Sem \ {s} : sem_waiters'[r] = sem_waiters[r]
      /\ sem_waiters[s] \in Seq(Task)
      /\ t \notin Pending(s)
  BY InParked DEF IpcTypeOK
<1>2. /\ sem_waiters'[s] \in Seq(Task)
      /\ Pending(s)' = Pending(s) \cup {t}
      /\ NoDuplicate(sem_waiters'[s])
  BY <1>1, InsertLast DEF Pending, WaitListsApart
<1>3. sem_waiters'[s] # <<>>
  BY <1>1, AppendProperties
<1>4. sem_waiters' \in [Sem -> Seq(Task)]
  BY <1>1, <1>2
<1>5. /\ \A r \in Sem \ {s} : Pending(r)' = Pending(r)
      /\ \A m \in Mutex : Waiting(m)' = Waiting(m)
  BY <1>1 DEF Pending, Waiting
<1>6. Parked' = Parked \cup {t}
  <2>1. \A u : u \in Parked' <=> \/ \E r \in Sem : u \in Pending(r)'
                                \/ \E m \in Mutex : u \in Waiting(m)'
    BY DEF Parked
  <2>2. \A u : u \in Parked' <=> u \in Parked \/ u = t
    BY <1>2, <1>5, <2>1, InParked
  <2> QED BY <2>2
<1>7. /\ \A r \in Sem : t \notin Pending(r)
      /\ \A m \in Mutex : t \notin Waiting(m)
  BY InParked
<1>8. WaitListsApart'
  <2>1. \A r \in Sem : NoDuplicate(sem_waiters'[r])
    BY <1>1, <1>2 DEF WaitListsApart
  <2>2. \A m \in Mutex : NoDuplicate(lock_waiters'[m])
    BY DEF WaitListsApart
  <2>3. \A r, o \in Sem : r # o => Pending(r)' \cap Pending(o)' = {}
    BY <1>2, <1>5, <1>7 DEF WaitListsApart
  <2>4. \A m, n \in Mutex : m # n => Waiting(m)' \cap Waiting(n)' = {}
    BY <1>5 DEF WaitListsApart
  <2>5. \A r \in Sem, m \in Mutex : Pending(r)' \cap Waiting(m)' = {}
    BY <1>2, <1>5, <1>7 DEF WaitListsApart
  <2> QED BY <2>1, <2>2, <2>3, <2>4, <2>5 DEF WaitListsApart
<1> QED BY <1>1, <1>2, <1>3, <1>4, <1>6, <1>8

(* The first waiter of a semaphore leaves its list.                        *)
LEMMA SemWaitersShrink ==
  ASSUME IpcTypeOK, WaitListsApart, NEW s \in Sem, sem_waiters[s] # <<>>,
         sem_waiters' = [sem_waiters EXCEPT ![s] = Tail(@)],
         lock_waiters' = lock_waiters
  PROVE  LET t == Head(sem_waiters[s])
         IN  /\ t \in Task /\ t \in Parked
             /\ sem_waiters' \in [Sem -> Seq(Task)]
             /\ WaitListsApart'
             /\ Parked' = Parked \ {t}
             /\ Pending(s)' = Pending(s) \ {t}
             /\ \A r \in Sem \ {s} : sem_waiters'[r] = sem_waiters[r]
<1> DEFINE t == Head(sem_waiters[s])
<1>1. /\ sem_waiters \in [Sem -> Seq(Task)]
      /\ sem_waiters'[s] = Tail(sem_waiters[s])
      /\ \A r \in Sem \ {s} : sem_waiters'[r] = sem_waiters[r]
      /\ sem_waiters[s] \in Seq(Task)
      /\ NoDuplicate(sem_waiters[s])
  BY DEF IpcTypeOK, WaitListsApart
<1>2. /\ t \in Task
      /\ t \in Pending(s)
      /\ sem_waiters'[s] \in Seq(Task)
      /\ Pending(s)' = Pending(s) \ {t}
      /\ NoDuplicate(sem_waiters'[s])
  BY <1>1, RemoveHead DEF Pending
<1> HIDE DEF t
<1>3. sem_waiters' \in [Sem -> Seq(Task)]
  BY <1>1, <1>2
<1>4. /\ \A r \in Sem \ {s} : Pending(r)' = Pending(r)
      /\ \A m \in Mutex : Waiting(m)' = Waiting(m)
  BY <1>1 DEF Pending, Waiting
<1>5. /\ \A r \in Sem \ {s} : t \notin Pending(r)
      /\ \A m \in Mutex : t \notin Waiting(m)
  BY <1>2 DEF WaitListsApart
<1>6. Parked' = Parked \ {t}
  <2>1. \A u : u \in Parked' <=> \/ \E r \in Sem : u \in Pending(r)'
                                \/ \E m \in Mutex : u \in Waiting(m)'
    BY DEF Parked
  <2>2. \A u : u \in Parked' <=> u \in Parked /\ u # t
    BY <1>2, <1>4, <1>5, <2>1, InParked
  <2> QED BY <2>2
<1>7. WaitListsApart'
  <2>1. \A r \in Sem : NoDuplicate(sem_waiters'[r])
    BY <1>1, <1>2 DEF WaitListsApart
  <2>2. \A m \in Mutex : NoDuplicate(lock_waiters'[m])
    BY DEF WaitListsApart
  <2>3. \A r, o \in Sem : r # o => Pending(r)' \cap Pending(o)' = {}
    BY <1>2, <1>4 DEF WaitListsApart
  <2>4. \A m, n \in Mutex : m # n => Waiting(m)' \cap Waiting(n)' = {}
    BY <1>4 DEF WaitListsApart
  <2>5. \A r \in Sem, m \in Mutex : Pending(r)' \cap Waiting(m)' = {}
    BY <1>2, <1>4 DEF WaitListsApart
  <2> QED BY <2>1, <2>2, <2>3, <2>4, <2>5 DEF WaitListsApart
<1>8. t \in Parked
  BY <1>2 DEF Parked
<1> QED BY <1>1, <1>2, <1>3, <1>6, <1>7, <1>8 DEF t
------------------------------------------------------------------------------
(***************************************************************************)
(* Who is where, in one fact: the initial state, and then one lemma per    *)
(* kind of step.                                                           *)
(***************************************************************************)
LEMMA RunningIsAwake ==
  ASSUME IpcInv, curr_task # Idle
  PROVE  /\ curr_task \in Task \ Parked
         /\ curr_task \in Active
<1>1. curr_task \in Task /\ curr_task \in ToSet(ready_list)
  BY BlockCurrent DEF IpcInv
<1> QED BY <1>1 DEF IpcInv, EveryTaskInOnePlace, OnePlaceOr, Active

(* The invariant holds after mutex_init and sem_init.                      *)
LEMMA InvInit == IpcInit => IpcInv
<1> SUFFICES ASSUME IpcInit PROVE IpcInv
  OBVIOUS
<1>1. SchedInv /\ Active = Started
  BY CoreInit DEF IpcInit, Core
<1>2. /\ \A m \in Mutex : lock_waiters[m] = <<>> /\ Waiting(m) = {}
      /\ \A s \in Sem : sem_waiters[s] = <<>> /\ Pending(s) = {}
  BY DEF IpcInit, Waiting, Pending, ToSet
<1>3. Parked = {}
  BY <1>2 DEF Parked
<1>4. IpcTypeOK
  <2>1. \A S : <<>> \in Seq(S)
    BY EmptySeq
  <2> QED BY <1>1, <2>1, IpcAssumption DEF IpcInit, IpcTypeOK, SchedInv, IpcAssumption
<1>5. EveryTaskInOnePlace
  <2>1. WaitListsApart
    BY <1>2 DEF WaitListsApart, NoDuplicate
  <2> QED BY <1>1, <1>3, <2>1 DEF EveryTaskInOnePlace, OnePlaceOr, SchedInv
<1>6. LockConsistent
  BY <1>2, IpcAssumption DEF IpcInit, LockConsistent, IpcAssumption
<1>7. NoPermitWhileWaiting
  BY <1>2 DEF NoPermitWhileWaiting
<1> QED BY <1>1, <1>4, <1>5, <1>6, <1>7 DEF IpcInv

(* The scheduler's own handlers keep it: they touch no wait list.          *)
LEMMA InvSchedStep ==
  ASSUME IpcInv, SchedNext, UNCHANGED << mutexVars, semVars >>
  PROVE  IpcInv'
<1>1. /\ SchedInv'
      /\ \/ Active' = Active /\ Started' = Started
         \/ \E t \in Task \ Started :
              Active' = Active \cup {t} /\ Started' = Started \cup {t}
  BY SchedStep DEF IpcInv
<1>2. UNCHANGED << locked_count, owner, lock_waiters, count, sem_waiters >>
  BY DEF mutexVars, semVars
<1>3. /\ Parked' = Parked
      /\ \A m \in Mutex : Waiting(m)' = Waiting(m)
      /\ WaitListsApart'
  BY <1>2 DEF Parked, Waiting, Pending, IpcInv, EveryTaskInOnePlace, WaitListsApart
<1>4. EveryTaskInOnePlace'
  <2>1. Parked \subseteq Started
    BY DEF IpcInv, EveryTaskInOnePlace, OnePlaceOr
  <2> QED BY <1>1, <1>3, <2>1 DEF IpcInv, EveryTaskInOnePlace, OnePlaceOr, SchedInv
<1>5. IpcTypeOK'
  BY <1>1, <1>2 DEF IpcInv, IpcTypeOK, SchedInv
<1>6. LockConsistent' /\ NoPermitWhileWaiting'
  BY <1>2, <1>3 DEF IpcInv, LockConsistent, NoPermitWhileWaiting
<1> QED BY <1>1, <1>4, <1>5, <1>6 DEF IpcInv

(* Steps that change counters and owners only. *)
LEMMA ListsUntouched ==
  ASSUME IpcInv, UNCHANGED << lock_waiters, sem_waiters, schedVars >>
  PROVE  /\ SchedInv' /\ EveryTaskInOnePlace'
         /\ \A m \in Mutex : Waiting(m)' = Waiting(m)
<1> USE DEF IpcInv
<1>1. SchedInv' /\ Active' = Active /\ Started' = Started
  BY DEF schedVars, SchedInv, SchedTypeOK, ListsApart, CurrIsHead, SleepersCount,
         Active, Started, Sleeping
<1>2. Parked' = Parked /\ WaitListsApart' /\ \A m \in Mutex : Waiting(m)' = Waiting(m)
  BY DEF Parked, Waiting, Pending, EveryTaskInOnePlace, WaitListsApart
<1>3. EveryTaskInOnePlace'
  BY <1>1, <1>2 DEF EveryTaskInOnePlace, OnePlaceOr, SchedInv
<1> QED BY <1>1, <1>2, <1>3

(* mutex_lock keeps it: it takes, counts, or parks its caller.             *)
LEMMA InvLock ==
  ASSUME IpcInv, NEW m \in Mutex, mutex_lock(m)
  PROVE  IpcInv'
<1>1. curr_task # Idle /\ curr_task \in Task \ Parked /\ curr_task \in Active
  BY RunningIsAwake DEF mutex_lock
<1>2. UNCHANGED << count, sem_waiters >>
  BY DEF mutex_lock, semVars
<1>3. /\ locked_count \in [Mutex -> 0..MaxDepth]
      /\ owner \in [Mutex -> Task \cup {NoTask}]
      /\ NoTask \notin Task
      /\ MaxDepth \in Nat \ {0}
  BY IpcAssumption DEF IpcInv, IpcTypeOK, IpcAssumption, AllTasks
<1>4. ASSUME UNCHANGED << lock_waiters, schedVars >>
      PROVE  /\ SchedInv' /\ EveryTaskInOnePlace' /\ NoPermitWhileWaiting'
             /\ \A n \in Mutex : Waiting(n)' = Waiting(n)
  BY <1>2, <1>4, ListsUntouched DEF IpcInv, NoPermitWhileWaiting
<1>5. CASE /\ locked_count[m] = 0
           /\ locked_count' = [locked_count EXCEPT ![m] = 1]
           /\ owner' = [owner EXCEPT ![m] = curr_task]
           /\ UNCHANGED << lock_waiters, schedVars >>
  <2>1. IpcTypeOK'
    BY <1>1, <1>2, <1>3, <1>4, <1>5 DEF IpcInv, IpcTypeOK, SchedInv
  <2>2. lock_waiters[m] = <<>> /\ Waiting(m) = {}
    BY <1>5 DEF IpcInv, LockConsistent, Waiting, ToSet
  <2>3. LockConsistent'
    BY <1>1, <1>3, <1>4, <1>5, <2>2 DEF IpcInv, LockConsistent
  <2> QED BY <1>4, <1>5, <2>1, <2>3 DEF IpcInv
<1>6. CASE /\ locked_count[m] \in 1..(MaxDepth - 1)
           /\ owner[m] = curr_task
           /\ locked_count' = [locked_count EXCEPT ![m] = @ + 1]
           /\ UNCHANGED << owner, lock_waiters, schedVars >>
  <2>1. IpcTypeOK'
    BY <1>2, <1>3, <1>4, <1>6 DEF IpcInv, IpcTypeOK, SchedInv
  <2>2. LockConsistent'
    BY <1>1, <1>3, <1>4, <1>6 DEF IpcInv, LockConsistent
  <2> QED BY <1>4, <1>6, <2>1, <2>2 DEF IpcInv
<1>7. CASE /\ locked_count[m] # 0
           /\ owner[m] # curr_task
           /\ lock_waiters' = [lock_waiters EXCEPT ![m] = Append(@, curr_task)]
           /\ BlockCaller
           /\ UNCHANGED << locked_count, owner >>
  <2>1. SchedInv' /\ Active' = Active \ {curr_task} /\ Started' = Started
    BY <1>1, <1>7, BlockStep DEF IpcInv
  <2>2. /\ lock_waiters' \in [Mutex -> Seq(Task)]
        /\ WaitListsApart'
        /\ Parked' = Parked \cup {curr_task}
        /\ Waiting(m)' = Waiting(m) \cup {curr_task}
        /\ \A n \in Mutex \ {m} : lock_waiters'[n] = lock_waiters[n]
    BY <1>1, <1>2, <1>7, LockWaitersGrow DEF IpcInv, EveryTaskInOnePlace
  <2>3. EveryTaskInOnePlace'
    BY <1>1, <2>1, <2>2 DEF IpcInv, EveryTaskInOnePlace, OnePlaceOr, SchedInv
  <2>4. IpcTypeOK'
    BY <1>2, <1>7, <2>1, <2>2 DEF IpcInv, IpcTypeOK, SchedInv
  <2>5. LockConsistent'
    <3>1. \A n \in Mutex \ {m} : Waiting(n)' = Waiting(n)
      BY <2>2 DEF Waiting
    <3>2. owner[m] # NoTask
      BY <1>7 DEF IpcInv, LockConsistent
    <3> QED BY <1>7, <2>2, <3>1, <3>2 DEF IpcInv, LockConsistent
  <2> QED BY <1>2, <2>1, <2>3, <2>4, <2>5 DEF IpcInv, NoPermitWhileWaiting
<1> QED BY <1>5, <1>6, <1>7 DEF mutex_lock

(* mutex_unlock keeps it: it counts down, frees, or hands the lock over.   *)
LEMMA InvUnlock ==
  ASSUME IpcInv, NEW m \in Mutex, mutex_unlock(m)
  PROVE  IpcInv'
<1>1. owner[m] = curr_task
  BY DEF mutex_unlock
<1>2. UNCHANGED << count, sem_waiters >>
  BY DEF mutex_unlock, semVars
<1>3. /\ locked_count \in [Mutex -> 0..MaxDepth]
      /\ owner \in [Mutex -> Task \cup {NoTask}]
      /\ NoTask \notin Task
      /\ MaxDepth \in Nat \ {0}
  BY IpcAssumption DEF IpcInv, IpcTypeOK, IpcAssumption, AllTasks
<1>4. ASSUME UNCHANGED << lock_waiters, schedVars >>
      PROVE  /\ SchedInv' /\ EveryTaskInOnePlace' /\ NoPermitWhileWaiting'
             /\ \A n \in Mutex : Waiting(n)' = Waiting(n)
  BY <1>2, <1>4, ListsUntouched DEF IpcInv, NoPermitWhileWaiting
<1>5. CASE /\ locked_count[m] > 1
           /\ locked_count' = [locked_count EXCEPT ![m] = @ - 1]
           /\ UNCHANGED << owner, lock_waiters, schedVars >>
  <2>1. IpcTypeOK'
    BY <1>2, <1>3, <1>4, <1>5 DEF IpcInv, IpcTypeOK, SchedInv
  <2>2. LockConsistent'
    BY <1>3, <1>4, <1>5 DEF IpcInv, LockConsistent
  <2> QED BY <1>4, <1>5, <2>1, <2>2 DEF IpcInv
<1>6. CASE /\ locked_count[m] = 1
           /\ lock_waiters[m] = <<>>
           /\ locked_count' = [locked_count EXCEPT ![m] = 0]
           /\ owner' = [owner EXCEPT ![m] = NoTask]
           /\ UNCHANGED << lock_waiters, schedVars >>
  <2>1. IpcTypeOK'
    BY <1>2, <1>3, <1>4, <1>6 DEF IpcInv, IpcTypeOK, SchedInv
  <2>2. Waiting(m) = {}
    BY <1>6 DEF Waiting, ToSet
  <2>3. LockConsistent'
    BY <1>3, <1>4, <1>6, <2>2 DEF IpcInv, LockConsistent
  <2> QED BY <1>4, <1>6, <2>1, <2>3 DEF IpcInv
<1>7. CASE /\ locked_count[m] = 1
           /\ lock_waiters[m] # <<>>
           /\ owner' = [owner EXCEPT ![m] = Head(lock_waiters[m])]
           /\ lock_waiters' = [lock_waiters EXCEPT ![m] = Tail(@)]
           /\ Unblock(Head(lock_waiters[m]))
           /\ UNCHANGED locked_count
  <2> DEFINE t == Head(lock_waiters[m])
  <2>1. /\ t \in Task /\ t \in Parked
        /\ lock_waiters' \in [Mutex -> Seq(Task)]
        /\ WaitListsApart'
        /\ Parked' = Parked \ {t}
        /\ Waiting(m)' = Waiting(m) \ {t}
        /\ \A n \in Mutex \ {m} : lock_waiters'[n] = lock_waiters[n]
    BY <1>2, <1>7, LockWaitersShrink DEF IpcInv, EveryTaskInOnePlace
  <2>2. /\ owner' = [owner EXCEPT ![m] = t]
        /\ Unblock(t)
    BY <1>7
  <2> HIDE DEF t
  <2>3. t \in Started /\ t \notin Active
    BY <2>1 DEF IpcInv, EveryTaskInOnePlace, OnePlaceOr
  <2>4. SchedInv' /\ Active' = Active \cup {t} /\ Started' = Started
    BY <2>2, <2>3, UnblockStep DEF IpcInv
  <2>5. EveryTaskInOnePlace'
    BY <2>1, <2>3, <2>4 DEF IpcInv, EveryTaskInOnePlace, OnePlaceOr, SchedInv
  <2>6. IpcTypeOK'
    BY <1>2, <1>3, <1>7, <2>1, <2>2, <2>4 DEF IpcInv, IpcTypeOK, SchedInv
  <2>7. LockConsistent'
    <3>1. \A n \in Mutex \ {m} : Waiting(n)' = Waiting(n)
      BY <2>1 DEF Waiting
    <3> QED BY <1>3, <1>7, <2>1, <2>2, <3>1 DEF IpcInv, LockConsistent
  <2> QED BY <1>2, <2>4, <2>5, <2>6, <2>7 DEF IpcInv, NoPermitWhileWaiting
<1> QED BY <1>5, <1>6, <1>7 DEF mutex_unlock, HandOver

(* sem_wait keeps it: a caller is parked only when there is no permit.     *)
LEMMA InvSemWait ==
  ASSUME IpcInv, NEW s \in Sem, sem_wait(s)
  PROVE  IpcInv'
<1>1. curr_task # Idle /\ curr_task \in Task \ Parked /\ curr_task \in Active
  BY RunningIsAwake DEF sem_wait
<1>2. UNCHANGED << locked_count, owner, lock_waiters >>
  BY DEF sem_wait, mutexVars
<1>3. count \in [Sem -> 0..MaxCount] /\ MaxCount \in Nat
  BY IpcAssumption DEF IpcInv, IpcTypeOK, IpcAssumption
<1>4. CASE /\ count[s] > 0
           /\ count' = [count EXCEPT ![s] = @ - 1]
           /\ UNCHANGED << sem_waiters, schedVars >>
  <2>1. SchedInv' /\ EveryTaskInOnePlace' /\ \A m \in Mutex : Waiting(m)' = Waiting(m)
    BY <1>2, <1>4, ListsUntouched
  <2>2. IpcTypeOK'
    BY <1>2, <1>3, <1>4, <2>1 DEF IpcInv, IpcTypeOK, SchedInv
  <2>3. LockConsistent' /\ NoPermitWhileWaiting'
    BY <1>2, <1>3, <1>4, <2>1 DEF IpcInv, LockConsistent, NoPermitWhileWaiting
  <2> QED BY <2>1, <2>2, <2>3 DEF IpcInv
<1>5. CASE /\ count[s] <= 0
           /\ sem_waiters' = [sem_waiters EXCEPT ![s] = Append(@, curr_task)]
           /\ BlockCaller
           /\ UNCHANGED count
  <2>1. SchedInv' /\ Active' = Active \ {curr_task} /\ Started' = Started
    BY <1>1, <1>5, BlockStep DEF IpcInv
  <2>2. /\ sem_waiters' \in [Sem -> Seq(Task)]
        /\ WaitListsApart'
        /\ Parked' = Parked \cup {curr_task}
        /\ \A r \in Sem \ {s} : sem_waiters'[r] = sem_waiters[r]
    BY <1>1, <1>2, <1>5, SemWaitersGrow DEF IpcInv, EveryTaskInOnePlace
  <2>3. EveryTaskInOnePlace'
    BY <1>1, <2>1, <2>2 DEF IpcInv, EveryTaskInOnePlace, OnePlaceOr, SchedInv
  <2>4. IpcTypeOK'
    BY <1>2, <1>5, <2>1, <2>2 DEF IpcInv, IpcTypeOK, SchedInv
  <2>5. LockConsistent'
    BY <1>2 DEF IpcInv, LockConsistent, Waiting
  <2>6. NoPermitWhileWaiting'
    BY <1>3, <1>5, <2>2 DEF IpcInv, NoPermitWhileWaiting
  <2> QED BY <2>1, <2>3, <2>4, <2>5, <2>6 DEF IpcInv
<1> QED BY <1>4, <1>5 DEF sem_wait

(* sem_notify keeps it: the permit goes to a waiter, or is counted.        *)
LEMMA InvSemNotify ==
  ASSUME IpcInv, NEW s \in Sem, sem_notify(s)
  PROVE  IpcInv'
<1>1. UNCHANGED << locked_count, owner, lock_waiters >>
  BY DEF sem_notify, mutexVars
<1>2. count \in [Sem -> 0..MaxCount] /\ MaxCount \in Nat
  BY IpcAssumption DEF IpcInv, IpcTypeOK, IpcAssumption
<1>3. CASE /\ sem_waiters[s] # <<>>
           /\ sem_waiters' = [sem_waiters EXCEPT ![s] = Tail(@)]
           /\ Unblock(Head(sem_waiters[s]))
           /\ UNCHANGED count
  <2> DEFINE t == Head(sem_waiters[s])
  <2>1. /\ t \in Task /\ t \in Parked
        /\ sem_waiters' \in [Sem -> Seq(Task)]
        /\ WaitListsApart'
        /\ Parked' = Parked \ {t}
        /\ \A r \in Sem \ {s} : sem_waiters'[r] = sem_waiters[r]
    BY <1>1, <1>3, SemWaitersShrink DEF IpcInv, EveryTaskInOnePlace
  <2>2. Unblock(t)
    BY <1>3
  <2> HIDE DEF t
  <2>3. t \in Started /\ t \notin Active
    BY <2>1 DEF IpcInv, EveryTaskInOnePlace, OnePlaceOr
  <2>4. SchedInv' /\ Active' = Active \cup {t} /\ Started' = Started
    BY <2>2, <2>3, UnblockStep DEF IpcInv
  <2>5. EveryTaskInOnePlace'
    BY <2>1, <2>3, <2>4 DEF IpcInv, EveryTaskInOnePlace, OnePlaceOr, SchedInv
  <2>6. IpcTypeOK'
    BY <1>1, <1>3, <2>1, <2>4 DEF IpcInv, IpcTypeOK, SchedInv
  <2>7. LockConsistent'
    BY <1>1 DEF IpcInv, LockConsistent, Waiting
  <2>8. NoPermitWhileWaiting'
    BY <1>3, <2>1 DEF IpcInv, NoPermitWhileWaiting
  <2> QED BY <2>4, <2>5, <2>6, <2>7, <2>8 DEF IpcInv
<1>4. CASE /\ sem_waiters[s] = <<>>
           /\ count[s] < MaxCount
           /\ count' = [count EXCEPT ![s] = @ + 1]
           /\ UNCHANGED << sem_waiters, schedVars >>
  <2>1. SchedInv' /\ EveryTaskInOnePlace' /\ \A m \in Mutex : Waiting(m)' = Waiting(m)
    BY <1>1, <1>4, ListsUntouched
  <2>2. IpcTypeOK'
    BY <1>1, <1>2, <1>4, <2>1 DEF IpcInv, IpcTypeOK, SchedInv
  <2>3. LockConsistent' /\ NoPermitWhileWaiting'
    BY <1>1, <1>2, <1>4, <2>1 DEF IpcInv, LockConsistent, NoPermitWhileWaiting
  <2> QED BY <2>1, <2>2, <2>3 DEF IpcInv
<1> QED BY <1>3, <1>4 DEF sem_notify

(* Every step keeps it.                                                    *)
LEMMA InvStep == IpcInv /\ [IpcNext]_ipcVars => IpcInv'
<1> SUFFICES ASSUME IpcInv, [IpcNext]_ipcVars PROVE IpcInv'
  OBVIOUS
<1>1. CASE SchedNext /\ UNCHANGED << mutexVars, semVars >>
  BY <1>1, InvSchedStep
<1>2. ASSUME NEW m \in Mutex, mutex_lock(m) \/ mutex_unlock(m) PROVE IpcInv'
  BY <1>2, InvLock, InvUnlock
<1>3. ASSUME NEW s \in Sem, sem_wait(s) \/ sem_notify(s) PROVE IpcInv'
  BY <1>3, InvSemWait, InvSemNotify
<1>4. CASE UNCHANGED ipcVars
  <2>1. /\ UNCHANGED << lock_waiters, sem_waiters, schedVars >>
        /\ UNCHANGED << locked_count, owner, count >>
    BY <1>4 DEF ipcVars, mutexVars, semVars
  <2>2. SchedInv' /\ EveryTaskInOnePlace'
    BY <2>1, ListsUntouched
  <2> QED BY <2>1, <2>2 DEF IpcInv, IpcTypeOK, SchedInv, LockConsistent,
                          NoPermitWhileWaiting, Waiting
<1> QED BY <1>1, <1>2, <1>3, <1>4 DEF IpcNext
------------------------------------------------------------------------------
(* The inductive invariant of locks and semaphores on the scheduler: the   *)
(* types, everybody in one place, consistent locks, no permit unclaimed.   *)
THEOREM IpcInvariant == IpcSpec => []IpcInv
<1> QED BY InvInit, InvStep, PTL DEF IpcSpec

(* The counts of locks and semaphores stay in their ranges, and their wait *)
(* lists hold tasks.                                                       *)
THEOREM IpcTypes == IpcSpec => []IpcTypeOK
<1>1. IpcInv => IpcTypeOK
  BY DEF IpcInv
<1> QED BY <1>1, IpcInvariant, PTL

(* Every started task is ready, asleep or in one wait list, exactly once.  *)
THEOREM OnePlaceInIpc == IpcSpec => []EveryTaskInOnePlace
<1>1. IpcInv => EveryTaskInOnePlace
  BY DEF IpcInv
<1> QED BY <1>1, IpcInvariant, PTL

(* A free lock has no waiter, and nobody waits for a lock that he owns.    *)
THEOREM LocksAreConsistent == IpcSpec => []LockConsistent
<1>1. IpcInv => LockConsistent
  BY DEF IpcInv
<1> QED BY <1>1, IpcInvariant, PTL

(* Nobody waits for a semaphore that has a permit. *)
THEOREM NoLostPermit == IpcSpec => []NoPermitWhileWaiting
<1>1. IpcInv => NoPermitWhileWaiting
  BY DEF IpcInv
<1> QED BY <1>1, IpcInvariant, PTL
------------------------------------------------------------------------------
(***************************************************************************)
(* The refinement.  A call is made by the running task, which is in no     *)
(* wait list; a nested lock or unlock and every step of the scheduler      *)
(* leave the promised state alone.                                         *)
(***************************************************************************)
LEMMA PromiseAwake ==
  ASSUME IpcInv, curr_task # Idle
  PROVE  curr_task \in Task /\ Promise!Awake(curr_task)
<1>1. curr_task \in Task /\ curr_task \notin Parked
  BY RunningIsAwake
<1>2. /\ \A m \in Mutex : curr_task \notin Waiting(m)
      /\ \A s \in Sem : curr_task \notin Pending(s)
  BY <1>1, InParked
<1> QED BY <1>1, <1>2 DEF Promise!Awake, Promise!QueuedIn, Waiting, Pending, ToSet

(* Every step of locks and semaphores is a step of the promise, or none.   *)
LEMMA PromiseStep ==
  ASSUME IpcInv, [IpcNext]_ipcVars
  PROVE  [Promise!Next]_Promise!vars
<1> USE DEF Promise!vars
<1>1. CASE SchedNext /\ UNCHANGED << mutexVars, semVars >>
  BY <1>1 DEF mutexVars, semVars
<1>2. ASSUME NEW m \in Mutex, mutex_lock(m) PROVE [Promise!Next]_Promise!vars
  <2>1. /\ curr_task \in Task
        /\ Promise!Awake(curr_task)
        /\ UNCHANGED << count, sem_waiters >>
    BY <1>2, PromiseAwake DEF mutex_lock, semVars
  <2>2. CASE /\ locked_count[m] = 0
             /\ owner' = [owner EXCEPT ![m] = curr_task]
             /\ UNCHANGED << lock_waiters, schedVars >>
    <3>1. owner[m] = NoTask /\ lock_waiters[m] = <<>>
      BY <2>2 DEF IpcInv, LockConsistent
    <3>2. Promise!Acquire(curr_task, m)
      BY <2>1, <2>2, <3>1 DEF Promise!Acquire
    <3> QED BY <2>1, <3>2 DEF Promise!Next
  <2>3. CASE UNCHANGED << owner, lock_waiters, schedVars >>
    BY <2>1, <2>3
  <2>4. CASE /\ locked_count[m] # 0
             /\ owner[m] # curr_task
             /\ lock_waiters' = [lock_waiters EXCEPT ![m] = Append(@, curr_task)]
             /\ UNCHANGED << locked_count, owner >>
    <3>1. owner[m] \notin {NoTask, curr_task}
      BY <2>4 DEF IpcInv, LockConsistent
    <3>2. Promise!QueueForLock(curr_task, m)
      BY <2>1, <2>4, <3>1 DEF Promise!QueueForLock
    <3> QED BY <2>1, <3>2 DEF Promise!Next
  <2> QED BY <1>2, <2>2, <2>3, <2>4 DEF mutex_lock
<1>3. ASSUME NEW m \in Mutex, mutex_unlock(m) PROVE [Promise!Next]_Promise!vars
  <2>1. /\ curr_task \in Task
        /\ Promise!Awake(curr_task)
        /\ owner[m] = curr_task
        /\ UNCHANGED << count, sem_waiters >>
    BY <1>3, PromiseAwake DEF mutex_unlock, HandOver, semVars
  <2>2. CASE UNCHANGED << owner, lock_waiters, schedVars >>
    BY <2>1, <2>2
  <2>3. CASE /\ lock_waiters[m] = <<>>
             /\ owner' = [owner EXCEPT ![m] = NoTask]
             /\ UNCHANGED << lock_waiters, schedVars >>
    <3>1. Promise!Release(curr_task, m)
      BY <2>1, <2>3 DEF Promise!Release
    <3> QED BY <2>1, <3>1 DEF Promise!Next
  <2>4. CASE /\ lock_waiters[m] # <<>>
             /\ owner' = [owner EXCEPT ![m] = Head(lock_waiters[m])]
             /\ lock_waiters' = [lock_waiters EXCEPT ![m] = Tail(@)]
    <3>1. Promise!HandOver(curr_task, m)
      BY <2>1, <2>4 DEF Promise!HandOver
    <3> QED BY <2>1, <3>1 DEF Promise!Next
  <2> QED BY <1>3, <2>2, <2>3, <2>4 DEF mutex_unlock, HandOver
<1>4. ASSUME NEW s \in Sem, sem_wait(s) PROVE [Promise!Next]_Promise!vars
  <2>1. /\ curr_task \in Task
        /\ Promise!Awake(curr_task)
        /\ UNCHANGED << owner, lock_waiters >>
        /\ count[s] \in Nat
    BY <1>4, PromiseAwake, IpcAssumption
       DEF sem_wait, mutexVars, IpcInv, IpcTypeOK, IpcAssumption
  <2>2. CASE /\ count[s] > 0
             /\ count' = [count EXCEPT ![s] = @ - 1]
             /\ UNCHANGED << sem_waiters, schedVars >>
    <3>1. sem_waiters[s] = <<>>
      BY <2>1, <2>2 DEF IpcInv, NoPermitWhileWaiting
    <3>2. Promise!TakePermit(s)
      BY <2>1, <2>2, <3>1 DEF Promise!TakePermit
    <3> QED BY <2>1, <3>2 DEF Promise!Next
  <2>3. CASE /\ count[s] <= 0
             /\ sem_waiters' = [sem_waiters EXCEPT ![s] = Append(@, curr_task)]
             /\ UNCHANGED count
    <3>1. Promise!QueueForPermit(curr_task, s)
      BY <2>1, <2>3 DEF Promise!QueueForPermit
    <3> QED BY <2>1, <3>1 DEF Promise!Next
  <2> QED BY <1>4, <2>2, <2>3 DEF sem_wait
<1>5. ASSUME NEW s \in Sem, sem_notify(s) PROVE [Promise!Next]_Promise!vars
  <2>1. Promise!GivePermit(s)
    BY <1>5 DEF sem_notify, mutexVars, Promise!GivePermit
  <2> QED BY <2>1 DEF Promise!Next
<1>6. CASE UNCHANGED ipcVars
  BY <1>6 DEF ipcVars, mutexVars, semVars
<1> QED BY <1>1, <1>2, <1>3, <1>4, <1>5, <1>6 DEF IpcNext

(* mutex.c and sem.c, on the scheduler of task.c, implement Blocking.      *)
THEOREM IpcKeepsPromise == IpcSpec => KeepsPromise
<1>1. IpcInit => Promise!Init
  BY DEF IpcInit, Promise!Init
<1>2. IpcInv /\ [IpcNext]_ipcVars => [Promise!Next]_Promise!vars
  BY PromiseStep
<1> QED BY <1>1, <1>2, IpcInvariant, PTL DEF IpcSpec, KeepsPromise, Promise!Spec
==============================================================================
