------------------------------- MODULE Blocking -------------------------------
(***************************************************************************)
(* What kernel/ipc promises to its callers, with no scheduler in sight:    *)
(* locks and counting semaphores with first-come-first-served queues.  A   *)
(* lock that is released with somebody queued is handed over, and never    *)
(* seen free by a third task; a permit that is given with somebody queued  *)
(* is his; and a task that is queued anywhere takes no step of its own.    *)
(***************************************************************************)
EXTENDS Integers, Sequences

CONSTANTS Task, NoTask, Mutex, Sem, Permits

VARIABLES
  holder,     \* who holds each lock, or NoTask
  lockQueue,  \* who is queued for each lock
  permits,    \* the permits of each semaphore
  semQueue    \* who is queued for each semaphore

vars == << holder, lockQueue, permits, semQueue >>

QueuedIn(t, queue) == \E i \in DOMAIN queue : queue[i] = t

Awake(t) ==
  /\ \A m \in Mutex : ~ QueuedIn(t, lockQueue[m])
  /\ \A s \in Sem : ~ QueuedIn(t, semQueue[s])

Init ==
  /\ holder    = [m \in Mutex |-> NoTask]
  /\ lockQueue = [m \in Mutex |-> <<>>]
  /\ permits   = Permits
  /\ semQueue  = [s \in Sem |-> <<>>]

Acquire(t, m) ==
  /\ holder[m] = NoTask
  /\ lockQueue[m] = <<>>
  /\ holder' = [holder EXCEPT ![m] = t]
  /\ UNCHANGED << lockQueue, permits, semQueue >>

QueueForLock(t, m) ==
  /\ holder[m] \notin {NoTask, t}
  /\ lockQueue' = [lockQueue EXCEPT ![m] = Append(@, t)]
  /\ UNCHANGED << holder, permits, semQueue >>

Release(t, m) ==
  /\ holder[m] = t
  /\ lockQueue[m] = <<>>
  /\ holder' = [holder EXCEPT ![m] = NoTask]
  /\ UNCHANGED << lockQueue, permits, semQueue >>

HandOver(t, m) ==
  /\ holder[m] = t
  /\ lockQueue[m] # <<>>
  /\ holder' = [holder EXCEPT ![m] = Head(lockQueue[m])]
  /\ lockQueue' = [lockQueue EXCEPT ![m] = Tail(@)]
  /\ UNCHANGED << permits, semQueue >>

TakePermit(s) ==
  /\ permits[s] > 0
  /\ semQueue[s] = <<>>
  /\ permits' = [permits EXCEPT ![s] = @ - 1]
  /\ UNCHANGED << holder, lockQueue, semQueue >>

QueueForPermit(t, s) ==
  /\ permits[s] = 0
  /\ semQueue' = [semQueue EXCEPT ![s] = Append(@, t)]
  /\ UNCHANGED << holder, lockQueue, permits >>

(* Anybody gives a permit: a task, or an interrupt handler. *)
GivePermit(s) ==
  /\ IF semQueue[s] = <<>>
     THEN permits' = [permits EXCEPT ![s] = @ + 1] /\ UNCHANGED semQueue
     ELSE semQueue' = [semQueue EXCEPT ![s] = Tail(@)] /\ UNCHANGED permits
  /\ UNCHANGED << holder, lockQueue >>

Next ==
  \/ \E t \in Task :
       /\ Awake(t)
       /\ \/ \E m \in Mutex :
               Acquire(t, m) \/ QueueForLock(t, m) \/ Release(t, m) \/ HandOver(t, m)
          \/ \E s \in Sem : TakePermit(s) \/ QueueForPermit(t, s)
  \/ \E s \in Sem : GivePermit(s)

Spec == Init /\ [][Next]_vars
==============================================================================
