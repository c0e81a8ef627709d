------------------------------ MODULE TtyProofs ------------------------------
(***************************************************************************)
(* The terminal, for every number of readers and writers, every size of    *)
(* the two rings, and whatever is typed and written: a writer with a       *)
(* permit finds room, what a write has put is shown when it returns, no    *)
(* typed character is stranded, a line fits where it is put, and the rings *)
(* are queues.                                                             *)
(***************************************************************************)
EXTENDS Tty, SequenceTheorems, FiniteSetTheorems, TLAPS

Sems == {ISem, OSem}

Apart(queue) == \A i, j \in DOMAIN queue : queue[i] = queue[j] => i = j

(***************************************************************************)
(* A task is in a queue only when it has just called what the queue is of. *)
(***************************************************************************)
ReadPc == {"r_wait", "r_look", "r_get", "r_echoed"}

QueueTypeOK ==
  /\ holder \in [{Console} -> Task \cup {Nobody}]
  /\ lockQueue \in [{Console} -> Seq(Task)]
  /\ permits \in [Sems -> Nat]
  /\ semQueue \in [Sems -> Seq(Task)]
  /\ pc \in [Task -> Pc]

QueuesInv ==
  /\ QueueTypeOK
  /\ Apart(lockQueue[Console]) /\ Apart(semQueue[ISem]) /\ Apart(semQueue[OSem])
  /\ \A t \in Task :
       /\ Kernel!QueuedIn(t, lockQueue[Console]) => pc[t] = "c_look"
       /\ Kernel!QueuedIn(t, semQueue[OSem]) => pc[t] \in {"w_cr_look", "w_look"}
       /\ Kernel!QueuedIn(t, semQueue[ISem]) => pc[t] = "r_look"
       /\ pc[t] \in ReadPc => t \in Reader
------------------------------------------------------------------------------
(* The queues of the kernel as sequences. *)
LEMMA Enqueued ==
  ASSUME NEW q \in Seq(Task), NEW t \in Task
  PROVE  /\ Append(q, t) \in Seq(Task) /\ Append(q, t) # <<>>
         /\ \A u : Kernel!QueuedIn(u, Append(q, t)) <=> Kernel!QueuedIn(u, q) \/ u = t
         /\ Apart(q) /\ ~Kernel!QueuedIn(t, q) => Apart(Append(q, t))
<1>1. /\ Append(q, t) \in Seq(Task)
      /\ DOMAIN Append(q, t) = 1..(Len(q) + 1)
      /\ \A i \in 1..Len(q) : Append(q, t)[i] = q[i]
      /\ Append(q, t)[Len(q) + 1] = t
      /\ Append(q, t) # <<>>
  BY AppendProperties
<1>2. Len(q) \in Nat /\ DOMAIN q = 1..Len(q)
  BY LenProperties
<1> QED BY <1>1, <1>2 DEF Kernel!QueuedIn, Apart

(* The head of a queue was in it, once, and the others stay.               *)
LEMMA Dequeued ==
  ASSUME NEW q \in Seq(Task), q # <<>>, Apart(q)
  PROVE  /\ Head(q) \in Task /\ Kernel!QueuedIn(Head(q), q)
         /\ Tail(q) \in Seq(Task) /\ Apart(Tail(q))
         /\ \A u : Kernel!QueuedIn(u, Tail(q)) <=> Kernel!QueuedIn(u, q) /\ u # Head(q)
<1>1. Len(q) \in Nat \ {0} /\ DOMAIN q = 1..Len(q)
  BY LenProperties, EmptySeq
<1>2. /\ Head(q) \in Task /\ Head(q) = q[1]
      /\ Tail(q) \in Seq(Task)
      /\ DOMAIN Tail(q) = 1..(Len(q) - 1)
      /\ \A i \in 1..(Len(q) - 1) : Tail(q)[i] = q[i + 1]
  BY <1>1, HeadTailProperties
<1>3. Kernel!QueuedIn(Head(q), q)
  BY <1>1, <1>2 DEF Kernel!QueuedIn
<1>4. Apart(Tail(q))
  <2> SUFFICES ASSUME NEW i \in 1..(Len(q) - 1), NEW j \in 1..(Len(q) - 1), Tail(q)[i] = Tail(q)[j]
               PROVE  i = j
    BY <1>2 DEF Apart
  <2>1. q[i + 1] = q[j + 1] /\ i + 1 \in DOMAIN q /\ j + 1 \in DOMAIN q
    BY <1>1, <1>2
  <2> QED BY <2>1 DEF Apart
<1>5. ASSUME NEW u, Kernel!QueuedIn(u, Tail(q))
      PROVE  Kernel!QueuedIn(u, q) /\ u # Head(q)
  <2>1. PICK i \in 1..(Len(q) - 1) : q[i + 1] = u
    BY <1>2, <1>5 DEF Kernel!QueuedIn
  <2>2. i + 1 \in DOMAIN q /\ 1 \in DOMAIN q /\ i + 1 # 1
    BY <1>1
  <2> QED BY <1>2, <2>1, <2>2 DEF Kernel!QueuedIn, Apart
<1>6. ASSUME NEW u, Kernel!QueuedIn(u, q), u # Head(q)
      PROVE  Kernel!QueuedIn(u, Tail(q))
  <2>1. PICK i \in 1..Len(q) : q[i] = u
    BY <1>1, <1>6 DEF Kernel!QueuedIn
  <2>2. i # 1 /\ i - 1 \in 1..(Len(q) - 1) /\ Tail(q)[i - 1] = u
    BY <1>1, <1>2, <1>6, <2>1
  <2> QED BY <1>2, <2>2 DEF Kernel!QueuedIn
<1> QED BY <1>2, <1>3, <1>4, <1>5, <1>6

(* Awake is to be in none of the three queues,                             *)
LEMMA AwakeMeans ==
  ASSUME NEW t
  PROVE  Kernel!Awake(t) <=> /\ ~Kernel!QueuedIn(t, lockQueue[Console])
                             /\ ~Kernel!QueuedIn(t, semQueue[ISem])
                             /\ ~Kernel!QueuedIn(t, semQueue[OSem])
BY DEF Kernel!Awake

(* now and after a step.                                                   *)
LEMMA AwakeThen ==
  ASSUME NEW t
  PROVE  Kernel!Awake(t)' <=> /\ ~Kernel!QueuedIn(t, lockQueue'[Console])
                              /\ ~Kernel!QueuedIn(t, semQueue'[ISem])
                              /\ ~Kernel!QueuedIn(t, semQueue'[OSem])
BY DEF Kernel!Awake
------------------------------------------------------------------------------
(* What a step does to the queues. *)
Moves(t, to) == pc' = [pc EXCEPT ![t] = to]

SameAwake == \A u \in Task : Kernel!Awake(u)' = Kernel!Awake(u)

(***************************************************************************)
(* A step that leaves the queues alone wakes nobody and puts nobody to     *)
(* sleep.                                                                  *)
(***************************************************************************)
LEMMA QueuesStay ==
  ASSUME QueuesInv, UNCHANGED << lockQueue, semQueue >>,
         holder' \in [{Console} -> Task \cup {Nobody}], permits' \in [Sems -> Nat],
         \/ pc' = pc
         \/ \E t \in Task, to \in Pc : /\ Kernel!Awake(t) /\ Moves(t, to)
                                       /\ to \in ReadPc => t \in Reader
  PROVE  QueuesInv' /\ SameAwake
<1>1. SameAwake
  BY AwakeMeans, AwakeThen DEF SameAwake
<1>2. QueueTypeOK'
  BY DEF QueuesInv, QueueTypeOK, Moves
<1>3. CASE pc' = pc
  BY <1>1, <1>2, <1>3 DEF QueuesInv
<1>4. CASE \E t \in Task, to \in Pc : /\ Kernel!Awake(t) /\ Moves(t, to)
                                      /\ to \in ReadPc => t \in Reader
  <2>1. PICK t \in Task, to \in Pc : /\ Kernel!Awake(t) /\ Moves(t, to)
                                     /\ to \in ReadPc => t \in Reader
    BY <1>4
  <2>2. \A u \in Task : pc'[u] = IF u = t THEN to ELSE pc[u]
    BY <2>1 DEF QueuesInv, QueueTypeOK, Moves
  <2>3. /\ ~Kernel!QueuedIn(t, lockQueue[Console]) /\ ~Kernel!QueuedIn(t, semQueue[ISem])
        /\ ~Kernel!QueuedIn(t, semQueue[OSem])
    BY <2>1, AwakeMeans
  <2> QED BY <1>1, <1>2, <2>1, <2>2, <2>3 DEF QueuesInv
<1> QED BY <1>3, <1>4

(* Waiting for a permit: it is there and nobody else waits, or the task    *)
(* falls asleep behind those who do.                                       *)
LEMMA SemWait ==
  ASSUME QueuesInv, NEW t \in Task, NEW s \in Sems, NEW to, Kernel!Awake(t), Moves(t, to),
         \/ s = OSem /\ to \in {"w_cr_look", "w_look"}
         \/ s = ISem /\ to = "r_look" /\ t \in Reader,
         sem_wait(t, s)
  PROVE  /\ QueuesInv' /\ UNCHANGED << holder, lockQueue >>
         /\ \/ /\ permits[s] > 0 /\ semQueue[s] = <<>>
               /\ permits' = [permits EXCEPT ![s] = @ - 1]
               /\ UNCHANGED semQueue
               /\ SameAwake
            \/ /\ permits[s] = 0 /\ UNCHANGED permits
               /\ semQueue'[s] # <<>>
               /\ \A r \in Sems : r # s => semQueue'[r] = semQueue[r]
               /\ \A u \in Task : Kernel!Awake(u)' <=> Kernel!Awake(u) /\ u # t
<1>1. to \in Pc /\ (to \in ReadPc => t \in Reader)
  BY DEF Pc, ReadPc
<1>2. CASE Kernel!TakePermit(s)
  <2>1. /\ permits[s] > 0 /\ semQueue[s] = <<>> /\ permits' = [permits EXCEPT ![s] = @ - 1]
        /\ UNCHANGED << holder, lockQueue, semQueue >>
    BY <1>2 DEF Kernel!TakePermit
  <2>2. permits' \in [Sems -> Nat] /\ holder' \in [{Console} -> Task \cup {Nobody}]
    BY <2>1 DEF QueuesInv, QueueTypeOK
  <2>3. QueuesInv' /\ SameAwake
    BY <1>1, <2>1, <2>2, QueuesStay
  <2> QED BY <2>1, <2>3
<1>3. CASE Kernel!QueueForPermit(t, s)
  <2>1. /\ permits[s] = 0 /\ semQueue' = [semQueue EXCEPT ![s] = Append(@, t)]
        /\ UNCHANGED << holder, lockQueue, permits >>
    BY <1>3 DEF Kernel!QueueForPermit
  <2>2. /\ ~Kernel!QueuedIn(t, lockQueue[Console]) /\ ~Kernel!QueuedIn(t, semQueue[ISem])
        /\ ~Kernel!QueuedIn(t, semQueue[OSem])
    BY AwakeMeans
  <2>3. \A r \in Sems : semQueue'[r] = IF r = s THEN Append(semQueue[s], t) ELSE semQueue[r]
    BY <2>1 DEF QueuesInv, QueueTypeOK
  <2>4. /\ Append(semQueue[s], t) \in Seq(Task) /\ Append(semQueue[s], t) # <<>>
        /\ \A u : Kernel!QueuedIn(u, Append(semQueue[s], t)) <=> Kernel!QueuedIn(u, semQueue[s]) \/ u = t
        /\ Apart(semQueue[s]) /\ ~Kernel!QueuedIn(t, semQueue[s]) => Apart(Append(semQueue[s], t))
    BY Enqueued DEF QueuesInv, QueueTypeOK
  <2>5. QueueTypeOK'
    BY <1>1, <2>1, <2>4 DEF QueuesInv, QueueTypeOK, Moves
  <2>6. \A u \in Task : pc'[u] = IF u = t THEN to ELSE pc[u]
    BY DEF QueuesInv, QueueTypeOK, Moves
  <2>7. s \in {ISem, OSem} /\ ISem # OSem
    BY DEF Sems, ISem, OSem
  <2>8. \A u \in Task : Kernel!Awake(u)' <=> Kernel!Awake(u) /\ u # t
    BY <2>1, <2>3, <2>4, <2>7, AwakeMeans, AwakeThen DEF Sems
  <2>9. QueuesInv'
    <3>1. CASE s = OSem
      <4>1. semQueue'[ISem] = semQueue[ISem] /\ semQueue'[OSem] = Append(semQueue[OSem], t)
        BY <2>3, <2>7, <3>1 DEF Sems
      <4> QED BY <1>1, <2>1, <2>2, <2>4, <2>5, <2>6, <2>7, <3>1, <4>1 DEF QueuesInv
    <3>2. CASE s = ISem
      <4>1. semQueue'[OSem] = semQueue[OSem] /\ semQueue'[ISem] = Append(semQueue[ISem], t)
        BY <2>3, <2>7, <3>2 DEF Sems
      <4> QED BY <1>1, <2>1, <2>2, <2>4, <2>5, <2>6, <2>7, <3>2, <4>1 DEF QueuesInv
    <3> QED BY <2>7, <3>1, <3>2
  <2> QED BY <2>1, <2>3, <2>4, <2>8, <2>9
<1> QED BY <1>2, <1>3 DEF sem_wait

(* Giving a permit: one more, or the first of those who wait is awake.     *)
LEMMA SemNotify ==
  ASSUME QueuesInv, NEW s \in Sems, sem_notify(s), UNCHANGED << holder, lockQueue >>,
         \/ pc' = pc
         \/ \E t \in Task, to \in Pc : /\ Kernel!Awake(t) /\ Moves(t, to)
                                       /\ to \in ReadPc => t \in Reader
  PROVE  /\ QueuesInv'
         /\ \/ /\ semQueue[s] = <<>> /\ permits' = [permits EXCEPT ![s] = @ + 1]
               /\ UNCHANGED semQueue
               /\ SameAwake
            \/ /\ semQueue[s] # <<>> /\ UNCHANGED permits
               /\ \A r \in Sems : r # s => semQueue'[r] = semQueue[r]
               /\ \E h \in Task :
                    /\ Kernel!QueuedIn(h, semQueue[s]) /\ ~Kernel!Awake(h)
                    /\ pc'[h] = pc[h]
                    /\ \A u \in Task : Kernel!Awake(u)' <=> Kernel!Awake(u) \/ u = h
<1>1. CASE semQueue[s] = <<>>
  <2>1. permits' = [permits EXCEPT ![s] = @ + 1] /\ UNCHANGED << holder, lockQueue, semQueue >>
    BY <1>1 DEF sem_notify, Kernel!GivePermit
  <2>2. permits' \in [Sems -> Nat] /\ holder' \in [{Console} -> Task \cup {Nobody}]
    BY <2>1 DEF QueuesInv, QueueTypeOK
  <2>3. QueuesInv' /\ SameAwake
    BY <2>1, <2>2, QueuesStay
  <2> QED BY <1>1, <2>1, <2>3
<1>2. CASE semQueue[s] # <<>>
  <2> DEFINE q == semQueue[s]
             h == Head(q)
  <2>1. semQueue' = [semQueue EXCEPT ![s] = Tail(@)] /\ UNCHANGED << holder, lockQueue, permits >>
    BY <1>2 DEF sem_notify, Kernel!GivePermit
  <2>2. s \in {ISem, OSem} /\ ISem # OSem
    BY DEF Sems, ISem, OSem
  <2>3. q \in Seq(Task) /\ Apart(q)
    BY <2>2 DEF QueuesInv, QueueTypeOK
  <2>4. /\ h \in Task /\ Kernel!QueuedIn(h, q)
        /\ Tail(q) \in Seq(Task) /\ Apart(Tail(q))
        /\ \A u : Kernel!QueuedIn(u, Tail(q)) <=> Kernel!QueuedIn(u, q) /\ u # h
    BY <1>2, <2>3, Dequeued
  <2>5. \A r \in Sems : semQueue'[r] = IF r = s THEN Tail(q) ELSE semQueue[r]
    BY <2>1 DEF QueuesInv, QueueTypeOK
  <2>6. ~Kernel!Awake(h)
    BY <2>2, <2>4, AwakeMeans
  <2>7. /\ \A u \in Task : ~Kernel!Awake(u) => pc'[u] = pc[u]
        /\ \A u \in Task : pc'[u] \in ReadPc => u \in Reader
        /\ pc' \in [Task -> Pc]
    BY DEF QueuesInv, QueueTypeOK, Moves
  <2>8. QueueTypeOK'
    BY <2>1, <2>4, <2>7 DEF QueuesInv, QueueTypeOK
  <2>9. \A u \in Task : /\ Kernel!QueuedIn(u, lockQueue[Console]) => ~Kernel!Awake(u)
                        /\ Kernel!QueuedIn(u, semQueue[ISem]) => ~Kernel!Awake(u)
                        /\ Kernel!QueuedIn(u, semQueue[OSem]) => ~Kernel!Awake(u)
    BY AwakeMeans
  <2>10. QueuesInv' /\ \A u \in Task : Kernel!Awake(u)' <=> Kernel!Awake(u) \/ u = h
    <3>1. CASE s = OSem
      <4>1. semQueue'[ISem] = semQueue[ISem] /\ semQueue'[OSem] = Tail(q)
        BY <2>2, <2>5, <3>1 DEF Sems
      <4>2. QueuesInv'
        BY <2>1, <2>4, <2>7, <2>8, <2>9, <3>1, <4>1 DEF QueuesInv
      <4>3. pc[h] \in {"w_cr_look", "w_look"}
        BY <2>4, <3>1 DEF QueuesInv
      <4>4. ~Kernel!QueuedIn(h, lockQueue[Console]) /\ ~Kernel!QueuedIn(h, semQueue[ISem])
        BY <2>4, <4>3 DEF QueuesInv
      <4>5. \A u \in Task : Kernel!Awake(u)' <=> Kernel!Awake(u) \/ u = h
        BY <2>1, <2>4, <3>1, <4>1, <4>4, AwakeMeans, AwakeThen
      <4> QED BY <4>2, <4>5
    <3>2. CASE s = ISem
      <4>1. semQueue'[OSem] = semQueue[OSem] /\ semQueue'[ISem] = Tail(q)
        BY <2>2, <2>5, <3>2 DEF Sems
      <4>2. QueuesInv'
        BY <2>1, <2>4, <2>7, <2>8, <2>9, <3>2, <4>1 DEF QueuesInv
      <4>3. pc[h] = "r_look"
        BY <2>4, <3>2 DEF QueuesInv
      <4>4. ~Kernel!QueuedIn(h, lockQueue[Console]) /\ ~Kernel!QueuedIn(h, semQueue[OSem])
        BY <2>4, <4>3 DEF QueuesInv
      <4>5. \A u \in Task : Kernel!Awake(u)' <=> Kernel!Awake(u) \/ u = h
        BY <2>1, <2>4, <3>2, <4>1, <4>4, AwakeMeans, AwakeThen
      <4> QED BY <4>2, <4>5
    <3> QED BY <2>2, <3>1, <3>2
  <2> QED BY <1>2, <2>1, <2>4, <2>5, <2>6, <2>7, <2>10
<1> QED BY <1>1, <1>2

(* The console's mutex: who takes it, and who has it next.                 *)
LEMMA MutexLock ==
  ASSUME QueuesInv, NEW t \in Task, Kernel!Awake(t), Moves(t, "c_look"), mutex_lock(t, Console)
  PROVE  /\ QueuesInv' /\ UNCHANGED << permits, semQueue >>
         /\ \/ /\ holder[Console] = Nobody /\ holder'[Console] = t
               /\ SameAwake
            \/ /\ UNCHANGED holder
               /\ \A u \in Task : Kernel!Awake(u)' <=> Kernel!Awake(u) /\ u # t
<1>1. CASE Kernel!Acquire(t, Console)
  <2>1. /\ holder[Console] = Nobody /\ holder' = [holder EXCEPT ![Console] = t]
        /\ UNCHANGED << lockQueue, permits, semQueue >>
    BY <1>1 DEF Kernel!Acquire
  <2>2. /\ permits' \in [Sems -> Nat] /\ holder' \in [{Console} -> Task \cup {Nobody}]
        /\ holder'[Console] = t
    BY <2>1 DEF QueuesInv, QueueTypeOK
  <2>3. "c_look" \in Pc /\ "c_look" \notin ReadPc
    BY DEF Pc, ReadPc
  <2>4. QueuesInv' /\ SameAwake
    BY <2>1, <2>2, <2>3, QueuesStay
  <2> QED BY <2>1, <2>2, <2>4
<1>2. CASE Kernel!QueueForLock(t, Console)
  <2> DEFINE q == lockQueue[Console]
  <2>1. /\ lockQueue' = [lockQueue EXCEPT ![Console] = Append(@, t)]
        /\ UNCHANGED << holder, permits, semQueue >>
    BY <1>2 DEF Kernel!QueueForLock
  <2>2. /\ ~Kernel!QueuedIn(t, q) /\ ~Kernel!QueuedIn(t, semQueue[ISem])
        /\ ~Kernel!QueuedIn(t, semQueue[OSem])
    BY AwakeMeans
  <2>3. lockQueue'[Console] = Append(q, t) /\ q \in Seq(Task)
    BY <2>1 DEF QueuesInv, QueueTypeOK
  <2>4. /\ Append(q, t) \in Seq(Task)
        /\ \A u : Kernel!QueuedIn(u, Append(q, t)) <=> Kernel!QueuedIn(u, q) \/ u = t
        /\ Apart(q) /\ ~Kernel!QueuedIn(t, q) => Apart(Append(q, t))
    BY <2>3, Enqueued
  <2>5. QueueTypeOK'
    BY <2>1, <2>4 DEF QueuesInv, QueueTypeOK, Moves, Pc
  <2>6. \A u \in Task : pc'[u] = IF u = t THEN "c_look" ELSE pc[u]
    BY DEF QueuesInv, QueueTypeOK, Moves
  <2>7. \A u \in Task : Kernel!Awake(u)' <=> Kernel!Awake(u) /\ u # t
    BY <2>1, <2>3, <2>4, AwakeMeans, AwakeThen
  <2>8. QueuesInv'
    BY <2>1, <2>2, <2>3, <2>4, <2>5, <2>6 DEF QueuesInv, ReadPc
  <2> QED BY <2>1, <2>7, <2>8
<1> QED BY <1>1, <1>2 DEF mutex_lock

(* Unlocking the console hands it to the first who waits.                  *)
LEMMA MutexUnlock ==
  ASSUME QueuesInv, NEW t \in Task, Kernel!Awake(t), Moves(t, "w_next"), mutex_unlock(t, Console)
  PROVE  /\ QueuesInv' /\ UNCHANGED << permits, semQueue >>
         /\ holder[Console] = t
         /\ \/ SameAwake
            \/ \E h \in Task : /\ ~Kernel!Awake(h) /\ pc[h] = "c_look" /\ pc'[h] = pc[h]
                               /\ holder'[Console] = h
                               /\ \A u \in Task : Kernel!Awake(u)' <=> Kernel!Awake(u) \/ u = h
<1>1. CASE Kernel!Release(t, Console)
  <2>1. /\ holder[Console] = t /\ holder' = [holder EXCEPT ![Console] = Nobody]
        /\ UNCHANGED << lockQueue, permits, semQueue >>
    BY <1>1 DEF Kernel!Release
  <2>2. permits' \in [Sems -> Nat] /\ holder' \in [{Console} -> Task \cup {Nobody}]
    BY <2>1 DEF QueuesInv, QueueTypeOK
  <2>3. "w_next" \in Pc /\ "w_next" \notin ReadPc
    BY DEF Pc, ReadPc
  <2>4. QueuesInv' /\ SameAwake
    BY <2>1, <2>2, <2>3, QueuesStay
  <2> QED BY <2>1, <2>4
<1>2. CASE Kernel!HandOver(t, Console)
  <2> DEFINE q == lockQueue[Console]
             h == Head(q)
  <2>1. /\ holder[Console] = t /\ q # <<>>
        /\ holder' = [holder EXCEPT ![Console] = h]
        /\ lockQueue' = [lockQueue EXCEPT ![Console] = Tail(@)]
        /\ UNCHANGED << permits, semQueue >>
    BY <1>2 DEF Kernel!HandOver
  <2>2. q \in Seq(Task) /\ Apart(q)
    BY DEF QueuesInv, QueueTypeOK
  <2>3. /\ h \in Task /\ Kernel!QueuedIn(h, q)
        /\ Tail(q) \in Seq(Task) /\ Apart(Tail(q))
        /\ \A u : Kernel!QueuedIn(u, Tail(q)) <=> Kernel!QueuedIn(u, q) /\ u # h
    BY <2>1, <2>2, Dequeued
  <2>4. lockQueue'[Console] = Tail(q) /\ holder'[Console] = h
    BY <2>1 DEF QueuesInv, QueueTypeOK
  <2>5. ~Kernel!Awake(h) /\ h # t /\ pc[h] = "c_look"
    BY <2>3, AwakeMeans DEF QueuesInv
  <2>6. \A u \in Task : pc'[u] = IF u = t THEN "w_next" ELSE pc[u]
    BY DEF QueuesInv, QueueTypeOK, Moves
  <2>7. QueueTypeOK'
    BY <2>1, <2>3 DEF QueuesInv, QueueTypeOK, Moves, Pc
  <2>8. ~Kernel!QueuedIn(h, semQueue[ISem]) /\ ~Kernel!QueuedIn(h, semQueue[OSem])
    BY <2>3, <2>5 DEF QueuesInv
  <2>9. \A u \in Task : Kernel!Awake(u)' <=> Kernel!Awake(u) \/ u = h
    BY <2>1, <2>3, <2>4, <2>8, AwakeMeans, AwakeThen
  <2>10. /\ ~Kernel!QueuedIn(t, q) /\ ~Kernel!QueuedIn(t, semQueue[ISem])
         /\ ~Kernel!QueuedIn(t, semQueue[OSem])
    BY AwakeMeans
  <2>11. QueuesInv'
    BY <2>1, <2>3, <2>4, <2>6, <2>7, <2>10 DEF QueuesInv, ReadPc
  <2> QED BY <2>1, <2>3, <2>4, <2>5, <2>6, <2>9, <2>11
<1> QED BY <1>1, <1>2 DEF mutex_unlock
------------------------------------------------------------------------------
(***************************************************************************)
(* Rings.  A place is live when it is among the first count from read on.  *)
(***************************************************************************)
Ring(r, n) ==
  /\ DOMAIN r = {"buf", "read", "write", "count"}
  /\ DOMAIN r.buf = 0..(n - 1)
  /\ r.read \in 0..(n - 1) /\ r.write \in 0..(n - 1) /\ r.count \in Int

Live(r, n, p) == IF p >= r.read THEN p - r.read < r.count ELSE p + n - r.read < r.count

(* The live places, and no others, have characters, and write comes next.  *)
RingRight(r, n) ==
  /\ Ring(r, n) /\ 0 <= r.count /\ r.count <= n
  /\ r.write = IF r.read + r.count < n THEN r.read + r.count ELSE r.read + r.count - n
  /\ \A p \in 0..(n - 1) : Live(r, n, p) <=> r.buf[p] # <<>>

(* How many places a ring has.                                             *)
LEMMA RingPlaces ==
  ASSUME NEW n \in Nat \ {0}, NEW r, Ring(r, n)
  PROVE  Places(r) = n
<1>1. Cardinality(0..(n - 1)) = n
  BY FS_Interval
<1> QED BY <1>1 DEF Ring, Places

(* What putting a character does to a ring,                                *)
LEMMA RingPut ==
  ASSUME NEW n \in Nat \ {0}, NEW r, Ring(r, n), NEW c
  PROVE  LET q == tty_fifo_put(r, c)
         IN  /\ Ring(q, n) /\ q.count = r.count + 1 /\ q.read = r.read
             /\ q.write = IF r.write + 1 >= n THEN 0 ELSE r.write + 1
             /\ \A p \in 0..(n - 1) : q.buf[p] = IF p = r.write THEN c ELSE r.buf[p]
<1> DEFINE q == tty_fifo_put(r, c)
<1>1. Places(r) = n
  BY RingPlaces
<1>2. /\ DOMAIN q = {"buf", "read", "write", "count"}
      /\ DOMAIN q.buf = 0..(n - 1)
      /\ \A p \in 0..(n - 1) : q.buf[p] = IF p = r.write THEN c ELSE r.buf[p]
      /\ q.read = r.read
      /\ q.count = r.count + 1
      /\ q.write = Advance(r, r.write)
  BY DEF tty_fifo_put, Ring
<1> QED BY <1>1, <1>2 DEF Ring, Advance

(* and getting one.                                                        *)
LEMMA RingGet ==
  ASSUME NEW n \in Nat \ {0}, NEW r, Ring(r, n)
  PROVE  LET q == tty_fifo_get(r)
         IN  /\ Ring(q, n) /\ q.count = r.count - 1 /\ q.write = r.write
             /\ q.read = IF r.read + 1 >= n THEN 0 ELSE r.read + 1
             /\ \A p \in 0..(n - 1) : q.buf[p] = IF p = r.read THEN <<>> ELSE r.buf[p]
<1> DEFINE q == tty_fifo_get(r)
<1>1. Places(r) = n
  BY RingPlaces
<1>2. /\ DOMAIN q = {"buf", "read", "write", "count"}
      /\ DOMAIN q.buf = 0..(n - 1)
      /\ \A p \in 0..(n - 1) : q.buf[p] = IF p = r.read THEN <<>> ELSE r.buf[p]
      /\ q.write = r.write
      /\ q.count = r.count - 1
      /\ q.read = Advance(r, r.read)
  BY DEF tty_fifo_get, Ring
<1> QED BY <1>1, <1>2 DEF Ring, Advance

(* A ring with room stays right when a character is put in,                *)
LEMMA RightPut ==
  ASSUME NEW n \in Nat \ {0}, NEW r, RingRight(r, n), r.count < n, NEW c, c # <<>>
  PROVE  RingRight(tty_fifo_put(r, c), n)
<1> DEFINE q == tty_fifo_put(r, c)
<1>1. /\ Ring(q, n) /\ q.count = r.count + 1 /\ q.read = r.read
      /\ q.write = IF r.write + 1 >= n THEN 0 ELSE r.write + 1
      /\ \A p \in 0..(n - 1) : q.buf[p] = IF p = r.write THEN c ELSE r.buf[p]
  BY RingPut DEF RingRight
<1>2. r.read \in 0..(n - 1) /\ r.count \in Int
  BY DEF RingRight, Ring
<1>3. q.write = IF q.read + q.count < n THEN q.read + q.count ELSE q.read + q.count - n
  BY <1>1, <1>2 DEF RingRight
<1>4. \A p \in 0..(n - 1) : Live(q, n, p) <=> Live(r, n, p) \/ p = r.write
  <2> SUFFICES ASSUME NEW p \in 0..(n - 1) PROVE Live(q, n, p) <=> Live(r, n, p) \/ p = r.write
    OBVIOUS
  <2>1. PICK a \in 0..(n - 1), k \in Int, w \in 0..(n - 1) : a = r.read /\ k = r.count /\ w = r.write
    BY DEF RingRight, Ring
  <2>2. 0 <= k /\ k < n /\ w = IF a + k < n THEN a + k ELSE a + k - n
    BY <2>1 DEF RingRight
  <2>3. Live(r, n, p) <=> IF p >= a THEN p - a < k ELSE p + n - a < k
    BY <2>1 DEF Live
  <2>4. Live(q, n, p) <=> IF p >= a THEN p - a < k + 1 ELSE p + n - a < k + 1
    BY <1>1, <2>1 DEF Live
  <2>5. (IF p >= a THEN p - a < k + 1 ELSE p + n - a < k + 1)
        <=> (IF p >= a THEN p - a < k ELSE p + n - a < k) \/ p = w
    BY <2>2
  <2> QED BY <2>1, <2>3, <2>4, <2>5
<1> HIDE DEF q
<1> QED BY <1>1, <1>2, <1>3, <1>4 DEF RingRight, q

(* and one with a character when it is got.                                *)
LEMMA RightGet ==
  ASSUME NEW n \in Nat \ {0}, NEW r, RingRight(r, n), r.count > 0
  PROVE  RingRight(tty_fifo_get(r), n)
<1> DEFINE q == tty_fifo_get(r)
<1>1. /\ Ring(q, n) /\ q.count = r.count - 1 /\ q.write = r.write
      /\ q.read = IF r.read + 1 >= n THEN 0 ELSE r.read + 1
      /\ \A p \in 0..(n - 1) : q.buf[p] = IF p = r.read THEN <<>> ELSE r.buf[p]
  BY RingGet DEF RingRight
<1>2. r.read \in 0..(n - 1) /\ r.count \in Int
  BY DEF RingRight, Ring
<1>3. q.write = IF q.read + q.count < n THEN q.read + q.count ELSE q.read + q.count - n
  BY <1>1, <1>2 DEF RingRight
<1>4. \A p \in 0..(n - 1) : Live(q, n, p) <=> Live(r, n, p) /\ p # r.read
  <2> SUFFICES ASSUME NEW p \in 0..(n - 1) PROVE Live(q, n, p) <=> Live(r, n, p) /\ p # r.read
    OBVIOUS
  <2>1. PICK a \in 0..(n - 1), k \in Int, b \in 0..(n - 1) : a = r.read /\ k = r.count /\ b = q.read
    BY <1>1 DEF RingRight, Ring
  <2>2. 0 < k /\ k <= n /\ b = IF a + 1 >= n THEN 0 ELSE a + 1
    BY <1>1, <2>1 DEF RingRight
  <2>3. Live(r, n, p) <=> IF p >= a THEN p - a < k ELSE p + n - a < k
    BY <2>1 DEF Live
  <2>4. Live(q, n, p) <=> IF p >= b THEN p - b < k - 1 ELSE p + n - b < k - 1
    BY <1>1, <2>1 DEF Live
  <2>5. (IF p >= b THEN p - b < k - 1 ELSE p + n - b < k - 1)
        <=> (IF p >= a THEN p - a < k ELSE p + n - a < k) /\ p # a
    BY <2>2
  <2> QED BY <2>1, <2>3, <2>4, <2>5
<1> HIDE DEF q
<1> QED BY <1>1, <1>2, <1>3, <1>4 DEF RingRight, q
------------------------------------------------------------------------------
(***************************************************************************)
(* Permits of osem: each is in the semaphore, in a process that is to put  *)
(* a character or has taken one, or spent on a character in the ring.      *)
(***************************************************************************)
ToPut == {"w_cr_look", "w_cr_put", "w_look", "w_put"}

Holding(t) == (Kernel!Awake(t) /\ pc[t] \in ToPut) \/ pc[t] = "c_notify"
Holders    == { t \in Task : Holding(t) }

Accounted == permits[OSem] + ofifo.count + Cardinality(Holders) = OBufSize

InConsole(t) == pc[t] \in {"c_get", "c_notify", "c_unlock"} \/ (pc[t] = "c_look" /\ Kernel!Awake(t))

(* Where a process is that may have characters in the ring.                *)
HasWritten == {"w_lf", "w_look", "w_put", "c_lock", "c_look", "c_get", "c_notify"}

NoneOf(t) == \A p \in 0..(OBufSize - 1) : ofifo.buf[p] # <<>> => ofifo.buf[p][1] # t

OutInv ==
  /\ RingRight(ofifo, OBufSize)
  /\ Accounted
  /\ \A t \in Task : InConsole(t) => holder[Console] = t
  /\ \A t \in Task : pc[t] = "c_get" => ofifo.count > 0
  /\ \A t \in Task : pc[t] \notin HasWritten => NoneOf(t)

(***************************************************************************)
(* Characters typed: each has a permit in the semaphore or with a reader.  *)
(***************************************************************************)
InInv == Ring(ififo, IBufSize) /\ NothingStranded

TtyInv == QueuesInv /\ OutInv /\ InInv

(* What the assumptions say of the numbers.                                *)
LEMMA TaskFinite ==
  /\ IsFiniteSet(Task) /\ OBufSize \in Nat \ {0} /\ IBufSize \in Nat \ {0}
  /\ \A S \in SUBSET Task : IsFiniteSet(S) /\ Cardinality(S) \in Nat
<1>1. IsFiniteSet(Task) /\ Cardinality(Task) < OBufSize /\ OBufSize \in Nat /\ IBufSize \in Nat \ {0}
  BY TtyAssumption
<1>2. \A S \in SUBSET Task : IsFiniteSet(S) /\ Cardinality(S) \in Nat
  BY <1>1, FS_Subset, FS_CardinalityType
<1> QED BY <1>1, <1>2

(* One more or one less of a set of processes.                             *)
LEMMA Counted ==
  ASSUME NEW S \in SUBSET Task, NEW x \in Task
  PROVE  /\ Cardinality(S) \in Nat /\ Cardinality(S \cup {x}) \in Nat
         /\ x \notin S => Cardinality(S \cup {x}) = Cardinality(S) + 1
         /\ x \in S => Cardinality(S \ {x}) = Cardinality(S) - 1 /\ Cardinality(S) > 0
<1>1. /\ IsFiniteSet(S) /\ Cardinality(S) \in Nat
      /\ Cardinality(S \cup {x}) \in Nat /\ Cardinality(S \ {x}) \in Nat
  BY TaskFinite
<1>2. x \notin S => Cardinality(S \cup {x}) = Cardinality(S) + 1
  BY <1>1, FS_AddElement
<1>3. x \in S => Cardinality(S \ {x}) = Cardinality(S) - 1
  BY <1>1, FS_RemoveElement
<1> QED BY <1>1, <1>2, <1>3
------------------------------------------------------------------------------
(***************************************************************************)
(* The steps.  First, what has to stay for the output and for the input to *)
(* be as before.                                                           *)
(***************************************************************************)
LEMMA OutStays ==
  ASSUME OutInv, UNCHANGED << ofifo, holder >>, permits'[OSem] = permits[OSem],
         \A u \in Task : /\ Holding(u)' = Holding(u)
                         /\ InConsole(u)' => InConsole(u)
                         /\ pc'[u] = "c_get" => ofifo.count > 0
                         /\ pc'[u] \notin HasWritten => NoneOf(u)
  PROVE  OutInv'
<1>1. Holders' = Holders
  BY DEF Holders
<1> QED BY <1>1 DEF OutInv, Accounted, NoneOf

Coming(t) == Kernel!Awake(t) /\ pc[t] \in {"r_look", "r_get"}

(* The input is as before when its ring, permits and queue are.            *)
LEMMA InStays ==
  ASSUME InInv, UNCHANGED ififo, permits'[ISem] = permits[ISem], semQueue'[ISem] = semQueue[ISem],
         \A u \in Reader : Coming(u)' = Coming(u)
  PROVE  InInv'
<1>1. OnTheirWay' = OnTheirWay
  BY DEF OnTheirWay, Coming
<1> QED BY <1>1 DEF InInv, NothingStranded

(* What Goes says of pc.                                                   *)
LEMMA Going ==
  ASSUME QueuesInv, NEW t \in Task, NEW from, NEW to, Goes(t, from, to)
  PROVE  /\ Kernel!Awake(t) /\ pc[t] = from /\ Moves(t, to)
         /\ \A u \in Task : pc'[u] = IF u = t THEN to ELSE pc[u]
BY DEF Goes, Moves, QueuesInv, QueueTypeOK

(* Where tty_write returns to.                                             *)
LEMMA Returning ==
  ASSUME NEW t \in Task
  PROVE  Returns(t) \in {"r_echoed", "user"} /\ (Returns(t) \in ReadPc => t \in Reader)
BY DEF Returns, ReadPc

(* A call begins or ends: neither the rings nor the queues are concerned.  *)
Aside == {"user", "w_next", "r_wait", "r_echoed"}

(* Then everything is as before.                                           *)
LEMMA AsideStep ==
  ASSUME TtyInv, NEW t \in Task, NEW from \in Aside, NEW to \in Aside, Goes(t, from, to),
         to \in ReadPc => t \in Reader,
         UNCHANGED << kernelVars, ififo, ofifo >>
  PROVE  TtyInv'
<1>1. /\ Kernel!Awake(t) /\ pc[t] = from /\ Moves(t, to)
      /\ \A u \in Task : pc'[u] = IF u = t THEN to ELSE pc[u]
  BY Going DEF TtyInv
<1>2. to \in Pc
  BY DEF Pc, Aside
<1>3. UNCHANGED << holder, lockQueue, permits, semQueue >>
  BY DEF kernelVars
<1>4. holder' \in [{Console} -> Task \cup {Nobody}] /\ permits' \in [Sems -> Nat]
  BY <1>3 DEF TtyInv, QueuesInv, QueueTypeOK
<1>5. QueuesInv' /\ SameAwake
  BY <1>1, <1>2, <1>3, <1>4, QueuesStay DEF TtyInv
<1>6. OutInv'
  <2>1. \A u \in Task : /\ Holding(u)' = Holding(u)
                        /\ InConsole(u)' => InConsole(u)
                        /\ pc'[u] = "c_get" => ofifo.count > 0
                        /\ pc'[u] \notin HasWritten => NoneOf(u)
    BY <1>1, <1>5 DEF TtyInv, OutInv, SameAwake, Holding, ToPut, InConsole, HasWritten, Aside
  <2> QED BY <1>3, <2>1, OutStays DEF TtyInv
<1>7. InInv'
  <2>1. \A u \in Reader : Coming(u)' = Coming(u)
    BY <1>1, <1>5 DEF SameAwake, Coming, Aside, Task
  <2> QED BY <1>3, <2>1, InStays DEF TtyInv
<1> QED BY <1>5, <1>6, <1>7 DEF TtyInv

(* The look at the ring before a character is put in: there is room.       *)
LEMMA RoomForHolders ==
  ASSUME TtyInv, NEW t \in Task, Holding(t)
  PROVE  ~IsFull(ofifo) /\ ofifo.count < OBufSize
<1>1. Places(ofifo) = OBufSize
  BY TaskFinite, RingPlaces DEF TtyInv, OutInv, RingRight
<1>2. t \in Holders /\ Holders \subseteq Task
  BY DEF Holders
<1>3. Cardinality(Holders) \in Nat /\ Cardinality(Holders) > 0
  BY <1>2, Counted
<1>4. permits[OSem] \in Nat /\ ofifo.count \in Int /\ OBufSize \in Nat
  BY TaskFinite DEF TtyInv, QueuesInv, QueueTypeOK, Sems, OutInv, RingRight, Ring
<1>5. ofifo.count < OBufSize
  BY <1>3, <1>4 DEF TtyInv, OutInv, Accounted
<1> QED BY <1>1, <1>4, <1>5 DEF IsFull

(* The look of a writer finds room.                                        *)
LEMMA WriteLookStep ==
  ASSUME TtyInv, NEW t \in Task, tty_write_look(t)
  PROVE  TtyInv'
<1>1. PICK from \in {"w_cr_look", "w_look"}, to \in {"w_cr_put", "w_put"} :
        Goes(t, from, to) /\ (from = "w_look" <=> to = "w_put")
  <2>1. Kernel!Awake(t) /\ pc[t] \in {"w_cr_look", "w_look"}
    BY DEF tty_write_look, Goes
  <2>2. ~IsFull(ofifo)
    BY <2>1, RoomForHolders DEF Holding, ToPut
  <2> QED BY <2>2 DEF tty_write_look
<1>2. /\ Kernel!Awake(t) /\ pc[t] = from /\ Moves(t, to)
      /\ \A u \in Task : pc'[u] = IF u = t THEN to ELSE pc[u]
  BY <1>1, Going DEF TtyInv
<1>3. to \in Pc /\ to \notin ReadPc
  BY DEF Pc, ReadPc
<1>4. UNCHANGED << holder, lockQueue, permits, semQueue, ififo, ofifo >>
  BY DEF tty_write_look, kernelVars
<1>5. holder' \in [{Console} -> Task \cup {Nobody}] /\ permits' \in [Sems -> Nat]
  BY <1>4 DEF TtyInv, QueuesInv, QueueTypeOK
<1>6. QueuesInv' /\ SameAwake
  BY <1>2, <1>3, <1>4, <1>5, QueuesStay DEF TtyInv
<1>7. OutInv'
  <2>1. \A u \in Task : /\ Holding(u)' = Holding(u)
                        /\ InConsole(u)' => InConsole(u)
                        /\ pc'[u] = "c_get" => ofifo.count > 0
                        /\ pc'[u] \notin HasWritten => NoneOf(u)
    BY <1>1, <1>2, <1>6 DEF TtyInv, OutInv, SameAwake, Holding, ToPut, InConsole, HasWritten
  <2> QED BY <1>4, <2>1, OutStays DEF TtyInv
<1>8. InInv'
  <2>1. \A u \in Reader : Coming(u)' = Coming(u)
    BY <1>2, <1>6 DEF SameAwake, Coming, Task
  <2> QED BY <1>4, <2>1, InStays DEF TtyInv
<1> QED BY <1>6, <1>7, <1>8 DEF TtyInv

(* The look of console_write: there is a character to get, or none at all, *)
(* and so none of its own.                                                 *)
LEMMA NoneInEmptyRing ==
  ASSUME RingRight(ofifo, OBufSize), ofifo.count <= 0
  PROVE  \A t : NoneOf(t)
<1>1. \A p \in 0..(OBufSize - 1) : ~Live(ofifo, OBufSize, p)
  <2>1. ofifo.read \in 0..(OBufSize - 1) /\ ofifo.count = 0 /\ OBufSize \in Nat \ {0}
    BY TaskFinite DEF RingRight, Ring
  <2> QED BY <2>1 DEF Live
<1> QED BY <1>1 DEF RingRight, NoneOf

(* The look of console_write finds a character, or goes to unlock.         *)
LEMMA ConsoleLookStep ==
  ASSUME TtyInv, NEW t \in Task, console_write_look(t)
  PROVE  TtyInv'
<1>1. PICK to \in {"c_get", "c_unlock"} :
        Goes(t, "c_look", to) /\ (to = "c_unlock" <=> IsEmpty(ofifo))
  BY DEF console_write_look
<1>2. /\ Kernel!Awake(t) /\ pc[t] = "c_look" /\ Moves(t, to)
      /\ \A u \in Task : pc'[u] = IF u = t THEN to ELSE pc[u]
  BY <1>1, Going DEF TtyInv
<1>3. to \in Pc /\ to \notin ReadPc
  BY DEF Pc, ReadPc
<1>4. UNCHANGED << holder, lockQueue, permits, semQueue, ififo, ofifo >>
  BY DEF console_write_look, kernelVars
<1>5. holder' \in [{Console} -> Task \cup {Nobody}] /\ permits' \in [Sems -> Nat]
  BY <1>4 DEF TtyInv, QueuesInv, QueueTypeOK
<1>6. QueuesInv' /\ SameAwake
  BY <1>2, <1>3, <1>4, <1>5, QueuesStay DEF TtyInv
<1>7. OutInv'
  <2>1. ofifo.count \in Int
    BY DEF TtyInv, OutInv, RingRight, Ring
  <2>2. to = "c_get" => ofifo.count > 0
    BY <1>1, <2>1 DEF IsEmpty
  <2>3. to = "c_unlock" => NoneOf(t)
    BY <1>1, NoneInEmptyRing DEF IsEmpty, TtyInv, OutInv
  <2>4. \A u \in Task : /\ Holding(u)' = Holding(u)
                        /\ InConsole(u)' => InConsole(u)
                        /\ pc'[u] = "c_get" => ofifo.count > 0
                        /\ pc'[u] \notin HasWritten => NoneOf(u)
    BY <1>2, <1>6, <2>2, <2>3 DEF TtyInv, OutInv, SameAwake, Holding, ToPut, InConsole, HasWritten
  <2> QED BY <1>4, <2>4, OutStays DEF TtyInv
<1>8. InInv'
  <2>1. \A u \in Reader : Coming(u)' = Coming(u)
    BY <1>2, <1>6 DEF SameAwake, Coming, Task
  <2> QED BY <1>4, <2>1, InStays DEF TtyInv
<1> QED BY <1>6, <1>7, <1>8 DEF TtyInv
------------------------------------------------------------------------------
(* The steps of tty_read at the ring, and the interrupt.  For the output   *)
(* they are nothing.                                                       *)
ReadSide == {"r_wait", "r_look", "r_get", "w_next"}

(* The output is as before when a reader goes on,                          *)
LEMMA OutAside ==
  ASSUME TtyInv, UNCHANGED << ofifo, holder >>, permits'[OSem] = permits[OSem],
         NEW t \in Task, NEW from \in ReadSide, NEW to \in ReadSide, pc[t] = from,
         \A u \in Task : pc'[u] = IF u = t THEN to ELSE pc[u],
         \A u \in Task : u # t => Kernel!Awake(u)' = Kernel!Awake(u)
  PROVE  OutInv'
<1>1. \A u \in Task : /\ Holding(u)' = Holding(u)
                      /\ InConsole(u)' => InConsole(u)
                      /\ pc'[u] = "c_get" => ofifo.count > 0
                      /\ pc'[u] \notin HasWritten => NoneOf(u)
  BY DEF TtyInv, OutInv, Holding, ToPut, InConsole, HasWritten, ReadSide
<1> QED BY <1>1, OutStays DEF TtyInv

(* One more or one less on its way to the ring.                            *)
LEMMA WayCounted ==
  ASSUME NEW x \in Reader
  PROVE  /\ OnTheirWay \in SUBSET Task /\ Cardinality(OnTheirWay) \in Nat
         /\ x \notin OnTheirWay => Cardinality(OnTheirWay \cup {x}) = Cardinality(OnTheirWay) + 1
         /\ x \in OnTheirWay => Cardinality(OnTheirWay \ {x}) = Cardinality(OnTheirWay) - 1
                               /\ Cardinality(OnTheirWay) > 0
BY Counted DEF OnTheirWay, Task

(* tty_read looks at the ring,                                             *)
LEMMA ReadLookStep ==
  ASSUME TtyInv, NEW t \in Task, tty_read_look(t)
  PROVE  TtyInv'
<1>1. PICK to \in {"r_wait", "w_next", "r_get"} :
        Goes(t, "r_look", to) /\ (to # "r_get" => IsEmpty(ififo))
  BY DEF tty_read_look, Took
<1>2. /\ Kernel!Awake(t) /\ pc[t] = "r_look" /\ Moves(t, to)
      /\ \A u \in Task : pc'[u] = IF u = t THEN to ELSE pc[u]
  BY <1>1, Going DEF TtyInv
<1>3. to \in Pc /\ t \in Reader
  BY <1>2 DEF Pc, ReadPc, TtyInv, QueuesInv
<1>4. UNCHANGED << holder, lockQueue, permits, semQueue, ififo, ofifo >>
  BY DEF tty_read_look, kernelVars
<1>5. holder' \in [{Console} -> Task \cup {Nobody}] /\ permits' \in [Sems -> Nat]
  BY <1>4 DEF TtyInv, QueuesInv, QueueTypeOK
<1>6. QueuesInv' /\ SameAwake
  BY <1>2, <1>3, <1>4, <1>5, QueuesStay DEF TtyInv
<1>7. OutInv'
  BY <1>2, <1>4, <1>6, OutAside DEF ReadSide, SameAwake
<1>8. InInv'
  <2>1. CASE to = "r_get"
    <3>1. \A u \in Reader : Coming(u)' = Coming(u)
      BY <1>2, <1>6, <2>1 DEF SameAwake, Coming, Task
    <3> QED BY <1>4, <3>1, InStays DEF TtyInv
  <2>2. CASE to # "r_get"
    <3>1. ififo.count <= 0 /\ ififo.count \in Int /\ permits[ISem] \in Nat
      BY <1>1, <2>2 DEF IsEmpty, TtyInv, InInv, Ring, QueuesInv, QueueTypeOK, Sems
    <3>2. OnTheirWay' \in SUBSET Task
      BY DEF OnTheirWay, Task
    <3>3. Cardinality(OnTheirWay') \in Nat
      BY <3>2, TaskFinite
    <3>4. Cardinality(OnTheirWay)' = Cardinality(OnTheirWay')
      OBVIOUS
    <3> QED BY <1>4, <3>1, <3>3, <3>4 DEF TtyInv, InInv, NothingStranded
  <2> QED BY <2>1, <2>2
<1> QED BY <1>6, <1>7, <1>8 DEF TtyInv

(* gets its character,                                                     *)
LEMMA ReadGetStep ==
  ASSUME TtyInv, NEW t \in Task, tty_read_get(t)
  PROVE  TtyInv'
<1>1. PICK to \in {"r_wait", "w_next"} : Goes(t, "r_get", to)
  BY DEF tty_read_get, Took
<1>2. /\ Kernel!Awake(t) /\ pc[t] = "r_get" /\ Moves(t, to)
      /\ \A u \in Task : pc'[u] = IF u = t THEN to ELSE pc[u]
  BY <1>1, Going DEF TtyInv
<1>3. to \in Pc /\ t \in Reader
  BY <1>2 DEF Pc, ReadPc, TtyInv, QueuesInv
<1>4. /\ UNCHANGED << holder, lockQueue, permits, semQueue, ofifo >>
      /\ ififo' = tty_fifo_get(ififo)
  BY DEF tty_read_get, kernelVars
<1>5. holder' \in [{Console} -> Task \cup {Nobody}] /\ permits' \in [Sems -> Nat]
  BY <1>4 DEF TtyInv, QueuesInv, QueueTypeOK
<1>6. QueuesInv' /\ SameAwake
  BY <1>2, <1>3, <1>4, <1>5, QueuesStay DEF TtyInv
<1>7. OutInv'
  BY <1>2, <1>4, <1>6, OutAside DEF ReadSide, SameAwake
<1>8. InInv'
  <2>1. Ring(ififo, IBufSize)' /\ ififo'.count = ififo.count - 1
    BY <1>4, RingGet, TaskFinite DEF TtyInv, InInv
  <2>2. t \in OnTheirWay /\ OnTheirWay' = OnTheirWay \ {t}
    BY <1>2, <1>3, <1>6 DEF OnTheirWay, SameAwake, Task
  <2>3. Cardinality(OnTheirWay') = Cardinality(OnTheirWay) - 1 /\ Cardinality(OnTheirWay) \in Nat
    BY <1>3, <2>2, WayCounted
  <2>4. ififo.count \in Int /\ permits[ISem] \in Nat
    BY DEF TtyInv, InInv, Ring, QueuesInv, QueueTypeOK, Sems
  <2> QED BY <1>4, <2>1, <2>3, <2>4 DEF TtyInv, InInv, NothingStranded
<1> QED BY <1>6, <1>7, <1>8 DEF TtyInv

(* and waits for a permit.                                                 *)
LEMMA ReadWaitStep ==
  ASSUME TtyInv, NEW t \in Task, tty_read_wait(t)
  PROVE  TtyInv'
<1>1. /\ Kernel!Awake(t) /\ pc[t] = "r_wait" /\ Moves(t, "r_look")
      /\ \A u \in Task : pc'[u] = IF u = t THEN "r_look" ELSE pc[u]
  BY Going DEF TtyInv, tty_read_wait
<1>2. t \in Reader
  BY <1>1 DEF ReadPc, TtyInv, QueuesInv
<1>3. UNCHANGED << ififo, ofifo >> /\ sem_wait(t, ISem) /\ ISem \in Sems /\ OSem \in Sems /\ OSem # ISem
  BY DEF tty_read_wait, Sems, ISem, OSem
<1>4. /\ QueuesInv' /\ UNCHANGED << holder, lockQueue >>
      /\ \/ /\ permits[ISem] > 0 /\ semQueue[ISem] = <<>>
            /\ permits' = [permits EXCEPT ![ISem] = @ - 1]
            /\ UNCHANGED semQueue
            /\ SameAwake
         \/ /\ permits[ISem] = 0 /\ UNCHANGED permits
            /\ semQueue'[ISem] # <<>>
            /\ \A r \in Sems : r # ISem => semQueue'[r] = semQueue[r]
            /\ \A u \in Task : Kernel!Awake(u)' <=> Kernel!Awake(u) /\ u # t
  BY <1>1, <1>2, <1>3, SemWait DEF TtyInv
<1>5. permits \in [Sems -> Nat] /\ ififo.count \in Int /\ permits[ISem] \in Nat
  BY <1>3 DEF TtyInv, QueuesInv, QueueTypeOK, InInv, Ring
<1>6. OutInv'
  <2>1. permits'[OSem] = permits[OSem]
    BY <1>3, <1>4, <1>5
  <2>2. \A u \in Task : u # t => Kernel!Awake(u)' = Kernel!Awake(u)
    <3>1. CASE SameAwake
      BY <3>1 DEF SameAwake
    <3>2. CASE \A u \in Task : Kernel!Awake(u)' <=> Kernel!Awake(u) /\ u # t
      <4> SUFFICES ASSUME NEW u \in Task, u # t PROVE Kernel!Awake(u)' <=> Kernel!Awake(u)
        BY DEF Kernel!Awake
      <4> QED BY <3>2
    <3> QED BY <1>4, <3>1, <3>2
  <2> QED BY <1>1, <1>3, <1>4, <2>1, <2>2, OutAside DEF ReadSide
<1>7. InInv'
  <2>1. CASE /\ permits[ISem] > 0 /\ semQueue[ISem] = <<>>
             /\ permits' = [permits EXCEPT ![ISem] = @ - 1]
             /\ UNCHANGED semQueue
             /\ SameAwake
    <3>1. t \notin OnTheirWay /\ OnTheirWay' = OnTheirWay \cup {t}
      BY <1>1, <1>2, <2>1 DEF OnTheirWay, SameAwake, Task
    <3>2. Cardinality(OnTheirWay') = Cardinality(OnTheirWay) + 1 /\ Cardinality(OnTheirWay) \in Nat
      BY <1>2, <3>1, WayCounted
    <3>3. permits'[ISem] = permits[ISem] - 1
      BY <1>3, <1>5, <2>1
    <3> QED BY <1>3, <1>5, <2>1, <3>2, <3>3 DEF TtyInv, InInv, NothingStranded
  <2>2. CASE /\ permits[ISem] = 0 /\ UNCHANGED permits
             /\ \A u \in Task : Kernel!Awake(u)' <=> Kernel!Awake(u) /\ u # t
    <3>1. OnTheirWay' = OnTheirWay
      BY <1>1, <1>2, <2>2 DEF OnTheirWay, Task
    <3> QED BY <1>3, <2>2, <3>1 DEF TtyInv, InInv, NothingStranded
  <2> QED BY <1>4, <2>1, <2>2
<1> QED BY <1>4, <1>6, <1>7 DEF TtyInv

(* tty_in: a character more at most, and a permit more, or a reader awake. *)
LEMMA KeyStep ==
  ASSUME TtyInv, NEW c, tty_in(c)
  PROVE  TtyInv'
<1>1. UNCHANGED << ofifo, pc >> /\ ISem \in Sems /\ OSem \in Sems /\ OSem # ISem
  BY DEF tty_in, Sems, ISem, OSem
<1>2. CASE UNCHANGED << kernelVars, ififo >>
  <2>1. UNCHANGED << holder, lockQueue, permits, semQueue, ififo >>
    BY <1>2 DEF kernelVars
  <2>2. holder' \in [{Console} -> Task \cup {Nobody}] /\ permits' \in [Sems -> Nat]
    BY <2>1 DEF TtyInv, QueuesInv, QueueTypeOK
  <2>3. QueuesInv' /\ SameAwake
    BY <1>1, <2>1, <2>2, QueuesStay DEF TtyInv
  <2>4. OutInv'
    <3>1. \A u \in Task : /\ Holding(u)' = Holding(u)
                          /\ InConsole(u)' => InConsole(u)
                          /\ pc'[u] = "c_get" => ofifo.count > 0
                          /\ pc'[u] \notin HasWritten => NoneOf(u)
      BY <1>1, <2>3 DEF TtyInv, OutInv, SameAwake, Holding, InConsole
    <3> QED BY <1>1, <2>1, <3>1, OutStays DEF TtyInv
  <2>5. InInv'
    <3>1. \A u \in Reader : Coming(u)' = Coming(u)
      BY <1>1, <2>3 DEF SameAwake, Coming, Task
    <3> QED BY <2>1, <3>1, InStays DEF TtyInv
  <2> QED BY <2>3, <2>4, <2>5 DEF TtyInv
<1>3. CASE /\ ififo' = IF IsFull(ififo) THEN ififo ELSE tty_fifo_put(ififo, << keys + 1, c >>)
           /\ sem_notify(ISem)
           /\ UNCHANGED << holder, lockQueue >>
  <2>1. /\ QueuesInv'
        /\ \/ /\ semQueue[ISem] = <<>> /\ permits' = [permits EXCEPT ![ISem] = @ + 1]
              /\ UNCHANGED semQueue
              /\ SameAwake
           \/ /\ semQueue[ISem] # <<>> /\ UNCHANGED permits
              /\ \A r \in Sems : r # ISem => semQueue'[r] = semQueue[r]
              /\ \E h \in Task :
                   /\ Kernel!QueuedIn(h, semQueue[ISem]) /\ ~Kernel!Awake(h)
                   /\ pc'[h] = pc[h]
                   /\ \A u \in Task : Kernel!Awake(u)' <=> Kernel!Awake(u) \/ u = h
    BY <1>1, <1>3, SemNotify DEF TtyInv
  <2>2. permits \in [Sems -> Nat] /\ ififo.count \in Int /\ permits[ISem] \in Nat
    BY <1>1 DEF TtyInv, QueuesInv, QueueTypeOK, InInv, Ring
  <2>3. Ring(ififo, IBufSize)' /\ ififo'.count \in Int /\ ififo'.count <= ififo.count + 1
    <3>1. CASE ififo' = ififo
      BY <2>2, <3>1 DEF TtyInv, InInv
    <3>2. CASE ififo' = tty_fifo_put(ififo, << keys + 1, c >>)
      BY <2>2, <3>2, RingPut, TaskFinite DEF TtyInv, InInv
    <3> QED BY <1>3, <3>1, <3>2
  <2>4. CASE semQueue[ISem] = <<>> /\ permits' = [permits EXCEPT ![ISem] = @ + 1] /\ UNCHANGED semQueue /\ SameAwake
    <3>1. OutInv'
      <4>1. permits'[OSem] = permits[OSem]
        BY <1>1, <2>2, <2>4
      <4>2. \A u \in Task : /\ Holding(u)' = Holding(u)
                            /\ InConsole(u)' => InConsole(u)
                            /\ pc'[u] = "c_get" => ofifo.count > 0
                            /\ pc'[u] \notin HasWritten => NoneOf(u)
        BY <1>1, <2>4 DEF TtyInv, OutInv, SameAwake, Holding, InConsole
      <4> QED BY <1>1, <1>3, <4>1, <4>2, OutStays DEF TtyInv
    <3>2. OnTheirWay' = OnTheirWay
      BY <1>1, <2>4 DEF OnTheirWay, SameAwake, Task
    <3>3. Cardinality(OnTheirWay) \in Nat
      BY TaskFinite DEF OnTheirWay, Task
    <3>4. permits'[ISem] = permits[ISem] + 1
      BY <1>1, <2>2, <2>4
    <3>5. InInv'
      BY <2>2, <2>3, <2>4, <3>2, <3>3, <3>4 DEF TtyInv, InInv, NothingStranded
    <3> QED BY <2>1, <3>1, <3>5 DEF TtyInv
  <2>5. CASE /\ semQueue[ISem] # <<>> /\ UNCHANGED permits
             /\ \E h \in Task :
                   /\ Kernel!QueuedIn(h, semQueue[ISem]) /\ ~Kernel!Awake(h)
                   /\ \A u \in Task : Kernel!Awake(u)' <=> Kernel!Awake(u) \/ u = h
    <3>1. PICK h \in Task : /\ Kernel!QueuedIn(h, semQueue[ISem]) /\ ~Kernel!Awake(h)
                            /\ \A u \in Task : Kernel!Awake(u)' <=> Kernel!Awake(u) \/ u = h
      BY <2>5
    <3>2. pc[h] = "r_look" /\ h \in Reader
      BY <3>1 DEF TtyInv, QueuesInv, ReadPc
    <3>3. OutInv'
      <4>1. \A u \in Task : /\ Holding(u)' = Holding(u)
                            /\ InConsole(u)' => InConsole(u)
                            /\ pc'[u] = "c_get" => ofifo.count > 0
                            /\ pc'[u] \notin HasWritten => NoneOf(u)
        BY <1>1, <3>1, <3>2 DEF TtyInv, OutInv, Holding, ToPut, InConsole
      <4> QED BY <1>1, <1>3, <2>5, <4>1, OutStays DEF TtyInv
    <3>4. h \notin OnTheirWay /\ OnTheirWay' = OnTheirWay \cup {h}
      BY <1>1, <3>1, <3>2 DEF OnTheirWay, Task
    <3>5. Cardinality(OnTheirWay') = Cardinality(OnTheirWay) + 1 /\ Cardinality(OnTheirWay) \in Nat
      BY <3>2, <3>4, WayCounted
    <3>6. permits[ISem] = 0
      BY <2>5 DEF TtyInv, InInv, NothingStranded
    <3>7. InInv'
      BY <2>2, <2>3, <2>5, <3>5, <3>6 DEF TtyInv, InInv, NothingStranded
    <3> QED BY <2>1, <3>3, <3>7 DEF TtyInv
  <2> QED BY <2>1, <2>4, <2>5
<1> QED BY <1>2, <1>3 DEF tty_in
------------------------------------------------------------------------------
(***************************************************************************)
(* The steps that move a permit or the console's mutex.                    *)
(***************************************************************************)
LEMMA WriteWaitStep ==
  ASSUME TtyInv, NEW t \in Task, tty_write_wait(t)
  PROVE  TtyInv'
<1>1. PICK from \in {"w_next", "w_lf"}, to \in {"w_cr_look", "w_look"} :
        Goes(t, from, to) /\ (from = "w_lf" => to = "w_look")
  BY DEF tty_write_wait
<1>2. /\ Kernel!Awake(t) /\ pc[t] = from /\ Moves(t, to)
      /\ \A u \in Task : pc'[u] = IF u = t THEN to ELSE pc[u]
  BY <1>1, Going DEF TtyInv
<1>3. UNCHANGED << ififo, ofifo >> /\ sem_wait(t, OSem) /\ ISem \in Sems /\ OSem \in Sems /\ OSem # ISem
  BY DEF tty_write_wait, Sems, ISem, OSem
<1>4. /\ QueuesInv' /\ UNCHANGED << holder, lockQueue >>
      /\ \/ /\ permits[OSem] > 0 /\ semQueue[OSem] = <<>>
            /\ permits' = [permits EXCEPT ![OSem] = @ - 1]
            /\ UNCHANGED semQueue
            /\ SameAwake
         \/ /\ permits[OSem] = 0 /\ UNCHANGED permits
            /\ semQueue'[OSem] # <<>>
            /\ \A r \in Sems : r # OSem => semQueue'[r] = semQueue[r]
            /\ \A u \in Task : Kernel!Awake(u)' <=> Kernel!Awake(u) /\ u # t
  BY <1>2, <1>3, SemWait DEF TtyInv
<1>5. permits \in [Sems -> Nat] /\ ofifo.count \in Int /\ permits[OSem] \in Nat
  BY <1>3 DEF TtyInv, QueuesInv, QueueTypeOK, OutInv, RingRight, Ring
<1>6. \A u \in Task : /\ InConsole(u)' => InConsole(u)
                      /\ pc'[u] = "c_get" => ofifo.count > 0
                      /\ pc'[u] \notin HasWritten => NoneOf(u)
  <2> SUFFICES ASSUME NEW u \in Task
               PROVE  /\ InConsole(u)' => InConsole(u)
                      /\ pc'[u] = "c_get" => ofifo.count > 0
                      /\ pc'[u] \notin HasWritten => NoneOf(u)
    OBVIOUS
  <2>1. u # t => (Kernel!Awake(u)' => Kernel!Awake(u))
    BY <1>4 DEF SameAwake
  <2> QED BY <1>1, <1>2, <2>1 DEF TtyInv, OutInv, InConsole, HasWritten
<1>7. OutInv'
  <2>1. CASE /\ permits' = [permits EXCEPT ![OSem] = @ - 1] /\ permits[OSem] > 0
             /\ SameAwake
    <3>1. t \notin Holders /\ Holders' = Holders \cup {t}
      BY <1>2, <2>1 DEF Holders, Holding, ToPut, SameAwake
    <3>2. Cardinality(Holders') = Cardinality(Holders) + 1 /\ Cardinality(Holders) \in Nat
      BY <3>1, Counted DEF Holders
    <3>3. permits'[OSem] = permits[OSem] - 1
      BY <1>3, <1>5, <2>1
    <3>4. Accounted'
      BY <1>3, <1>5, <3>2, <3>3, TaskFinite DEF TtyInv, OutInv, Accounted
    <3> QED BY <1>3, <1>4, <1>6, <3>4 DEF TtyInv, OutInv, NoneOf
  <2>2. CASE /\ UNCHANGED permits
             /\ \A u \in Task : Kernel!Awake(u)' <=> Kernel!Awake(u) /\ u # t
    <3>1. Holders' = Holders
      BY <1>2, <2>2 DEF Holders, Holding, ToPut
    <3>2. Accounted'
      BY <1>3, <2>2, <3>1 DEF TtyInv, OutInv, Accounted
    <3> QED BY <1>3, <1>4, <1>6, <3>2 DEF TtyInv, OutInv, NoneOf
  <2> QED BY <1>4, <2>1, <2>2
<1>8. InInv'
  <2>1. permits'[ISem] = permits[ISem] /\ semQueue'[ISem] = semQueue[ISem]
    BY <1>3, <1>4, <1>5
  <2>2. \A u \in Reader : Coming(u)' <=> Coming(u)
    <3> SUFFICES ASSUME NEW u \in Reader PROVE Coming(u)' <=> Coming(u)
      OBVIOUS
    <3>1. u \in Task
      BY DEF Task
    <3>2. u # t => (Kernel!Awake(u)' <=> Kernel!Awake(u))
      BY <1>4, <3>1 DEF SameAwake
    <3> QED BY <1>2, <3>1, <3>2 DEF Coming
  <2>3. \A u \in Reader : Coming(u)' = Coming(u)
    BY <2>2 DEF Coming
  <2> QED BY <1>3, <2>1, <2>3, InStays DEF TtyInv
<1> QED BY <1>4, <1>7, <1>8 DEF TtyInv

(* A writer puts its character, where there is room.                       *)
LEMMA WritePutStep ==
  ASSUME TtyInv, NEW t \in Task, tty_write_put(t)
  PROVE  TtyInv'
<1>0. PICK from \in {"w_cr_put", "w_put"}, to \in {"w_lf", "c_lock"} :
        Goes(t, from, to) /\ \E c : ofifo' = tty_fifo_put(ofifo, << t, c >>)
  BY DEF tty_write_put
<1>1. PICK c : ofifo' = tty_fifo_put(ofifo, << t, c >>)
  BY <1>0
<1>2. /\ Kernel!Awake(t) /\ pc[t] = from /\ Moves(t, to)
      /\ \A u \in Task : pc'[u] = IF u = t THEN to ELSE pc[u]
  BY <1>0, Going DEF TtyInv
<1>3. to \in Pc /\ to \notin ReadPc
  BY DEF Pc, ReadPc
<1>4. UNCHANGED << holder, lockQueue, permits, semQueue, ififo >>
  BY DEF tty_write_put, kernelVars
<1>5. holder' \in [{Console} -> Task \cup {Nobody}] /\ permits' \in [Sems -> Nat]
  BY <1>4 DEF TtyInv, QueuesInv, QueueTypeOK
<1>6. QueuesInv' /\ SameAwake
  BY <1>2, <1>3, <1>4, <1>5, QueuesStay DEF TtyInv
<1>7. t \in Holders /\ Holders' = Holders \ {t}
  BY <1>2, <1>6 DEF Holders, Holding, ToPut, SameAwake
<1>8. Cardinality(Holders') = Cardinality(Holders) - 1 /\ Cardinality(Holders) \in Nat
  BY <1>7, Counted DEF Holders
<1>9. ofifo.count < OBufSize
  BY <1>7, RoomForHolders DEF Holders
<1>10. RingRight(ofifo, OBufSize)'
  BY <1>1, <1>9, RightPut, TaskFinite DEF TtyInv, OutInv
<1>11. /\ ofifo'.count = ofifo.count + 1 /\ ofifo.count \in Nat /\ permits[OSem] \in Nat
       /\ \A p \in 0..(OBufSize - 1) :
            ofifo'.buf[p] = IF p = ofifo.write THEN << t, c >> ELSE ofifo.buf[p]
  <2>1. Ring(ofifo, OBufSize)
    BY DEF TtyInv, OutInv, RingRight
  <2>2. ofifo.count \in Nat /\ permits[OSem] \in Nat
    BY <2>1 DEF TtyInv, OutInv, RingRight, Ring, QueuesInv, QueueTypeOK, Sems
  <2>3. OBufSize \in Nat \ {0}
    BY TaskFinite
  <2> QED BY <1>1, <2>1, <2>2, <2>3, RingPut
<1>12. Accounted'
  BY <1>4, <1>8, <1>11, TaskFinite DEF TtyInv, OutInv, Accounted
<1>13. \A u \in Task : u # t /\ NoneOf(u) => NoneOf(u)'
  BY <1>11 DEF NoneOf
<1>14. OutInv'
  BY <1>2, <1>4, <1>6, <1>10, <1>11, <1>12, <1>13 DEF TtyInv, OutInv, SameAwake, InConsole, HasWritten
<1>15. InInv'
  <2>1. \A u \in Reader : Coming(u)' = Coming(u)
    BY <1>2, <1>6 DEF SameAwake, Coming, Task
  <2> QED BY <1>4, <2>1, InStays DEF TtyInv
<1> QED BY <1>6, <1>14, <1>15 DEF TtyInv

(* console_write gets a character,                                         *)
LEMMA ConsoleGetStep ==
  ASSUME TtyInv, NEW t \in Task, console_write_get(t)
  PROVE  TtyInv'
<1>1. /\ Kernel!Awake(t) /\ pc[t] = "c_get" /\ Moves(t, "c_notify")
      /\ \A u \in Task : pc'[u] = IF u = t THEN "c_notify" ELSE pc[u]
  BY Going DEF TtyInv, console_write_get
<1>2. "c_notify" \in Pc /\ "c_notify" \notin ReadPc
  BY DEF Pc, ReadPc
<1>3. UNCHANGED << holder, lockQueue, permits, semQueue, ififo >> /\ ofifo' = tty_fifo_get(ofifo)
  BY DEF console_write_get, kernelVars
<1>4. holder' \in [{Console} -> Task \cup {Nobody}] /\ permits' \in [Sems -> Nat]
  BY <1>3 DEF TtyInv, QueuesInv, QueueTypeOK
<1>5. QueuesInv' /\ SameAwake
  BY <1>1, <1>2, <1>3, <1>4, QueuesStay DEF TtyInv
<1>6. t \notin Holders /\ Holders' = Holders \cup {t}
  BY <1>1, <1>5 DEF Holders, Holding, ToPut, SameAwake
<1>7. Cardinality(Holders') = Cardinality(Holders) + 1 /\ Cardinality(Holders) \in Nat
  BY <1>6, Counted DEF Holders
<1>8. ofifo.count > 0
  BY <1>1 DEF TtyInv, OutInv
<1>9. RingRight(ofifo, OBufSize)'
  BY <1>3, <1>8, RightGet, TaskFinite DEF TtyInv, OutInv
<1>10. /\ ofifo'.count = ofifo.count - 1 /\ ofifo.count \in Nat /\ permits[OSem] \in Nat
       /\ \A p \in 0..(OBufSize - 1) :
            ofifo'.buf[p] = IF p = ofifo.read THEN <<>> ELSE ofifo.buf[p]
  <2>1. Ring(ofifo, OBufSize)
    BY DEF TtyInv, OutInv, RingRight
  <2>2. ofifo.count \in Nat /\ permits[OSem] \in Nat
    BY <2>1 DEF TtyInv, OutInv, RingRight, Ring, QueuesInv, QueueTypeOK, Sems
  <2>3. ofifo' = tty_fifo_get(ofifo) /\ OBufSize \in Nat \ {0}
    BY <1>3, TaskFinite
  <2>4. /\ tty_fifo_get(ofifo).count = ofifo.count - 1
        /\ \A p \in 0..(OBufSize - 1) :
             tty_fifo_get(ofifo).buf[p] = IF p = ofifo.read THEN <<>> ELSE ofifo.buf[p]
    BY <2>1, <2>3, RingGet
  <2> QED BY <2>2, <2>3, <2>4
<1>11. Accounted'
  BY <1>3, <1>7, <1>10, TaskFinite DEF TtyInv, OutInv, Accounted
<1>12. \A u \in Task : NoneOf(u) => NoneOf(u)'
  BY <1>10 DEF NoneOf
<1>13. \A u \in Task : u # t => pc[u] # "c_get"
  BY <1>1 DEF TtyInv, OutInv, InConsole
<1>14. OutInv'
  BY <1>1, <1>3, <1>5, <1>9, <1>11, <1>12, <1>13 DEF TtyInv, OutInv, SameAwake, InConsole, HasWritten
<1>15. InInv'
  <2>1. \A u \in Reader : Coming(u)' = Coming(u)
    BY <1>1, <1>5 DEF SameAwake, Coming, Task
  <2> QED BY <1>3, <2>1, InStays DEF TtyInv
<1> QED BY <1>5, <1>14, <1>15 DEF TtyInv

(* gives its permit back,                                                  *)
LEMMA ConsoleNotifyStep ==
  ASSUME TtyInv, NEW t \in Task, console_write_notify(t)
  PROVE  TtyInv'
<1>1. /\ Kernel!Awake(t) /\ pc[t] = "c_notify" /\ Moves(t, "c_look")
      /\ \A u \in Task : pc'[u] = IF u = t THEN "c_look" ELSE pc[u]
  BY Going DEF TtyInv, console_write_notify
<1>2. "c_look" \in Pc /\ "c_look" \notin ReadPc
  BY DEF Pc, ReadPc
<1>3. /\ UNCHANGED << holder, lockQueue, ififo, ofifo >> /\ sem_notify(OSem)
      /\ ISem \in Sems /\ OSem \in Sems /\ OSem # ISem
  BY DEF console_write_notify, Sems, ISem, OSem
<1>4. /\ QueuesInv'
      /\ \/ /\ semQueue[OSem] = <<>> /\ permits' = [permits EXCEPT ![OSem] = @ + 1]
            /\ UNCHANGED semQueue
            /\ SameAwake
         \/ /\ semQueue[OSem] # <<>> /\ UNCHANGED permits
            /\ \A r \in Sems : r # OSem => semQueue'[r] = semQueue[r]
            /\ \E h \in Task :
                 /\ Kernel!QueuedIn(h, semQueue[OSem]) /\ ~Kernel!Awake(h)
                 /\ pc'[h] = pc[h]
                 /\ \A u \in Task : Kernel!Awake(u)' <=> Kernel!Awake(u) \/ u = h
  BY <1>1, <1>2, <1>3, SemNotify DEF TtyInv
<1>5. permits \in [Sems -> Nat] /\ ofifo.count \in Int /\ permits[OSem] \in Nat
  BY <1>3 DEF TtyInv, QueuesInv, QueueTypeOK, OutInv, RingRight, Ring
<1>6. t \in Holders /\ Cardinality(Holders \ {t}) = Cardinality(Holders) - 1
      /\ Cardinality(Holders) \in Nat /\ Cardinality(Holders \ {t}) \in Nat
  <2>1. t \in Holders /\ Holders \in SUBSET Task
    BY <1>1 DEF Holders, Holding
  <2>2. Holders \ {t} \in SUBSET Task
    BY <2>1
  <2> QED BY <2>1, <2>2, Counted, TaskFinite
<1>7. CASE semQueue[OSem] = <<>> /\ permits' = [permits EXCEPT ![OSem] = @ + 1] /\ UNCHANGED semQueue /\ SameAwake
  <2>1. Holders' = Holders \ {t}
    BY <1>1, <1>7 DEF Holders, Holding, ToPut, SameAwake
  <2>2. permits'[OSem] = permits[OSem] + 1 /\ permits'[ISem] = permits[ISem]
    BY <1>3, <1>5, <1>7
  <2>3. Accounted'
    BY <1>3, <1>5, <1>6, <2>1, <2>2, TaskFinite DEF TtyInv, OutInv, Accounted
  <2>4. OutInv'
    BY <1>1, <1>3, <1>7, <2>3 DEF TtyInv, OutInv, SameAwake, InConsole, HasWritten, NoneOf
  <2>5. InInv'
    <3>1. \A u \in Reader : Coming(u)' = Coming(u)
      BY <1>1, <1>7 DEF SameAwake, Coming, Task
    <3> QED BY <1>3, <1>7, <2>2, <3>1, InStays DEF TtyInv
  <2> QED BY <1>4, <2>4, <2>5 DEF TtyInv
<1>8. CASE /\ UNCHANGED permits
           /\ \A r \in Sems : r # OSem => semQueue'[r] = semQueue[r]
           /\ \E h \in Task :
                /\ Kernel!QueuedIn(h, semQueue[OSem]) /\ ~Kernel!Awake(h)
                /\ \A u \in Task : Kernel!Awake(u)' <=> Kernel!Awake(u) \/ u = h
  <2>1. PICK h \in Task : /\ Kernel!QueuedIn(h, semQueue[OSem]) /\ ~Kernel!Awake(h)
                          /\ \A u \in Task : Kernel!Awake(u)' <=> Kernel!Awake(u) \/ u = h
    BY <1>8
  <2>2. pc[h] \in {"w_cr_look", "w_look"} /\ h # t
    BY <1>1, <2>1 DEF TtyInv, QueuesInv
  <2>3. h \notin Holders /\ Holders' = (Holders \ {t}) \cup {h}
    BY <1>1, <2>1, <2>2 DEF Holders, Holding, ToPut
  <2>4. Cardinality(Holders') = Cardinality(Holders)
    <3>1. Holders \ {t} \in SUBSET Task /\ h \notin Holders \ {t}
      BY <2>3 DEF Holders
    <3>2. Cardinality((Holders \ {t}) \cup {h}) = Cardinality(Holders \ {t}) + 1
      BY <3>1, Counted
    <3> QED BY <1>6, <2>3, <3>2
  <2>5. Accounted'
    BY <1>3, <1>8, <2>4 DEF TtyInv, OutInv, Accounted
  <2>6. OutInv'
    BY <1>1, <1>3, <2>1, <2>2, <2>5 DEF TtyInv, OutInv, InConsole, HasWritten, NoneOf
  <2>7. InInv'
    <3>1. \A u \in Reader : Coming(u)' <=> Coming(u)
      BY <1>1, <2>1, <2>2 DEF Coming, Task
    <3>2. \A u \in Reader : Coming(u)' = Coming(u)
      BY <3>1 DEF Coming
    <3> QED BY <1>3, <1>8, <3>2, InStays DEF TtyInv
  <2> QED BY <1>4, <2>6, <2>7 DEF TtyInv
<1> QED BY <1>4, <1>7, <1>8

(* having locked the console,                                              *)
LEMMA ConsoleLockStep ==
  ASSUME TtyInv, NEW t \in Task, console_write_lock(t)
  PROVE  TtyInv'
<1>1. /\ Kernel!Awake(t) /\ pc[t] = "c_lock" /\ Moves(t, "c_look")
      /\ \A u \in Task : pc'[u] = IF u = t THEN "c_look" ELSE pc[u]
  BY Going DEF TtyInv, console_write_lock
<1>2. UNCHANGED << permits, semQueue, ififo, ofifo >> /\ mutex_lock(t, Console)
  BY DEF console_write_lock
<1>3. /\ QueuesInv'
      /\ \/ /\ holder[Console] = Nobody /\ holder'[Console] = t
            /\ SameAwake
         \/ /\ UNCHANGED holder
            /\ \A u \in Task : Kernel!Awake(u)' <=> Kernel!Awake(u) /\ u # t
  BY <1>1, <1>2, MutexLock DEF TtyInv
<1>4. \A u \in Task : u # t => (Kernel!Awake(u)' <=> Kernel!Awake(u))
  BY <1>3 DEF SameAwake
<1>5. OutInv'
  <2>1. Holders' = Holders
    BY <1>1, <1>4 DEF Holders, Holding, ToPut
  <2>2. \A u \in Task : InConsole(u)' => holder'[Console] = u
    <3>1. CASE holder[Console] = Nobody /\ holder'[Console] = t
      BY <1>1, <1>4, <3>1, TtyAssumption DEF TtyInv, OutInv, InConsole
    <3>2. CASE /\ UNCHANGED holder
               /\ \A u \in Task : Kernel!Awake(u)' <=> Kernel!Awake(u) /\ u # t
      BY <1>1, <3>2 DEF TtyInv, OutInv, InConsole
    <3> QED BY <1>3, <3>1, <3>2
  <2> QED BY <1>1, <1>2, <2>1, <2>2 DEF TtyInv, OutInv, Accounted, HasWritten, NoneOf
<1>6. InInv'
  <2>1. \A u \in Reader : Coming(u)' <=> Coming(u)
    BY <1>1, <1>4 DEF Coming, Task
  <2>2. \A u \in Reader : Coming(u)' = Coming(u)
    BY <2>1 DEF Coming
  <2> QED BY <1>2, <2>2, InStays DEF TtyInv
<1> QED BY <1>3, <1>5, <1>6 DEF TtyInv

(* and unlocks it.                                                         *)
LEMMA ConsoleUnlockStep ==
  ASSUME TtyInv, NEW t \in Task, console_write_unlock(t)
  PROVE  TtyInv'
<1>1. /\ Kernel!Awake(t) /\ pc[t] = "c_unlock" /\ Moves(t, "w_next")
      /\ \A u \in Task : pc'[u] = IF u = t THEN "w_next" ELSE pc[u]
  BY Going DEF TtyInv, console_write_unlock
<1>2. UNCHANGED << permits, semQueue, ififo, ofifo >> /\ mutex_unlock(t, Console)
  BY DEF console_write_unlock
<1>3. /\ QueuesInv' /\ holder[Console] = t
      /\ \/ SameAwake
         \/ \E h \in Task : /\ ~Kernel!Awake(h) /\ pc[h] = "c_look" /\ pc'[h] = pc[h]
                            /\ holder'[Console] = h
                            /\ \A u \in Task : Kernel!Awake(u)' <=> Kernel!Awake(u) \/ u = h
  BY <1>1, <1>2, MutexUnlock DEF TtyInv
<1>4. \A u \in Task : \/ Kernel!Awake(u)' <=> Kernel!Awake(u)
                      \/ pc[u] = "c_look" /\ holder'[Console] = u
  BY <1>3 DEF SameAwake
<1>5. OutInv'
  <2>1. Holders' = Holders
    BY <1>1, <1>4 DEF Holders, Holding, ToPut
  <2>2. \A u \in Task : InConsole(u)' => holder'[Console] = u
    BY <1>1, <1>3, <1>4 DEF TtyInv, OutInv, InConsole
  <2> QED BY <1>1, <1>2, <2>1, <2>2 DEF TtyInv, OutInv, Accounted, HasWritten, NoneOf
<1>6. InInv'
  <2>1. \A u \in Reader : Coming(u)' <=> Coming(u)
    BY <1>1, <1>4 DEF Coming, Task
  <2>2. \A u \in Reader : Coming(u)' = Coming(u)
    BY <2>1 DEF Coming
  <2> QED BY <1>2, <2>2, InStays DEF TtyInv
<1> QED BY <1>3, <1>5, <1>6 DEF TtyInv
------------------------------------------------------------------------------
(* An empty ring is right.                                                 *)
LEMMA EmptyIsRight == ASSUME NEW n \in Nat \ {0} PROVE RingRight(EmptyRing(n), n)
<1> DEFINE r == EmptyRing(n)
<1>1. /\ DOMAIN r = {"buf", "read", "write", "count"}
      /\ DOMAIN r.buf = 0..(n - 1) /\ \A p \in 0..(n - 1) : r.buf[p] = <<>>
      /\ r.read = 0 /\ r.write = 0 /\ r.count = 0
  BY DEF EmptyRing
<1> HIDE DEF r
<1> QED BY <1>1 DEF RingRight, Ring, Live, r

(* The invariant holds at the start.                                       *)
LEMMA InitHolds == Init => TtyInv
<1> SUFFICES ASSUME Init PROVE TtyInv
  OBVIOUS
<1>1. /\ holder = [m \in {Console} |-> Nobody]
      /\ lockQueue = [m \in {Console} |-> <<>>]
      /\ permits = [s \in Sems |-> IF s = ISem THEN 0 ELSE OBufSize]
      /\ semQueue = [s \in Sems |-> <<>>]
      /\ pc = [t \in Task |-> "user"]
      /\ ofifo = EmptyRing(OBufSize) /\ ififo = EmptyRing(IBufSize)
  BY DEF Init, Kernel!Init, Sems
<1>2. ISem \in Sems /\ OSem \in Sems /\ OSem # ISem /\ OBufSize \in Nat \ {0} /\ IBufSize \in Nat \ {0}
  BY TaskFinite DEF Sems, ISem, OSem
<1>3. /\ permits \in [Sems -> Nat] /\ permits[ISem] = 0 /\ permits[OSem] = OBufSize
      /\ lockQueue[Console] = <<>> /\ semQueue[ISem] = <<>> /\ semQueue[OSem] = <<>>
      /\ <<>> \in Seq(Task) /\ DOMAIN << >> = {}
      /\ \A t \in Task : pc[t] = "user"
  BY <1>1, <1>2, EmptySeq
<1>4. QueuesInv
  <2>1. QueueTypeOK
    BY <1>1, <1>3 DEF QueueTypeOK, Pc
  <2> QED BY <1>3, <2>1 DEF QueuesInv, Apart, Kernel!QueuedIn, ReadPc
<1>5. OutInv
  <2>1. RingRight(ofifo, OBufSize) /\ ofifo.count = 0 /\ \A p \in 0..(OBufSize - 1) : ofifo.buf[p] = <<>>
    BY <1>1, <1>2, EmptyIsRight DEF EmptyRing
  <2>2. Holders = {}
    BY <1>3 DEF Holders, Holding, ToPut
  <2>3. Cardinality(Holders) = 0
    BY <2>2, FS_EmptySet
  <2>4. Accounted
    BY <1>2, <1>3, <2>1, <2>3 DEF Accounted
  <2> QED BY <1>3, <2>1, <2>4 DEF OutInv, InConsole, NoneOf
<1>6. InInv
  <2>1. Ring(ififo, IBufSize) /\ ififo.count = 0
    BY <1>1, <1>2, EmptyIsRight DEF EmptyRing, RingRight
  <2>2. Cardinality(OnTheirWay) \in Nat
    BY TaskFinite DEF OnTheirWay, Task
  <2> QED BY <1>3, <2>1, <2>2 DEF InInv, NothingStranded
<1> QED BY <1>4, <1>5, <1>6 DEF TtyInv

(* Nothing changes,                                                        *)
LEMMA Nothing == ASSUME TtyInv, UNCHANGED vars PROVE TtyInv'
<1>1. UNCHANGED << holder, lockQueue, permits, semQueue, ififo, ofifo, pc >>
  BY DEF vars, kernelVars
<1>2. holder' \in [{Console} -> Task \cup {Nobody}] /\ permits' \in [Sems -> Nat]
  BY <1>1 DEF TtyInv, QueuesInv, QueueTypeOK
<1>3. QueuesInv' /\ SameAwake
  BY <1>1, <1>2, QueuesStay DEF TtyInv
<1>4. OutInv'
  <2>1. \A u \in Task : /\ Holding(u)' = Holding(u)
                        /\ InConsole(u)' => InConsole(u)
                        /\ pc'[u] = "c_get" => ofifo.count > 0
                        /\ pc'[u] \notin HasWritten => NoneOf(u)
    BY <1>1, <1>3 DEF TtyInv, OutInv, SameAwake, Holding, InConsole
  <2> QED BY <1>1, <2>1, OutStays DEF TtyInv
<1>5. InInv'
  <2>1. \A u \in Reader : Coming(u)' = Coming(u)
    BY <1>1, <1>3 DEF SameAwake, Coming, Task
  <2> QED BY <1>1, <2>1, InStays DEF TtyInv
<1> QED BY <1>3, <1>4, <1>5 DEF TtyInv

(* and every step keeps the invariant.                                     *)
LEMMA NextHolds == TtyInv /\ [Next]_vars => TtyInv'
<1> SUFFICES ASSUME TtyInv, [Next]_vars PROVE TtyInv'
  OBVIOUS
<1>1. ASSUME NEW t \in Task, write(t) \/ read(t) \/ tty_write_return(t) \/ tty_read_next(t)
      PROVE  TtyInv'
  <2>1. PICK from \in Aside, to \in Aside :
          Goes(t, from, to) /\ (to \in ReadPc => t \in Reader)
    <3>1. CASE write(t)
      BY <3>1 DEF write, Aside, ReadPc
    <3>2. CASE read(t)
      BY <3>2 DEF read, Aside
    <3>3. CASE tty_write_return(t)
      BY <3>3, Returning DEF tty_write_return, Aside
    <3>4. CASE tty_read_next(t)
      <4>1. pc[t] = "r_echoed"
        BY <3>4 DEF tty_read_next, Goes
      <4>2. t \in Reader
        BY <4>1 DEF TtyInv, QueuesInv, ReadPc
      <4> QED BY <3>4, <4>2 DEF tty_read_next, Aside
    <3> QED BY <1>1, <3>1, <3>2, <3>3, <3>4
  <2>2. UNCHANGED << kernelVars, ififo, ofifo >>
    BY <1>1 DEF write, read, tty_write_return, tty_read_next
  <2> QED BY <2>1, <2>2, AsideStep
<1>2. ASSUME NEW t \in Task, Proceeds(t) PROVE TtyInv'
  BY <1>1, <1>2, WriteWaitStep, WriteLookStep, WritePutStep, ConsoleLockStep, ConsoleLookStep,
     ConsoleGetStep, ConsoleNotifyStep, ConsoleUnlockStep, ReadWaitStep, ReadLookStep, ReadGetStep
     DEF Proceeds, tty_write, console_write, tty_read
<1> QED BY <1>1, <1>2, KeyStep, Nothing DEF Next
------------------------------------------------------------------------------
(***************************************************************************)
(* The line of a reader: while it waits for a character, or goes to get    *)
(* one, there is room for it.                                              *)
(***************************************************************************)
Filling == {"r_wait", "r_look", "r_get"}

LineInv ==
  /\ len \in [Task -> Nat] /\ size \in [Task -> Nat]
  /\ \A t \in Task : len[t] <= size[t] /\ (pc[t] \in Filling => len[t] < size[t])

(* A line that is not written to stays within its buffer,                  *)
LEMMA LineStays ==
  ASSUME LineInv, UNCHANGED << len, size >>,
         \A u \in Task : pc'[u] \in Filling => pc[u] \in Filling \/ len[u] < size[u]
  PROVE  LineInv'
BY DEF LineInv

(* and one that there is room in gets no longer than it.                   *)
LEMMA LineGrows ==
  ASSUME NEW c, NEW max \in Nat, NEW n \in Nat, n < max, ~(c = "del" /\ n = 0)
  PROVE  LineWith(c, n, max) \in Nat /\ LineWith(c, n, max) <= max
BY DEF LineWith

(* A character is taken into the line.                                     *)
LEMMA TakingStep ==
  ASSUME QueuesInv, LineInv, NEW t \in Task, NEW from \in Filling, NEW c, Took(t, from, c)
  PROVE  LineInv'
<1>1. pc[t] = from /\ len[t] \in Nat /\ size[t] \in Nat /\ len[t] < size[t] /\ UNCHANGED size
  BY DEF Took, Goes, LineInv
<1>2. CASE c = "del" /\ len[t] = 0
  <2>1. Goes(t, from, "r_wait") /\ UNCHANGED len
    BY <1>2 DEF Took
  <2>2. \A u \in Task : pc'[u] = IF u = t THEN "r_wait" ELSE pc[u]
    BY <2>1, Going
  <2> QED BY <1>1, <2>1, <2>2, LineStays
<1>3. CASE ~(c = "del" /\ len[t] = 0)
  <2>1. Goes(t, from, "w_next") /\ len' = [len EXCEPT ![t] = LineWith(c, @, size[t])]
    BY <1>3 DEF Took
  <2>2. \A u \in Task : pc'[u] = IF u = t THEN "w_next" ELSE pc[u]
    BY <2>1, Going
  <2>3. PICK m \in Nat : m = LineWith(c, len[t], size[t]) /\ m <= size[t]
    BY <1>1, <1>3, LineGrows
  <2>4. len' \in [Task -> Nat] /\ \A u \in Task : len'[u] = IF u = t THEN m ELSE len[u]
    BY <2>1, <2>3 DEF LineInv
  <2> QED BY <1>1, <2>2, <2>3, <2>4 DEF LineInv, Filling
<1> QED BY <1>2, <1>3

(* Every step keeps the lines within their buffers.                        *)
LEMMA LineNext == TtyInv /\ LineInv /\ [Next]_vars => LineInv'
<1> SUFFICES ASSUME TtyInv, LineInv, [Next]_vars PROVE LineInv'
  OBVIOUS
<1>1. QueuesInv
  BY DEF TtyInv
<1>2. CASE UNCHANGED pc /\ UNCHANGED << len, size >>
  BY <1>2, LineStays
<1>3. ASSUME NEW t \in Task, write(t) \/ tty_write(t) PROVE LineInv'
  <2>1. UNCHANGED << len, size >>
    BY <1>3 DEF write, tty_write, tty_write_wait, tty_write_look, tty_write_put, tty_write_return,
         console_write, console_write_lock, console_write_look, console_write_get,
         console_write_notify, console_write_unlock, readVars
  <2>2. PICK from, to : Goes(t, from, to) /\ to \notin Filling
    BY <1>3, Returning DEF write, tty_write, tty_write_wait, tty_write_look, tty_write_put,
         tty_write_return, console_write, console_write_lock, console_write_look, console_write_get,
         console_write_notify, console_write_unlock, Filling
  <2>3. \A u \in Task : pc'[u] = IF u = t THEN to ELSE pc[u]
    BY <1>1, <2>2, Going
  <2> QED BY <2>1, <2>2, <2>3, LineStays
<1>4. ASSUME NEW t \in Task, tty_read_wait(t) PROVE LineInv'
  <2>1. UNCHANGED << len, size >> /\ pc[t] = "r_wait"
    BY <1>4 DEF tty_read_wait, readVars, Goes
  <2>2. \A u \in Task : pc'[u] = IF u = t THEN "r_look" ELSE pc[u]
    BY <1>1, <1>4, Going DEF tty_read_wait
  <2> QED BY <2>1, <2>2, LineStays DEF Filling
<1>5. ASSUME NEW t \in Task, tty_read_look(t) PROVE LineInv'
  <2>1. CASE Goes(t, "r_look", "r_get") /\ UNCHANGED << len, size >>
    <3>1. pc[t] = "r_look" /\ \A u \in Task : pc'[u] = IF u = t THEN "r_get" ELSE pc[u]
      BY <1>1, <2>1, Going
    <3> QED BY <2>1, <3>1, LineStays DEF Filling
  <2>2. CASE \E c \in Chars : Took(t, "r_look", c)
    BY <1>1, <2>2, TakingStep DEF Filling
  <2> QED BY <1>5, <2>1, <2>2 DEF tty_read_look, readVars
<1>6. ASSUME NEW t \in Task, tty_read_get(t) PROVE LineInv'
  BY <1>1, <1>6, TakingStep DEF tty_read_get, Filling
<1>7. ASSUME NEW t \in Task, tty_read_next(t) PROVE LineInv'
  <2>1. UNCHANGED << len, size >> /\ len[t] \in Nat /\ size[t] \in Nat
    BY <1>7 DEF tty_read_next, readVars, LineInv
  <2>2. PICK to : Goes(t, "r_echoed", to) /\ (to \in Filling => len[t] < size[t])
    BY <1>7, <2>1 DEF tty_read_next, Filling
  <2>3. \A u \in Task : pc'[u] = IF u = t THEN to ELSE pc[u]
    BY <1>1, <2>2, Going
  <2> QED BY <2>1, <2>2, <2>3, LineStays
<1>8. ASSUME NEW t \in Task, read(t) PROVE LineInv'
  <2>1. PICK n \in Nat \ {0} : size' = [size EXCEPT ![t] = n]
    BY <1>8, TtyAssumption DEF read
  <2>2. /\ len' \in [Task -> Nat] /\ size' \in [Task -> Nat]
        /\ \A u \in Task : /\ len'[u] = IF u = t THEN 0 ELSE len[u]
                           /\ size'[u] = IF u = t THEN n ELSE size[u]
    BY <1>8, <2>1 DEF read, LineInv
  <2>3. \A u \in Task : pc'[u] = IF u = t THEN "r_wait" ELSE pc[u]
    BY <1>1, <1>8, Going DEF read
  <2> QED BY <2>2, <2>3 DEF LineInv
<1>9. ASSUME NEW c, tty_in(c) PROVE LineInv'
  BY <1>2, <1>9 DEF tty_in, readVars
<1>10. CASE UNCHANGED vars
  BY <1>2, <1>10 DEF vars, readVars
<1> QED BY <1>3, <1>4, <1>5, <1>6, <1>7, <1>8, <1>9, <1>10 DEF Next, Proceeds, tty_read
------------------------------------------------------------------------------
(***************************************************************************)
(* The inductive invariant of the terminal: the queues, the permits of the *)
(* output accounted for, and a permit for each character of the input.     *)
(***************************************************************************)
THEOREM TtyInvariant == Spec => []TtyInv
<1> QED BY InitHolds, NextHolds, PTL DEF Spec

(***************************************************************************)
(* tty_fifo_put and tty_fifo_get look at the count with the interrupts on, *)
(* and yet whoever has a permit of osem finds room for the character when  *)
(* it comes to put it, and whoever is in console_write a character when it *)
(* comes to get it, with any number of processes in between.               *)
(***************************************************************************)
THEOREM AlwaysRoom == Spec => []NoOverrun
<1>1. TtyInv => NoOverrun
  <2> SUFFICES ASSUME TtyInv, NEW t \in Task
               PROVE  /\ Kernel!Awake(t) /\ pc[t] \in ToPut => ~ IsFull(ofifo)
                      /\ pc[t] = "c_get" => ~ IsEmpty(ofifo)
    BY DEF NoOverrun, ToPut
  <2>1. Kernel!Awake(t) /\ pc[t] \in ToPut => ~ IsFull(ofifo)
    BY RoomForHolders DEF Holding
  <2>2. pc[t] = "c_get" => ofifo.count > 0
    BY DEF TtyInv, OutInv
  <2>3. ofifo.count \in Int
    BY DEF TtyInv, OutInv, RingRight, Ring
  <2> QED BY <2>1, <2>2, <2>3 DEF IsEmpty
<1> QED BY <1>1, TtyInvariant, PTL

(***************************************************************************)
(* A write that has returned has been shown: of what tty_write put in the  *)
(* ring for the process, console_write has left nothing there.             *)
(***************************************************************************)
THEOREM WritesAreShown == Spec => []Shown
<1>1. TtyInv => Shown
  <2> SUFFICES ASSUME TtyInv, NEW t \in Writer, pc[t] = "user", NEW i \in DOMAIN Content(ofifo)
               PROVE  Content(ofifo)[i][1] # t
    BY DEF Shown
  <2>1. NoneOf(t)
    BY DEF TtyInv, OutInv, HasWritten, Task
  <2>2. Places(ofifo) = OBufSize /\ OBufSize \in Nat \ {0} /\ RingRight(ofifo, OBufSize)
    BY RingPlaces, TaskFinite DEF TtyInv, OutInv, RingRight
  <2>3. PICK a \in 0..(OBufSize - 1), k \in 0..OBufSize : a = ofifo.read /\ k = ofifo.count
    BY <2>2 DEF RingRight, Ring
  <2>4. i \in 1..k
    BY <2>3 DEF Content
  <2>5. PICK p \in 0..(OBufSize - 1) :
          p = IF a + i - 1 < OBufSize THEN a + i - 1 ELSE a + i - 1 - OBufSize
    BY <2>2, <2>3, <2>4
  <2>6. Content(ofifo)[i] = ofifo.buf[p]
    BY <2>2, <2>3, <2>4, <2>5 DEF Content
  <2>7. IF p >= a THEN p - a < k ELSE p + OBufSize - a < k
    BY <2>2, <2>3, <2>4, <2>5
  <2>8. ofifo.buf[p] # <<>>
    BY <2>2, <2>3, <2>7 DEF RingRight, Live
  <2> QED BY <2>1, <2>6, <2>8 DEF NoneOf
<1> QED BY <1>1, TtyInvariant, PTL

(***************************************************************************)
(* No typed character is stranded: tty_in gives a permit for each one it   *)
(* puts, and no reader sleeps in tty_read next to a permit.                *)
(***************************************************************************)
THEOREM NoCharacterStranded == Spec => []NothingStranded
<1>1. TtyInv => NothingStranded
  BY DEF TtyInv, InInv
<1> QED BY <1>1, TtyInvariant, PTL

(***************************************************************************)
(* tty_read stays within the buffer it is given, for every size of it and  *)
(* whatever is typed, the line breaks that become two characters included. *)
(***************************************************************************)
THEOREM LinesFit == Spec => []LineFits
<1>1. Init => LineInv
  BY DEF Init, LineInv, Filling
<1>2. LineInv => LineFits
  BY DEF LineInv, LineFits, Task
<1> QED BY <1>1, <1>2, LineNext, TtyInvariant, PTL DEF Spec
------------------------------------------------------------------------------
(***************************************************************************)
(* The rings as sequences.  At(r, n, i) is the place of the i-th character *)
(* that a ring holds.                                                      *)
(***************************************************************************)
At(r, n, i) == IF r.read + i - 1 < n THEN r.read + i - 1 ELSE r.read + i - 1 - n

(* How far its counters go.                                                *)
LEMMA RingBounds ==
  ASSUME NEW n \in Nat \ {0}, NEW r, RingRight(r, n)
  PROVE  \E k \in 0..n, a \in 0..(n - 1), w \in 0..(n - 1) :
           /\ k = r.count /\ a = r.read /\ w = r.write
           /\ w = IF a + k < n THEN a + k ELSE a + k - n
BY DEF RingRight, Ring

(* s is what the ring holds, character by character.                       *)
Lists(s, r, n) ==
  /\ Len(s) = r.count /\ \E S : s \in Seq(S)
  /\ s = [i \in 1..r.count |-> s[i]]
  /\ \A i \in 1..r.count : At(r, n, i) \in 0..(n - 1) /\ s[i] = r.buf[At(r, n, i)]

(* Content lists the ring from read on, round its end.                     *)
LEMMA ContentIs ==
  ASSUME NEW n \in Nat \ {0}, NEW r, RingRight(r, n)
  PROVE  Lists(Content(r), r, n)
<1>1. r.count \in 0..n /\ r.read \in 0..(n - 1)
  BY RingBounds
<1>2. PICK k, a, b : /\ k = r.count /\ a = r.read /\ b = r.buf
                     /\ k \in 0..n /\ a \in 0..(n - 1)
  BY <1>1
<1>3. Places(r) = n
  BY RingPlaces DEF RingRight
<1>4. \A i \in 1..k : (IF a + i - 1 < n THEN a + i - 1 ELSE a + i - 1 - n) \in 0..(n - 1)
  BY <1>2
<1>5. Content(r) = [i \in 1..k |-> b[IF a + i - 1 < n THEN a + i - 1 ELSE a + i - 1 - n]]
  BY <1>2, <1>3 DEF Content
<1>6. \A i \in 1..k : At(r, n, i) = IF a + i - 1 < n THEN a + i - 1 ELSE a + i - 1 - n
  BY <1>2 DEF At
<1>7. /\ DOMAIN Content(r) = 1..k
      /\ \A i \in 1..k : At(r, n, i) \in 0..(n - 1) /\ Content(r)[i] = b[At(r, n, i)]
  BY <1>4, <1>5, <1>6
<1>8. Content(r) = [i \in 1..k |-> b[At(r, n, i)]]
  BY <1>5, <1>6
<1> DEFINE S == { b[p] : p \in 0..(n - 1) }
<1>9. Content(r) \in [1..k -> S]
  BY <1>7, <1>8
<1>10. Content(r) \in Seq(S) /\ Len(Content(r)) = k
  <2>1. ASSUME NEW f \in [1..k -> S] PROVE f \in Seq(S) /\ Len(f) = k
    <3> HIDE DEF S
    <3> QED BY <1>2
  <2> HIDE DEF S
  <2> QED BY <1>9, <2>1
<1>11. \E T : Content(r) \in Seq(T)
  BY <1>10
<1>12. Content(r) = [i \in 1..k |-> Content(r)[i]]
  BY <1>7, <1>8
<1> HIDE DEF S
<1> QED BY <1>2, <1>7, <1>10, <1>11, <1>12 DEF Lists

(* A ring into which a character is put ends with it.                      *)
LEMMA ContentPut ==
  ASSUME NEW n \in Nat \ {0}, NEW r, RingRight(r, n), r.count < n, NEW c, c # <<>>
  PROVE  LET old == Content(r)
             new == Content(tty_fifo_put(r, c))
         IN  /\ new # <<>> /\ old = SubSeq(new, 1, Len(new) - 1)
             /\ Len(new) = Len(old) + 1 /\ new[Len(new)] = c
<1> DEFINE q == tty_fifo_put(r, c)
           old == Content(r)
           new == Content(q)
<1>1. /\ Ring(q, n) /\ q.count = r.count + 1 /\ q.read = r.read
      /\ \A p \in 0..(n - 1) : q.buf[p] = IF p = r.write THEN c ELSE r.buf[p]
  BY RingPut DEF RingRight
<1>2. RingRight(q, n)
  BY RightPut
<1> HIDE DEF q
<1>3. PICK k \in 0..(n - 1), a \in 0..(n - 1), w \in 0..(n - 1) :
        /\ k = r.count /\ a = r.read /\ w = r.write
        /\ w = IF a + k < n THEN a + k ELSE a + k - n
  BY RingBounds
<1>4. \A i \in 1..(k + 1) : At(q, n, i) = At(r, n, i)
  BY <1>1 DEF At
<1>5. \A i \in 1..(k + 1) : At(r, n, i) = IF a + i - 1 < n THEN a + i - 1 ELSE a + i - 1 - n
  BY <1>3 DEF At
<1>6. \A i \in 1..k : At(r, n, i) # w
  <2>1. ASSUME NEW i \in 1..k
        PROVE  i \in 1..(k + 1) /\ (IF a + i - 1 < n THEN a + i - 1 ELSE a + i - 1 - n) # w
    BY <1>3
  <2> QED BY <1>5, <2>1
<1>7. At(r, n, k + 1) = w
  BY <1>3 DEF At
<1>8. /\ Len(new) = k + 1
      /\ \A i \in 1..(k + 1) : At(q, n, i) \in 0..(n - 1) /\ new[i] = q.buf[At(q, n, i)]
      /\ \E S : new \in Seq(S)
  <2>1. Lists(new, q, n) /\ q.count = k + 1
    BY <1>1, <1>2, <1>3, ContentIs
  <2> QED BY <2>1 DEF Lists
<1>9. /\ Len(old) = k /\ old = [i \in 1..k |-> old[i]]
      /\ \A i \in 1..k : At(r, n, i) \in 0..(n - 1) /\ old[i] = r.buf[At(r, n, i)]
  <2>1. Lists(old, r, n)
    BY ContentIs
  <2> QED BY <1>3, <2>1 DEF Lists
<1>10. \A i \in 1..k : new[i] = old[i]
  <2> SUFFICES ASSUME NEW i \in 1..k PROVE new[i] = old[i]
    OBVIOUS
  <2>1. i \in 1..(k + 1)
    OBVIOUS
  <2>2. PICK p \in 0..(n - 1) : p = At(r, n, i) /\ p = At(q, n, i) /\ p # w
    BY <1>4, <1>6, <1>9, <2>1
  <2>3. q.buf[p] = r.buf[p]
    BY <1>1, <1>3, <2>2
  <2> QED BY <1>8, <1>9, <2>1, <2>2, <2>3
<1>11. new[k + 1] = c
  <2>1. k + 1 \in 1..(k + 1)
    OBVIOUS
  <2>2. PICK p \in 0..(n - 1) : p = At(q, n, k + 1) /\ p = w
    BY <1>3, <1>4, <1>7, <2>1
  <2>3. q.buf[p] = c
    BY <1>1, <1>3, <2>2
  <2> QED BY <1>8, <2>1, <2>2, <2>3
<1>12. old = SubSeq(new, 1, k)
  <2>1. PICK S : new \in Seq(S)
    BY <1>8
  <2>2. /\ SubSeq(new, 1, k) = [i \in 1..k |-> new[i]]
    <3>1. \A s \in Seq(S) : Len(s) = k + 1 => SubSeq(s, 1, k) = [i \in 1..k |-> s[i]]
      OBVIOUS
    <3> QED BY <1>8, <2>1, <3>1
  <2>3. old = [i \in 1..k |-> old[i]]
    BY <1>9
  <2> QED BY <1>10, <2>2, <2>3
<1>13. new # <<>> /\ Len(new) - 1 = k
  <2>1. k + 1 # 0
    OBVIOUS
  <2> QED BY <1>8, <2>1
<1> QED BY <1>8, <1>9, <1>11, <1>12, <1>13 DEF q

(* A ring from which a character is got has lost its oldest.               *)
LEMMA ContentGet ==
  ASSUME NEW n \in Nat \ {0}, NEW r, RingRight(r, n), r.count > 0
  PROVE  LET old == Content(r)
             new == Content(tty_fifo_get(r))
         IN  old # <<>> /\ new = Tail(old) /\ Len(new) = Len(old) - 1
<1> DEFINE q == tty_fifo_get(r)
           old == Content(r)
           new == Content(q)
<1>1. /\ Ring(q, n) /\ q.count = r.count - 1
      /\ q.read = IF r.read + 1 >= n THEN 0 ELSE r.read + 1
      /\ \A p \in 0..(n - 1) : q.buf[p] = IF p = r.read THEN <<>> ELSE r.buf[p]
  BY RingGet DEF RingRight
<1>2. RingRight(q, n)
  BY RightGet
<1> HIDE DEF q
<1>3. PICK k \in 1..n, a \in 0..(n - 1) : k = r.count /\ a = r.read
  BY RingBounds
<1>4. \A i \in 1..k : At(r, n, i) = IF a + i - 1 < n THEN a + i - 1 ELSE a + i - 1 - n
  BY <1>3 DEF At
<1>5. PICK b \in 0..(n - 1) : b = q.read /\ b = IF a + 1 >= n THEN 0 ELSE a + 1
  BY <1>1, <1>3
<1>6. \A i \in 1..(k - 1) : At(q, n, i) = IF b + i - 1 < n THEN b + i - 1 ELSE b + i - 1 - n
  BY <1>5 DEF At
<1>7. \A i \in 1..(k - 1) : At(q, n, i) = At(r, n, i + 1) /\ At(r, n, i + 1) # a
  <2> SUFFICES ASSUME NEW i \in 1..(k - 1)
               PROVE  At(q, n, i) = At(r, n, i + 1) /\ At(r, n, i + 1) # a
    OBVIOUS
  <2>1. i + 1 \in 1..k
    OBVIOUS
  <2>2. At(r, n, i + 1) = IF a + (i + 1) - 1 < n THEN a + (i + 1) - 1 ELSE a + (i + 1) - 1 - n
    BY <1>4, <2>1
  <2>3. At(q, n, i) = IF b + i - 1 < n THEN b + i - 1 ELSE b + i - 1 - n
    BY <1>6
  <2>4. (IF b + i - 1 < n THEN b + i - 1 ELSE b + i - 1 - n)
        = (IF a + (i + 1) - 1 < n THEN a + (i + 1) - 1 ELSE a + (i + 1) - 1 - n)
    BY <1>5
  <2>5. (IF a + (i + 1) - 1 < n THEN a + (i + 1) - 1 ELSE a + (i + 1) - 1 - n) # a
    BY <2>1
  <2> QED BY <2>2, <2>3, <2>4, <2>5
<1>8. /\ Len(new) = k - 1 /\ new = [i \in 1..(k - 1) |-> new[i]]
      /\ \A i \in 1..(k - 1) : At(q, n, i) \in 0..(n - 1) /\ new[i] = q.buf[At(q, n, i)]
  <2>1. Lists(new, q, n) /\ q.count = k - 1
    BY <1>1, <1>2, <1>3, ContentIs
  <2> QED BY <2>1 DEF Lists
<1>9. /\ Len(old) = k /\ \E S : old \in Seq(S)
      /\ \A i \in 1..k : At(r, n, i) \in 0..(n - 1) /\ old[i] = r.buf[At(r, n, i)]
  <2>1. Lists(old, r, n)
    BY ContentIs
  <2> QED BY <1>3, <2>1 DEF Lists
<1>10. \A i \in 1..(k - 1) : new[i] = old[i + 1]
  <2> SUFFICES ASSUME NEW i \in 1..(k - 1) PROVE new[i] = old[i + 1]
    OBVIOUS
  <2>1. i + 1 \in 1..k
    OBVIOUS
  <2>2. PICK p \in 0..(n - 1) : p = At(r, n, i + 1) /\ p = At(q, n, i) /\ p # a
    BY <1>7, <1>9, <2>1
  <2>3. q.buf[p] = r.buf[p]
    BY <1>1, <1>3, <2>2
  <2> QED BY <1>8, <1>9, <2>1, <2>2, <2>3
<1>11. old # <<>> /\ Tail(old) = [i \in 1..(k - 1) |-> old[i + 1]]
  <2>1. PICK S : old \in Seq(S)
    BY <1>9
  <2>2. ASSUME NEW s \in Seq(S), Len(s) = k
        PROVE  s # <<>> /\ Tail(s) = [i \in 1..(k - 1) |-> s[i + 1]]
    <3>1. s # <<>>
      BY <2>2, EmptySeq
    <3>2. Len(Tail(s)) = k - 1 /\ Tail(s) \in Seq(S) /\ \A i \in 1..(k - 1) : Tail(s)[i] = s[i + 1]
      BY <2>2, <3>1, HeadTailProperties
    <3>3. Tail(s) = [i \in 1..(k - 1) |-> Tail(s)[i]]
      <4>1. \A t \in Seq(S) : t = [i \in 1..Len(t) |-> t[i]]
        OBVIOUS
      <4> QED BY <3>2, <4>1
    <3> QED BY <3>1, <3>2, <3>3
  <2> QED BY <1>9, <2>1, <2>2
<1>12. new = Tail(old)
  BY <1>8, <1>10, <1>11
<1> QED BY <1>8, <1>9, <1>11, <1>12 DEF q

------------------------------------------------------------------------------
(***************************************************************************)
(* What a step does to a ring: nothing, a character put where there is     *)
(* room, or one got where there is one.  For the ring of the input this is *)
(* so when one process reads the terminal: two can both look at the same   *)
(* last character, and both get it.                                        *)
(***************************************************************************)
OneReader == \A a, b \in Reader : a = b

InputInv ==
  /\ RingRight(ififo, IBufSize)
  /\ \A t \in Task : pc[t] = "r_get" => ififo.count > 0

Typing ==
  /\ ififo.count < IBufSize /\ keys < MaxKeys /\ keys' = keys + 1
  /\ pc' = pc
  /\ \E c \in Typed : ififo' = tty_fifo_put(ififo, << keys + 1, c >>)

Getting ==
  /\ \E t \in Reader : pc[t] = "r_get"
  /\ \A u \in Reader : pc'[u] # "r_get"
  /\ ififo' = tty_fifo_get(ififo) /\ keys' = keys

Passing ==
  /\ ififo' = ififo /\ keys' \in {keys, keys + 1} /\ (keys < MaxKeys \/ keys' = keys)
  /\ \A u \in Task : pc'[u] = "r_get" => pc[u] = "r_get" \/ ififo.count > 0

(* With one reader a step types, gets what is there, or passes.            *)
LEMMA InputSteps ==
  ASSUME OneReader, TtyInv, [Next]_vars
  PROVE  Typing \/ Getting \/ Passing
<1>1. QueuesInv /\ Ring(ififo, IBufSize) /\ ififo.count \in Int /\ Places(ififo) = IBufSize
      /\ IBufSize \in Nat
  BY TaskFinite, RingPlaces DEF TtyInv, InInv, Ring
<1>2. ASSUME NEW c \in Typed, tty_in(c) PROVE Typing \/ Passing
  <2>1. pc' = pc /\ keys < MaxKeys /\ keys' = keys + 1
    BY <1>2 DEF tty_in
  <2>2. CASE ififo' = ififo
    BY <2>1, <2>2 DEF Passing
  <2>3. CASE ~IsFull(ififo) /\ ififo' = tty_fifo_put(ififo, << keys + 1, c >>)
    BY <1>1, <2>1, <2>3 DEF Typing, IsFull
  <2> QED BY <1>2, <2>2, <2>3 DEF tty_in
<1>3. ASSUME NEW t \in Task, write(t) \/ tty_write(t) \/ read(t) \/ tty_read_wait(t) \/ tty_read_next(t)
      PROVE  Passing
  <2>1. UNCHANGED << ififo, keys >>
    BY <1>3 DEF write, tty_write, tty_write_wait, tty_write_look, tty_write_put, tty_write_return,
         console_write, console_write_lock, console_write_look, console_write_get,
         console_write_notify, console_write_unlock, read, tty_read_wait, tty_read_next
  <2>2. PICK from, to : Goes(t, from, to) /\ to # "r_get"
    <3>1. CASE write(t) \/ tty_write(t)
      BY <3>1, Returning DEF write, tty_write, tty_write_wait, tty_write_look, tty_write_put,
         tty_write_return, console_write, console_write_lock, console_write_look, console_write_get,
         console_write_notify, console_write_unlock
    <3>2. CASE read(t) \/ tty_read_wait(t) \/ tty_read_next(t)
      BY <3>2 DEF read, tty_read_wait, tty_read_next
    <3> QED BY <1>3, <3>1, <3>2
  <2>3. \A u \in Task : pc'[u] = IF u = t THEN to ELSE pc[u]
    BY <1>1, <2>2, Going
  <2> QED BY <2>1, <2>2, <2>3 DEF Passing
<1>4. ASSUME NEW t \in Task, tty_read_look(t) PROVE Passing
  <2>1. UNCHANGED << ififo, keys >>
    BY <1>4 DEF tty_read_look
  <2>2. PICK to : Goes(t, "r_look", to) /\ (to = "r_get" => ~IsEmpty(ififo))
    BY <1>4 DEF tty_read_look, Took
  <2>3. \A u \in Task : pc'[u] = IF u = t THEN to ELSE pc[u]
    BY <1>1, <2>2, Going
  <2>4. to = "r_get" => ififo.count > 0
    BY <1>1, <2>2 DEF IsEmpty
  <2> QED BY <2>1, <2>3, <2>4 DEF Passing
<1>5. ASSUME NEW t \in Task, tty_read_get(t) PROVE Getting
  <2>1. pc[t] = "r_get" /\ ififo' = tty_fifo_get(ififo) /\ keys' = keys
    BY <1>5 DEF tty_read_get
  <2>2. PICK to : Goes(t, "r_get", to) /\ to # "r_get"
    BY <1>5 DEF tty_read_get, Took
  <2>3. \A u \in Task : pc'[u] = IF u = t THEN to ELSE pc[u]
    BY <1>1, <2>2, Going
  <2>4. t \in Reader
    BY <1>1, <2>1 DEF QueuesInv, ReadPc
  <2>5. \A u \in Reader : u = t
    BY <2>4 DEF OneReader
  <2> QED BY <2>1, <2>2, <2>3, <2>4, <2>5 DEF Getting, Task
<1>6. CASE UNCHANGED vars
  BY <1>6 DEF vars, Passing
<1> QED BY <1>2, <1>3, <1>4, <1>5, <1>6 DEF Next, Proceeds, tty_read

(* So the ring of the input stays right.                                   *)
LEMMA InputNext == ASSUME OneReader, TtyInv, InputInv, [Next]_vars PROVE InputInv'
<1>1. IBufSize \in Nat \ {0}
  BY TaskFinite
<1>2. CASE Typing
  <2>1. PICK c : c # <<>> /\ ififo' = tty_fifo_put(ififo, c)
    BY <1>2 DEF Typing
  <2>2. RingRight(ififo', IBufSize) /\ ififo'.count > 0
    <3>1. RingRight(ififo, IBufSize) /\ ififo.count < IBufSize /\ Ring(ififo, IBufSize)
      BY <1>2 DEF Typing, InputInv, RingRight
    <3>2. RingRight(tty_fifo_put(ififo, c), IBufSize) /\ tty_fifo_put(ififo, c).count = ififo.count + 1
      BY <1>1, <2>1, <3>1, RightPut, RingPut
    <3>3. ififo.count \in Int /\ ififo.count >= 0
      BY <3>1 DEF RingRight, Ring
    <3> QED BY <2>1, <3>2, <3>3
  <2> QED BY <2>2 DEF InputInv
<1>3. CASE Getting
  <2>1. ififo.count > 0
    BY <1>3 DEF Getting, InputInv, Task
  <2>2. RingRight(tty_fifo_get(ififo), IBufSize)
    BY <1>1, <2>1, RightGet DEF InputInv
  <2>3. \A u \in Task : pc'[u] # "r_get"
    <3>1. TtyInv'
      BY NextHolds
    <3>2. \A u \in Task : pc'[u] \in ReadPc => u \in Reader
      BY <3>1 DEF TtyInv, QueuesInv
    <3> QED BY <1>3, <3>2 DEF Getting, ReadPc
  <2> QED BY <1>3, <2>2, <2>3 DEF Getting, InputInv
<1>4. CASE Passing
  BY <1>4 DEF Passing, InputInv
<1> QED BY <1>2, <1>3, <1>4, InputSteps

Showing ==
  /\ ofifo.count < OBufSize
  /\ \E t \in Task : \E c : /\ ofifo' = tty_fifo_put(ofifo, << t, c >>)
                            /\ c = "cr" \/ (pc[t] = "w_put" /\ c = Head(text[t]))

Shows == ofifo.count > 0 /\ ofifo' = tty_fifo_get(ofifo)

(* And the ring of the output, with any number of writers.                 *)
LEMMA OutputSteps ==
  ASSUME TtyInv, [Next]_vars
  PROVE  Showing \/ Shows \/ ofifo' = ofifo
<1>1. ASSUME NEW t \in Task, tty_write_put(t) PROVE Showing
  <2>1. PICK c : /\ ofifo' = tty_fifo_put(ofifo, << t, c >>)
                 /\ c = "cr" \/ (pc[t] = "w_put" /\ c = Head(text[t]))
    BY <1>1 DEF tty_write_put, Goes
  <2>2. Kernel!Awake(t) /\ pc[t] \in ToPut
    BY <1>1 DEF tty_write_put, Goes, ToPut
  <2> QED BY <2>1, <2>2, RoomForHolders DEF Showing, Holding
<1>2. ASSUME NEW t \in Task, console_write_get(t) PROVE Shows
  BY <1>2 DEF console_write_get, Goes, TtyInv, OutInv, Shows
<1>3. ASSUME NEW t \in Task,
             \/ write(t) \/ read(t) \/ tty_read(t) \/ tty_write_wait(t) \/ tty_write_look(t) \/ tty_write_return(t)
             \/ console_write_lock(t) \/ console_write_look(t) \/ console_write_notify(t) \/ console_write_unlock(t)
      PROVE  ofifo' = ofifo
  BY <1>3 DEF write, read, tty_read, tty_read_wait, tty_read_look, tty_read_get, tty_read_next,
       tty_write_wait, tty_write_look, tty_write_return, console_write_lock, console_write_look,
       console_write_notify, console_write_unlock
<1>4. ASSUME NEW c, tty_in(c) PROVE ofifo' = ofifo
  BY <1>4 DEF tty_in
<1> QED BY <1>1, <1>2, <1>3, <1>4 DEF Next, Proceeds, tty_write, console_write, vars

(***************************************************************************)
(* The rings are queues, for every size of them and whatever is typed and  *)
(* written: round the end of the buffer too, characters come out in the    *)
(* order in which they were put in, and the last of the input is the one   *)
(* just typed.                                                             *)
(***************************************************************************)
THEOREM QueuesInOrder ==
  ASSUME OneReader
  PROVE  Spec => RingsAreQueues
<1> DEFINE A == /\ QueueStep(Content(ififo), Content(ififo)')
                /\ QueueStep(Content(ofifo), Content(ofifo)')
                /\ Len(Content(ififo)') > Len(Content(ififo)) =>
                     Content(ififo)'[Len(Content(ififo)')][1] = keys'
<1>1. Init => InputInv
  <2>1. ASSUME Init PROVE InputInv
    BY <2>1, TaskFinite, EmptyIsRight DEF Init, InputInv
  <2> QED BY <2>1
<1>2. ASSUME TtyInv, InputInv, [Next]_vars PROVE A
  <2>1. IBufSize \in Nat \ {0} /\ OBufSize \in Nat \ {0}
    BY TaskFinite
  <2>2. RingRight(ififo, IBufSize) /\ RingRight(ofifo, OBufSize)
    BY <1>2 DEF TtyInv, OutInv, InputInv
  <2>3. PICK old, new : /\ old = Content(ififo) /\ new = Content(ififo')
                        /\ Len(old) \in Nat
    <3>1. Lists(Content(ififo), ififo, IBufSize) /\ ififo.count \in Nat
      BY <2>1, <2>2, ContentIs, RingBounds
    <3>2. Len(Content(ififo)) \in Nat
      BY <3>1 DEF Lists
    <3> QED BY <3>2
  <2>4. /\ QueueStep(old, new)
        /\ Len(new) > Len(old) => new[Len(new)][1] = keys'
    <3>1. CASE Typing
      <4>1. PICK c \in Typed : ififo' = tty_fifo_put(ififo, << keys + 1, c >>)
        BY <3>1 DEF Typing
      <4>2. ififo.count < IBufSize /\ keys' = keys + 1
        BY <3>1 DEF Typing
      <4>3. /\ new # <<>> /\ old = SubSeq(new, 1, Len(new) - 1)
            /\ new[Len(new)] = << keys + 1, c >>
        <5>1. << keys + 1, c >> # <<>>
          OBVIOUS
        <5> QED BY <2>1, <2>2, <2>3, <4>1, <4>2, <5>1, ContentPut
      <4> QED BY <4>2, <4>3 DEF QueueStep
    <3>2. CASE Getting
      <4>1. ififo.count > 0 /\ ififo' = tty_fifo_get(ififo)
        BY <1>2, <3>2 DEF Getting, InputInv, Task
      <4>2. old # <<>> /\ new = Tail(old) /\ Len(new) = Len(old) - 1
        BY <2>1, <2>2, <2>3, <4>1, ContentGet
      <4>3. QueueStep(old, new)
        BY <4>2 DEF QueueStep
      <4>4. ~(Len(new) > Len(old))
        BY <2>3, <4>2
      <4> QED BY <4>3, <4>4
    <3>3. CASE Passing
      BY <2>3, <3>3 DEF Passing, QueueStep
    <3> QED BY <1>2, <3>1, <3>2, <3>3, InputSteps
  <2>5. QueueStep(Content(ofifo), Content(ofifo'))
    <3>1. CASE Showing
      <4>1. PICK c : ofifo' = tty_fifo_put(ofifo, c) /\ c # <<>>
        <5>1. PICK t, d : ofifo' = tty_fifo_put(ofifo, << t, d >>)
          BY <3>1 DEF Showing
        <5>2. << t, d >> # <<>>
          OBVIOUS
        <5> QED BY <5>1, <5>2
      <4>2. ofifo.count < OBufSize
        BY <3>1 DEF Showing
      <4>3. /\ Content(ofifo') # <<>>
            /\ Content(ofifo) = SubSeq(Content(ofifo'), 1, Len(Content(ofifo')) - 1)
        BY <2>1, <2>2, <4>1, <4>2, ContentPut
      <4> QED BY <4>3 DEF QueueStep
    <3>2. CASE Shows
      BY <2>1, <2>2, <3>2, ContentGet DEF QueueStep, Shows
    <3> QED BY <1>2, <3>1, <3>2, OutputSteps DEF QueueStep
  <2>6. Content(ififo)' = Content(ififo') /\ Content(ofifo)' = Content(ofifo')
    BY DEF Content, Places
  <2> QED BY <2>3, <2>4, <2>5, <2>6
<1>3. TtyInv /\ InputInv /\ [Next]_vars => InputInv'
  BY InputNext
<1>4. Spec => [][A]_vars
  <2>1. TtyInv /\ InputInv /\ [Next]_vars => [A]_vars
    BY <1>2
  <2> HIDE DEF A
  <2> QED BY <1>1, <1>3, <2>1, TtyInvariant, PTL DEF Spec
<1> QED BY <1>4 DEF RingsAreQueues

------------------------------------------------------------------------------
(***************************************************************************)
(* The types.  What is written is made of what is printed, and a process   *)
(* that is to put a character has one left.                                *)
(***************************************************************************)
Pending == {"w_cr_look", "w_cr_put", "w_lf", "w_look", "w_put"}

TextInv ==
  /\ text \in [Task -> Seq(Printed)] /\ char \in [Task -> Chars]
  /\ \A t \in Task : pc[t] \in Pending => text[t] # <<>>

InCells  == (1..MaxKeys) \X Typed
OutCells == Task \X Printed

CellsInv ==
  /\ ififo \in Rings(IBufSize, InCells) /\ ofifo \in Rings(OBufSize, OutCells)
  /\ keys \in 0..MaxKeys

TypesInv == InputInv /\ TextInv /\ CellsInv /\ permits[ISem] <= IBufSize

(* Every string that is written is one of what is printed.                 *)
LEMMA TextsPrinted ==
  /\ Texts \subseteq Seq(Printed) /\ <<>> \in Seq(Printed)
  /\ Chars \subseteq Printed /\ "cr" \in Printed /\ Typed \subseteq Chars
  /\ \A c \in Printed : << c >> \in Seq(Printed)
<1>1. ASSUME NEW s \in Texts PROVE s \in Seq(Printed)
  <2>1. s \in Seq(STRING)
    BY TtyAssumption
  <2>2. Len(s) \in Nat /\ DOMAIN s = 1..Len(s) /\ s = [i \in 1..Len(s) |-> s[i]]
    <3>1. \A S : \A q \in Seq(S) : /\ Len(q) \in Nat /\ DOMAIN q = 1..Len(q)
                                   /\ q = [i \in 1..Len(q) |-> q[i]]
      OBVIOUS
    <3> QED BY <2>1, <3>1
  <2>3. \A i \in 1..Len(s) : s[i] \in { s[j] : j \in DOMAIN s }
    BY <2>2
  <2>4. \A i \in 1..Len(s) : s[i] \in Printed
    BY <2>3 DEF Printed
  <2>5. s \in [1..Len(s) -> Printed]
    BY <2>2, <2>4
  <2> QED BY <2>2, <2>5
<1>2. Chars \subseteq Printed /\ "cr" \in Printed /\ Typed \subseteq Chars
  BY DEF Printed, Chars
<1>3. \A S : \A c \in S : << c >> \in Seq(S)
  OBVIOUS
<1>4. <<>> \in Seq(Printed)
  OBVIOUS
<1> QED BY <1>1, <1>2, <1>3, <1>4

(* A ring that a character of its cells is put in keeps its type,          *)
LEMMA PutTyped ==
  ASSUME NEW n \in Nat \ {0}, NEW cells, NEW r \in Rings(n, cells), NEW c \in cells,
         RingRight(r, n), r.count < n
  PROVE  tty_fifo_put(r, c) \in Rings(n, cells)
<1>1. PICK k \in 0..n, a \in 0..(n - 1), w \in 0..(n - 1) :
        k = r.count /\ a = r.read /\ w = r.write
  BY RingBounds
<1>2. Advance(r, w) \in 0..(n - 1)
  <2>1. Places(r) = n
    BY RingPlaces DEF RingRight
  <2> QED BY <2>1 DEF Advance
<1>3. PICK b \in [0..(n - 1) -> cells \cup {<<>>}], v \in 0..(n - 1) :
        b = r.buf /\ v = Advance(r, w)
  BY <1>2 DEF Rings
<1>4. k + 1 \in 0..n
  BY <1>1
<1>5. r = [buf |-> b, read |-> a, write |-> w, count |-> k]
  BY <1>1, <1>3 DEF Rings
<1>6. tty_fifo_put(r, c) = [buf |-> [b EXCEPT ![w] = c], read |-> a, write |-> v, count |-> k + 1]
  <2>1. tty_fifo_put(r, c) = [r EXCEPT !.buf = [b EXCEPT ![w] = c], !.write = v, !.count = k + 1]
    BY <1>1, <1>3 DEF tty_fifo_put
  <2> QED BY <1>5, <2>1
<1>7. [b EXCEPT ![w] = c] \in [0..(n - 1) -> cells \cup {<<>>}]
  OBVIOUS
<1> QED BY <1>4, <1>6, <1>7 DEF Rings

(* and one that a character is got from, which is one of its cells.        *)
LEMMA GetTyped ==
  ASSUME NEW n \in Nat \ {0}, NEW cells, NEW r \in Rings(n, cells), RingRight(r, n), r.count > 0
  PROVE  /\ tty_fifo_get(r) \in Rings(n, cells)
         /\ Oldest(r) \in cells
<1>1. PICK k \in 1..n, a \in 0..(n - 1), w \in 0..(n - 1) :
        k = r.count /\ a = r.read /\ w = r.write
  BY RingBounds
<1>2. Advance(r, a) \in 0..(n - 1)
  <2>1. Places(r) = n
    BY RingPlaces DEF RingRight
  <2> QED BY <2>1 DEF Advance
<1>3. PICK b \in [0..(n - 1) -> cells \cup {<<>>}], v \in 0..(n - 1) :
        b = r.buf /\ v = Advance(r, a)
  BY <1>2 DEF Rings
<1>4. k - 1 \in 0..n
  BY <1>1
<1>5. r = [buf |-> b, read |-> a, write |-> w, count |-> k]
  BY <1>1, <1>3 DEF Rings
<1>6. tty_fifo_get(r) = [buf |-> [b EXCEPT ![a] = <<>>], read |-> v, write |-> w, count |-> k - 1]
  <2>1. tty_fifo_get(r) = [r EXCEPT !.buf = [b EXCEPT ![a] = <<>>], !.read = v, !.count = k - 1]
    BY <1>1, <1>3 DEF tty_fifo_get
  <2> QED BY <1>5, <2>1
<1>7. [b EXCEPT ![a] = <<>>] \in [0..(n - 1) -> cells \cup {<<>>}]
  OBVIOUS
<1>8. b[a] # <<>>
  <2>1. Live(r, n, a)
    BY <1>1 DEF Live
  <2> QED BY <1>1, <1>3, <2>1 DEF RingRight
<1>9. Oldest(r) = b[a]
  BY <1>1, <1>3 DEF Oldest
<1> QED BY <1>4, <1>6, <1>7, <1>8, <1>9 DEF Rings

(* What a reader takes is a character, and so is what it echoes.           *)
LEMMA TakingTyped ==
  ASSUME QueuesInv, TextInv, NEW t \in Task, NEW from, NEW c \in Chars, Took(t, from, c)
  PROVE  TextInv'
<1>1. char' \in [Task -> Chars]
  BY DEF Took, TextInv
<1>2. CASE c = "del" /\ len[t] = 0
  <2>1. Goes(t, from, "r_wait") /\ UNCHANGED text
    BY <1>2 DEF Took
  <2>2. \A u \in Task : pc'[u] = IF u = t THEN "r_wait" ELSE pc[u]
    BY <2>1, Going
  <2> QED BY <1>1, <2>1, <2>2 DEF TextInv, Pending
<1>3. CASE ~(c = "del" /\ len[t] = 0)
  <2>1. Goes(t, from, "w_next") /\ text' = [text EXCEPT ![t] = << c >>]
    BY <1>3 DEF Took
  <2>2. \A u \in Task : pc'[u] = IF u = t THEN "w_next" ELSE pc[u]
    BY <2>1, Going
  <2>3. PICK s \in Seq(Printed) : s = << c >>
    BY TextsPrinted
  <2>4. text' \in [Task -> Seq(Printed)] /\ \A u \in Task : u # t => text'[u] = text[u]
    BY <2>1, <2>3 DEF TextInv
  <2> QED BY <1>1, <2>2, <2>4 DEF TextInv, Pending
<1> QED BY <1>2, <1>3

(* A step that leaves the text as it is.                                   *)
LEMMA TextStays ==
  ASSUME TextInv, UNCHANGED << text, char >>,
         \A u \in Task : pc'[u] \in Pending => text[u] # <<>>
  PROVE  TextInv'
BY DEF TextInv

(* What is left of a text is printed, and there is some while it is put.   *)
LEMMA TextNext == ASSUME TtyInv, TypesInv, [Next]_vars PROVE TextInv'
<1>1. QueuesInv /\ TextInv
  BY DEF TtyInv, TypesInv
<1>2. ASSUME NEW t \in Task, write(t) PROVE TextInv'
  <2>1. PICK s \in Seq(Printed) : text' = [text EXCEPT ![t] = s]
    BY <1>2, TextsPrinted DEF write
  <2>2. /\ text' \in [Task -> Seq(Printed)] /\ UNCHANGED char
        /\ \A u \in Task : u # t => text'[u] = text[u]
    BY <1>1, <1>2, <2>1 DEF write, TextInv, readVars
  <2>3. \A u \in Task : pc'[u] = IF u = t THEN "w_next" ELSE pc[u]
    BY <1>1, <1>2, Going DEF write
  <2> QED BY <1>1, <2>2, <2>3 DEF TextInv, Pending
<1>3. ASSUME NEW t \in Task, tty_write_put(t) PROVE TextInv'
  <2>1. UNCHANGED char
    BY <1>3 DEF tty_write_put, readVars
  <2>2. CASE Goes(t, "w_cr_put", "w_lf") /\ UNCHANGED text
    <3>1. pc[t] = "w_cr_put" /\ \A u \in Task : pc'[u] = IF u = t THEN "w_lf" ELSE pc[u]
      BY <1>1, <2>2, Going
    <3> QED BY <1>1, <2>1, <2>2, <3>1, TextStays DEF TextInv, Pending
  <2>3. CASE Goes(t, "w_put", "c_lock") /\ text' = [text EXCEPT ![t] = Tail(@)]
    <3>1. pc[t] = "w_put" /\ \A u \in Task : pc'[u] = IF u = t THEN "c_lock" ELSE pc[u]
      BY <1>1, <2>3, Going
    <3>2. text[t] \in Seq(Printed) /\ text[t] # <<>>
      BY <1>1, <3>1 DEF TextInv, Pending
    <3>3. Tail(text[t]) \in Seq(Printed)
      BY <3>2, HeadTailProperties
    <3>4. text' \in [Task -> Seq(Printed)] /\ \A u \in Task : u # t => text'[u] = text[u]
      BY <1>1, <2>3, <3>3 DEF TextInv
    <3> QED BY <1>1, <2>1, <3>1, <3>4 DEF TextInv, Pending
  <2> QED BY <1>3, <2>2, <2>3 DEF tty_write_put
<1>4. ASSUME NEW t \in Task, tty_write_wait(t) PROVE TextInv'
  <2>1. UNCHANGED << text, char >>
    BY <1>4 DEF tty_write_wait, readVars
  <2>2. text[t] # <<>>
    BY <1>1, <1>4 DEF tty_write_wait, Goes, TextInv, Pending
  <2>3. PICK from, to : Goes(t, from, to)
    BY <1>4 DEF tty_write_wait
  <2>4. \A u \in Task : pc'[u] = IF u = t THEN to ELSE pc[u]
    BY <1>1, <2>3, Going
  <2> QED BY <1>1, <2>1, <2>2, <2>4, TextStays DEF TextInv
<1>5. ASSUME NEW t \in Task, tty_write_look(t) PROVE TextInv'
  <2>1. UNCHANGED << text, char >>
    BY <1>5 DEF tty_write_look, readVars
  <2>2. PICK from, to : from \in Pending /\ Goes(t, from, to)
    BY <1>5 DEF tty_write_look, Pending
  <2>3. pc[t] \in Pending /\ \A u \in Task : pc'[u] = IF u = t THEN to ELSE pc[u]
    BY <1>1, <2>2, Going
  <2> QED BY <1>1, <2>1, <2>3, TextStays DEF TextInv
<1>6. ASSUME NEW t \in Task,
             tty_write_return(t) \/ console_write(t) \/ read(t) \/ tty_read_wait(t) \/ tty_read_next(t)
      PROVE  TextInv'
  <2>1. UNCHANGED << text, char >>
    BY <1>6 DEF tty_write_return, console_write, console_write_lock, console_write_look,
         console_write_get, console_write_notify, console_write_unlock, read, tty_read_wait,
         tty_read_next, readVars
  <2>2. PICK from, to : Goes(t, from, to) /\ to \notin Pending
    <3>1. CASE tty_write_return(t) \/ read(t) \/ tty_read_wait(t) \/ tty_read_next(t)
      BY <3>1, Returning DEF tty_write_return, read, tty_read_wait, tty_read_next, Pending
    <3>2. CASE console_write(t)
      BY <3>2 DEF console_write, console_write_lock, console_write_look,
           console_write_get, console_write_notify, console_write_unlock, Pending
    <3> QED BY <1>6, <3>1, <3>2
  <2>3. \A u \in Task : pc'[u] = IF u = t THEN to ELSE pc[u]
    BY <1>1, <2>2, Going
  <2> QED BY <1>1, <2>1, <2>2, <2>3, TextStays DEF TextInv
<1>7. ASSUME NEW t \in Task, tty_read_look(t) PROVE TextInv'
  <2>1. CASE Goes(t, "r_look", "r_get") /\ UNCHANGED << text, char >>
    <3>1. \A u \in Task : pc'[u] = IF u = t THEN "r_get" ELSE pc[u]
      BY <1>1, <2>1, Going
    <3> QED BY <1>1, <2>1, <3>1, TextStays DEF TextInv, Pending
  <2>2. CASE \E c \in Chars : Took(t, "r_look", c)
    BY <1>1, <2>2, TakingTyped
  <2> QED BY <1>7, <2>1, <2>2 DEF tty_read_look, readVars
<1>8. ASSUME NEW t \in Task, tty_read_get(t) PROVE TextInv'
  <2>1. pc[t] = "r_get" /\ Took(t, "r_get", Oldest(ififo)[2])
    BY <1>8 DEF tty_read_get
  <2>2. ififo.count > 0 /\ RingRight(ififo, IBufSize) /\ ififo \in Rings(IBufSize, InCells)
    BY <2>1 DEF TypesInv, InputInv, CellsInv
  <2>3. Oldest(ififo) \in InCells
    BY <2>2, GetTyped, TaskFinite
  <2>4. PICK c \in Chars : c = Oldest(ififo)[2]
    BY <2>3, TextsPrinted DEF InCells
  <2> QED BY <1>1, <2>1, <2>4, TakingTyped
<1>9. ASSUME NEW c, tty_in(c) PROVE TextInv'
  <2>1. UNCHANGED << text, char, pc >>
    BY <1>9 DEF tty_in, readVars
  <2> QED BY <1>1, <2>1, TextStays DEF TextInv
<1>10. CASE UNCHANGED vars
  <2>1. UNCHANGED << text, char, pc >>
    BY <1>10 DEF vars, readVars
  <2> QED BY <1>1, <2>1, TextStays DEF TextInv
<1> QED BY <1>2, <1>3, <1>4, <1>5, <1>6, <1>7, <1>8, <1>9, <1>10 DEF Next, Proceeds, tty_read, tty_write

(* What goes into the rings is of the type of their cells.                 *)
LEMMA CellsNext == ASSUME OneReader, TtyInv, TypesInv, [Next]_vars PROVE CellsInv'
<1>1. /\ IBufSize \in Nat \ {0} /\ OBufSize \in Nat \ {0}
      /\ RingRight(ififo, IBufSize) /\ RingRight(ofifo, OBufSize)
      /\ ififo \in Rings(IBufSize, InCells) /\ ofifo \in Rings(OBufSize, OutCells)
      /\ keys \in 0..MaxKeys /\ MaxKeys \in Nat
  BY TaskFinite, TtyAssumption DEF TtyInv, OutInv, TypesInv, InputInv, CellsInv
<1>2. ififo' \in Rings(IBufSize, InCells) /\ keys' \in 0..MaxKeys
  <2>1. CASE Typing
    <3>1. PICK c \in Typed : ififo' = tty_fifo_put(ififo, << keys + 1, c >>)
      BY <2>1 DEF Typing
    <3>2. keys < MaxKeys /\ keys' = keys + 1 /\ ififo.count < IBufSize
      BY <2>1 DEF Typing
    <3>3. << keys + 1, c >> \in InCells
      BY <1>1, <3>2 DEF InCells
    <3>4. tty_fifo_put(ififo, << keys + 1, c >>) \in Rings(IBufSize, InCells)
      BY <1>1, <3>2, <3>3, PutTyped
    <3> QED BY <1>1, <3>1, <3>2, <3>4
  <2>2. CASE Getting
    <3>1. ififo.count > 0 /\ ififo' = tty_fifo_get(ififo) /\ keys' = keys
      BY <2>2 DEF Getting, TypesInv, InputInv, Task
    <3>2. tty_fifo_get(ififo) \in Rings(IBufSize, InCells)
      BY <1>1, <3>1, GetTyped
    <3> QED BY <1>1, <3>1, <3>2
  <2>3. CASE Passing
    BY <1>1, <2>3 DEF Passing
  <2> QED BY <2>1, <2>2, <2>3, InputSteps
<1>3. ofifo' \in Rings(OBufSize, OutCells)
  <2>1. CASE Showing
    <3>1. PICK t, c : /\ t \in Task /\ ofifo' = tty_fifo_put(ofifo, << t, c >>)
                      /\ c = "cr" \/ (pc[t] = "w_put" /\ c = Head(text[t]))
      BY <2>1 DEF Showing
    <3>2. ofifo.count < OBufSize
      BY <2>1 DEF Showing
    <3>3. c \in Printed
      <4>1. CASE pc[t] = "w_put" /\ c = Head(text[t])
        <5>1. text[t] \in Seq(Printed) /\ text[t] # <<>>
          BY <3>1, <4>1 DEF TypesInv, TextInv, Pending
        <5> QED BY <4>1, <5>1, HeadTailProperties
      <4>2. c = "cr" => c \in Printed
        BY TextsPrinted
      <4> QED BY <3>1, <4>1, <4>2
    <3>4. << t, c >> \in OutCells
      BY <3>1, <3>3 DEF OutCells
    <3>5. tty_fifo_put(ofifo, << t, c >>) \in Rings(OBufSize, OutCells)
      BY <1>1, <3>2, <3>4, PutTyped
    <3> QED BY <3>1, <3>5
  <2>2. CASE Shows
    <3>1. tty_fifo_get(ofifo) \in Rings(OBufSize, OutCells)
      BY <1>1, <2>2, GetTyped DEF Shows
    <3> QED BY <2>2, <3>1 DEF Shows
  <2> QED BY <1>1, <2>1, <2>2, OutputSteps
<1> QED BY <1>2, <1>3 DEF CellsInv

(* tty_in gives a permit only below the size of the ring.                  *)
LEMMA PermitsNext ==
  ASSUME TtyInv, permits[ISem] <= IBufSize, [Next]_vars
  PROVE  permits'[ISem] <= IBufSize
<1>1. /\ permits \in [Sems -> Nat] /\ ISem \in Sems /\ OSem \in Sems /\ ISem # OSem
      /\ IBufSize \in Nat
  BY TaskFinite DEF TtyInv, QueuesInv, QueueTypeOK, Sems, ISem, OSem
<1>2. PICK k \in Nat : k = permits[ISem]
  BY <1>1
<1>3. CASE permits' = permits
  BY <1>3
<1>4. ASSUME NEW s \in Sems, sem_notify(s), s = OSem \/ permits[ISem] < IBufSize
      PROVE  permits'[ISem] <= IBufSize
  <2>1. permits' = [permits EXCEPT ![s] = @ + 1] \/ permits' = permits
    BY <1>4 DEF sem_notify, Kernel!GivePermit
  <2> QED BY <1>1, <1>2, <1>4, <2>1
<1>5. ASSUME NEW t, NEW s \in Sems, sem_wait(t, s)
      PROVE  permits'[ISem] <= IBufSize
  <2>1. permits' = [permits EXCEPT ![s] = @ - 1] \/ permits' = permits
    BY <1>5 DEF sem_wait, Kernel!TakePermit, Kernel!QueueForPermit
  <2> QED BY <1>1, <1>2, <1>5, <2>1
<1>6. ASSUME NEW c, tty_in(c) PROVE permits'[ISem] <= IBufSize
  <2>1. CASE UNCHANGED kernelVars
    BY <1>3, <2>1 DEF kernelVars
  <2>2. CASE permits[ISem] < IBufSize /\ sem_notify(ISem)
    BY <1>1, <1>4, <2>2
  <2>3. permits[ISem] >= IBufSize \/ permits[ISem] < IBufSize
    BY <1>1, <1>2
  <2> QED BY <1>6, <2>1, <2>2, <2>3 DEF tty_in
<1>7. ASSUME NEW t \in Task, tty_read_wait(t) \/ tty_write_wait(t) PROVE permits'[ISem] <= IBufSize
  BY <1>1, <1>5, <1>7 DEF tty_read_wait, tty_write_wait
<1>8. ASSUME NEW t \in Task, console_write_notify(t) PROVE permits'[ISem] <= IBufSize
  BY <1>1, <1>4, <1>8 DEF console_write_notify
<1>9. ASSUME NEW t \in Task,
             \/ write(t) \/ read(t) \/ tty_read_look(t) \/ tty_read_get(t) \/ tty_read_next(t)
             \/ tty_write_look(t) \/ tty_write_put(t) \/ tty_write_return(t)
             \/ console_write_lock(t) \/ console_write_look(t) \/ console_write_get(t) \/ console_write_unlock(t)
      PROVE  permits' = permits
  BY <1>9 DEF write, read, tty_read_look, tty_read_get, tty_read_next, tty_write_look, tty_write_put,
       tty_write_return, console_write_lock, console_write_look, console_write_get,
       console_write_unlock, kernelVars
<1> QED BY <1>3, <1>6, <1>7, <1>8, <1>9
        DEF Next, Proceeds, tty_read, tty_write, console_write, vars, kernelVars

(***************************************************************************)
(* The variables keep their types: no more characters in a ring than it    *)
(* has places, no more permits than the rings have places, and only what   *)
(* was typed or written in them.                                           *)
(***************************************************************************)
THEOREM TtyTypes ==
  ASSUME OneReader
  PROVE  Spec => []TtyTypeOK
<1>1. Init => TypesInv
  <2> SUFFICES ASSUME Init PROVE TypesInv
    OBVIOUS
  <2>1. InputInv
    BY TaskFinite, EmptyIsRight DEF Init, InputInv
  <2>2. TextInv
    BY TextsPrinted DEF Init, TextInv, Pending, Chars
  <2>3. \A n \in Nat \ {0} : \A cells : EmptyRing(n) \in Rings(n, cells)
    BY DEF EmptyRing, Rings
  <2>4. CellsInv
    BY <2>3, TaskFinite, TtyAssumption DEF Init, CellsInv
  <2>5. permits[ISem] = 0
    BY DEF Init, Kernel!Init, ISem, OSem
  <2> QED BY <2>1, <2>2, <2>4, <2>5, TaskFinite DEF TypesInv
<1>2. TtyInv /\ TypesInv /\ [Next]_vars => TypesInv'
  <2> SUFFICES ASSUME TtyInv, TypesInv, [Next]_vars PROVE TypesInv'
    OBVIOUS
  <2>1. InputInv'
    BY InputNext DEF TypesInv
  <2>2. TextInv' /\ CellsInv'
    BY TextNext, CellsNext
  <2>3. permits'[ISem] <= IBufSize
    BY PermitsNext DEF TypesInv
  <2> QED BY <2>1, <2>2, <2>3 DEF TypesInv
<1>3. TtyInv /\ TypesInv => TtyTypeOK
  <2> SUFFICES ASSUME TtyInv, TypesInv PROVE TtyTypeOK
    OBVIOUS
  <2>1. /\ holder \in [{Console} -> Task \cup {Nobody}] /\ lockQueue \in [{Console} -> Seq(Task)]
        /\ semQueue \in [Sems -> Seq(Task)] /\ pc \in [Task -> Pc] /\ permits \in [Sems -> Nat]
    BY DEF TtyInv, QueuesInv, QueueTypeOK
  <2>2. /\ ififo \in Rings(IBufSize, InCells) /\ ofifo \in Rings(OBufSize, OutCells)
        /\ keys \in 0..MaxKeys /\ char \in [Task -> Chars]
    BY DEF TypesInv, CellsInv, TextInv
  <2>3. permits[OSem] <= OBufSize
    <3>1. Cardinality(Holders) \in Nat
      BY TaskFinite DEF Holders
    <3>2. permits[OSem] \in Nat
      BY <2>1 DEF Sems
    <3>3. ofifo.count \in Int /\ ofifo.count >= 0
      BY DEF TtyInv, OutInv, RingRight, Ring
    <3> QED BY <3>1, <3>2, <3>3, TaskFinite DEF TtyInv, OutInv, Accounted
  <2>4. permits[ISem] <= IBufSize
    BY DEF TypesInv
  <2>5. permits \in [Sems -> 0..(IF IBufSize > OBufSize THEN IBufSize ELSE OBufSize)]
    <3>1. PICK m \in Nat : /\ m = IF IBufSize > OBufSize THEN IBufSize ELSE OBufSize
                           /\ IBufSize <= m /\ OBufSize <= m
      BY TaskFinite
    <3>2. \A s \in Sems : permits[s] \in 0..m
      BY <2>1, <2>3, <2>4, <3>1, TaskFinite DEF Sems
    <3> QED BY <2>1, <3>1, <3>2
  <2> QED BY <2>1, <2>2, <2>5 DEF TtyTypeOK, Sems, InCells, OutCells
<1> QED BY <1>1, <1>2, <1>3, TtyInvariant, PTL DEF Spec
==============================================================================
