----------------------------- MODULE SchedProofs -----------------------------
(***************************************************************************)
(* The scheduler's invariant, for every set of tasks, slice, tick and word *)
(* size: its pieces about lists, then what each handler preserves, then    *)
(* the theorems of SchedSpec.                                              *)
(***************************************************************************)
EXTENDS Sched, SequenceTheorems, TLAPS

(* What list_insert_last does to the elements of a list. *)
LEMMA InsertLast ==
  ASSUME NEW S, NEW list \in Seq(S), NEW t \in S
  PROVE  /\ Append(list, t) \in Seq(S)
         /\ ToSet(Append(list, t)) = ToSet(list) \cup {t}
         /\ t \notin ToSet(list) /\ NoDuplicate(list) => NoDuplicate(Append(list, t))
<1> DEFINE new == Append(list, t)
<1>1. /\ new \in Seq(S)
      /\ Len(new) = Len(list) + 1
      /\ DOMAIN new = 1..(Len(list) + 1)
      /\ \A i \in 1..Len(list) : new[i] = list[i]
      /\ new[Len(list) + 1] = t
  BY AppendProperties
<1>2. Len(list) \in Nat /\ DOMAIN list = 1..Len(list)
  BY LenProperties
<1>3. ToSet(new) = ToSet(list) \cup {t}
  BY <1>1, <1>2 DEF ToSet
<1>4. t \notin ToSet(list) /\ NoDuplicate(list) => NoDuplicate(new)
  BY <1>1, <1>2 DEF ToSet, NoDuplicate
<1> QED BY <1>1, <1>3, <1>4

(* What taking the head off a list does to its elements. *)
LEMMA RemoveHead ==
  ASSUME NEW S, NEW list \in Seq(S), list # <<>>, NoDuplicate(list)
  PROVE  /\ Head(list) \in S
         /\ Head(list) \in ToSet(list)
         /\ Tail(list) \in Seq(S)
         /\ ToSet(Tail(list)) = ToSet(list) \ {Head(list)}
         /\ NoDuplicate(Tail(list))
<1>1. /\ Len(list) \in Nat \ {0}
      /\ DOMAIN list = 1..Len(list)
  BY LenProperties, EmptySeq
<1>2. /\ Head(list) \in S
      /\ Head(list) = list[1]
      /\ Tail(list) \in Seq(S)
      /\ Len(Tail(list)) = Len(list) - 1
      /\ DOMAIN Tail(list) = 1..(Len(list) - 1)
      /\ \A i \in 1..(Len(list) - 1) : Tail(list)[i] = list[i + 1]
  BY <1>1, HeadTailProperties
<1>3. \A i \in 2..Len(list) : list[i] # list[1]
  BY <1>1 DEF NoDuplicate
<1>4. ToSet(Tail(list)) \subseteq ToSet(list) \ {Head(list)}
  BY <1>1, <1>2, <1>3 DEF ToSet
<1>5. ASSUME NEW x \in ToSet(list), x # Head(list)
      PROVE  x \in ToSet(Tail(list))
  <2>1. PICK i \in 1..Len(list) : list[i] = x
    BY <1>1 DEF ToSet
  <2>2. i # 1 /\ i - 1 \in 1..(Len(list) - 1) /\ Tail(list)[i - 1] = x
    BY <1>1, <1>2, <1>5, <2>1
  <2> QED BY <1>2, <2>2 DEF ToSet
<1>6. NoDuplicate(Tail(list))
  <2> SUFFICES ASSUME NEW i \in 1..(Len(list) - 1), NEW j \in 1..(Len(list) - 1),
                      Tail(list)[i] = Tail(list)[j]
               PROVE  i = j
    BY <1>2 DEF NoDuplicate
  <2>1. list[i + 1] = list[j + 1] /\ i + 1 \in DOMAIN list /\ j + 1 \in DOMAIN list
    BY <1>1, <1>2
  <2> QED BY <2>1 DEF NoDuplicate
<1>7. Head(list) \in ToSet(list)
  BY <1>1, <1>2 DEF ToSet
<1> QED BY <1>2, <1>4, <1>5, <1>6, <1>7

(* list_remove of the head is list_remove_first. *)
LEMMA RemoveOfHead ==
  ASSUME NEW S, NEW list \in Seq(S), list # <<>>, NoDuplicate(list)
  PROVE  list_remove(list, Head(list)) = Tail(list)
<1>1. /\ Len(list) \in Nat \ {0}
      /\ DOMAIN list = 1..Len(list)
      /\ Head(list) = list[1]
  BY LenProperties, EmptySeq, HeadTailProperties
<1>2. (CHOOSE i \in DOMAIN list : list[i] = Head(list)) = 1
  BY <1>1 DEF NoDuplicate
<1>3. RemoveAt(list, 1) = Tail(list)
  <2>1. SubSeq(list, 1, 0) = <<>>
    BY SubSeqProperties
  <2>2. SubSeq(list, 2, Len(list)) = Tail(list)
    BY <1>1, SubSeqProperties
  <2>3. Tail(list) \in Seq(S)
    BY HeadTailProperties
  <2> QED BY <2>1, <2>2, <2>3, ConcatEmptySeq DEF RemoveAt
<1> QED BY <1>2, <1>3 DEF list_remove

(* Two lists without a common element, one behind the other. *)
LEMMA Joined ==
  ASSUME NEW S, NEW a \in Seq(S), NEW b \in Seq(S)
  PROVE  /\ a \o b \in Seq(S)
         /\ ToSet(a \o b) = ToSet(a) \cup ToSet(b)
         /\ NoDuplicate(a) /\ NoDuplicate(b) /\ ToSet(a) \cap ToSet(b) = {}
              => NoDuplicate(a \o b)
<1>1. /\ a \o b \in Seq(S)
      /\ Len(a \o b) = Len(a) + Len(b)
      /\ \A i \in 1..(Len(a) + Len(b)) :
           (a \o b)[i] = IF i <= Len(a) THEN a[i] ELSE b[i - Len(a)]
  BY ConcatProperties
<1>2. /\ Len(a) \in Nat /\ DOMAIN a = 1..Len(a)
      /\ Len(b) \in Nat /\ DOMAIN b = 1..Len(b)
      /\ DOMAIN (a \o b) = 1..(Len(a) + Len(b))
  BY <1>1, LenProperties
<1>3. ToSet(a \o b) \subseteq ToSet(a) \cup ToSet(b)
  BY <1>1, <1>2 DEF ToSet
<1>4. ToSet(a) \subseteq ToSet(a \o b)
  BY <1>1, <1>2 DEF ToSet
<1>5. ASSUME NEW x \in ToSet(b) PROVE x \in ToSet(a \o b)
  <2>1. PICK i \in 1..Len(b) : b[i] = x
    BY <1>2 DEF ToSet
  <2>2. i + Len(a) \in DOMAIN (a \o b) /\ (a \o b)[i + Len(a)] = x
    BY <1>1, <1>2, <2>1
  <2> QED BY <2>2 DEF ToSet
<1>6. ASSUME NoDuplicate(a), NoDuplicate(b), ToSet(a) \cap ToSet(b) = {}
      PROVE  NoDuplicate(a \o b)
  <2> SUFFICES ASSUME NEW i \in 1..(Len(a) + Len(b)), NEW j \in 1..(Len(a) + Len(b)),
                      (a \o b)[i] = (a \o b)[j]
               PROVE  i = j
    BY <1>2 DEF NoDuplicate
  <2>1. CASE i <= Len(a) /\ j <= Len(a)
    BY <1>1, <1>2, <1>6, <2>1 DEF NoDuplicate
  <2>2. CASE i > Len(a) /\ j > Len(a)
    <3>1. /\ b[i - Len(a)] = b[j - Len(a)]
          /\ i - Len(a) \in DOMAIN b /\ j - Len(a) \in DOMAIN b
      BY <1>1, <1>2, <2>2
    <3>2. i - Len(a) = j - Len(a)
      BY <1>6, <3>1 DEF NoDuplicate
    <3> QED BY <1>2, <3>2
  <2>3. CASE i <= Len(a) /\ j > Len(a)
    <3>1. /\ a[i] = b[j - Len(a)]
          /\ i \in DOMAIN a /\ j - Len(a) \in DOMAIN b
      BY <1>1, <1>2, <2>3
    <3> QED BY <1>6, <3>1 DEF ToSet
  <2>4. CASE i > Len(a) /\ j <= Len(a)
    <3>1. /\ b[i - Len(a)] = a[j]
          /\ j \in DOMAIN a /\ i - Len(a) \in DOMAIN b
      BY <1>1, <1>2, <2>4
    <3> QED BY <1>6, <3>1 DEF ToSet
  <2> QED BY <1>2, <2>1, <2>2, <2>3, <2>4
<1> QED BY <1>1, <1>3, <1>4, <1>5, <1>6

(* What a scan of a list leaves. *)
LEMMA Scanned ==
  ASSUME NEW S, NEW list \in Seq(S), NEW T, T \subseteq ToSet(list),
         NEW w \in InOrder(list, T)
  PROVE  w \in Seq(S) /\ ToSet(w) = T /\ NoDuplicate(w)
<1>1. T \subseteq S
  BY LenProperties DEF ToSet
<1>2. PICK n \in 0..Len(list) : w \in [1..n -> T]
  BY DEF InOrder
<1>3. w \in [1..n -> S] /\ n \in Nat
  BY <1>1, <1>2, LenProperties
<1>4. w \in Seq(S)
  BY <1>3, SeqDef
<1> QED BY <1>4 DEF InOrder

------------------------------------------------------------------------------
(***************************************************************************)
(* The common tail of the handlers.  A task_dispatch to a ready list of    *)
(* started tasks establishes that the head runs, and changes no state but  *)
(* the new head's.                                                         *)
(***************************************************************************)
LEMMA Dispatch ==
  ASSUME SchedTypeOK,
         NEW ready \in Seq(Task), NEW states \in [AllTasks -> TaskState],
         task_dispatch(ready, states),
         \A t \in ToSet(ready) : states[t] # "created"
  PROVE  /\ ready_list' = ready
         /\ curr_task' \in AllTasks
         /\ state' \in [AllTasks -> TaskState]
         /\ CurrIsHead'
         /\ \A t \in Task : t \notin ToSet(ready) => state'[t] = states[t]
         /\ Started' = { t \in Task : states[t] # "created" }
<1> DEFINE to == task_next_run(ready)
<1>1. ready = <<>> \/ (to \in Task /\ to \in ToSet(ready) /\ to = Head(ready))
  <2>1. ready # <<>> => Head(ready) \in Task /\ Head(ready) = ready[1] /\ 1 \in DOMAIN ready
    BY LenProperties, EmptySeq, HeadTailProperties
  <2> QED BY <2>1 DEF ToSet, task_next_run
<1>2. to \in AllTasks /\ (to = Idle \/ to \in ToSet(ready))
  BY <1>1 DEF task_next_run, AllTasks
<1>3. /\ ready_list' = ready
      /\ curr_task' = to
      /\ state' = IF to = curr_task THEN states ELSE [states EXCEPT ![to] = "running"]
  BY DEF task_dispatch
<1>4. state' \in [AllTasks -> TaskState]
  BY <1>2, <1>3 DEF TaskState
<1>5. \A t \in Task : t \notin ToSet(ready) => state'[t] = states[t]
  BY <1>2, <1>3, SchedAssumption DEF SchedAssumption, AllTasks
<1>6. \A t \in Task : state'[t] # "created" <=> states[t] # "created"
  BY <1>2, <1>3, SchedAssumption DEF SchedAssumption, AllTasks
<1> QED BY <1>2, <1>3, <1>4, <1>5, <1>6 DEF CurrIsHead, Started

(* The head of the ready list is the task that runs, so task_set_block of  *)
(* the running task takes the head off.                                    *)
LEMMA BlockCurrent ==
  ASSUME SchedInv, curr_task # Idle
  PROVE  /\ curr_task \in Task
         /\ ready_list # <<>>
         /\ curr_task = Head(ready_list)
         /\ curr_task \in ToSet(ready_list)
         /\ task_set_block(ready_list, curr_task) = Tail(ready_list)
         /\ Tail(ready_list) \in Seq(Task)
         /\ ToSet(Tail(ready_list)) = ToSet(ready_list) \ {curr_task}
         /\ NoDuplicate(Tail(ready_list))
<1>1. /\ ready_list # <<>>
      /\ curr_task = Head(ready_list)
  BY DEF SchedInv, CurrIsHead, task_next_run
<1>2. /\ ready_list \in Seq(Task)
      /\ NoDuplicate(ready_list)
  BY DEF SchedInv, SchedTypeOK, ListsApart
<1>3. list_remove(ready_list, curr_task) = Tail(ready_list)
  BY <1>1, <1>2, RemoveOfHead
<1> QED BY <1>1, <1>2, <1>3, RemoveHead DEF task_set_block

(* Moving the running task to the tail changes nobody's membership. *)
LEMMA RotateCurrent ==
  ASSUME SchedInv, curr_task # Idle
  PROVE  LET r == task_set_ready(task_set_block(ready_list, curr_task), curr_task)
         IN  r \in Seq(Task) /\ ToSet(r) = ToSet(ready_list) /\ NoDuplicate(r)
<1> DEFINE rest == Tail(ready_list)
<1>1. task_set_ready(task_set_block(ready_list, curr_task), curr_task)
        = Append(rest, curr_task)
  BY BlockCurrent DEF task_set_ready
<1>2. /\ rest \in Seq(Task) /\ curr_task \in Task
      /\ curr_task \in ToSet(ready_list)
      /\ ToSet(rest) = ToSet(ready_list) \ {curr_task}
      /\ NoDuplicate(rest)
  BY BlockCurrent
<1> HIDE DEF rest
<1>3. /\ Append(rest, curr_task) \in Seq(Task)
      /\ ToSet(Append(rest, curr_task)) = ToSet(rest) \cup {curr_task}
      /\ NoDuplicate(Append(rest, curr_task))
  BY <1>2, InsertLast
<1> QED BY <1>1, <1>2, <1>3
------------------------------------------------------------------------------
(* What the handlers do to who is listed and who is started. *)
LEMMA StartStep ==
  ASSUME SchedInv, NEW t \in Task, task_start(t)
  PROVE  SchedInv' /\ Active' = Active \cup {t} /\ Started' = Started \cup {t}
<1>1. /\ ready_list' = Append(ready_list, t)
      /\ state' = [state EXCEPT ![t] = "ready"]
      /\ t # Idle /\ t \notin Started
      /\ UNCHANGED << sleep_list, curr_task, slice_ticks, sleep_ticks >>
  BY SchedAssumption DEF SchedAssumption, task_start, task_set_ready, Readied, Started
<1>2. t \notin ToSet(ready_list) /\ t \notin Sleeping
  BY <1>1 DEF SchedInv, ListsApart, Active
<1>3. /\ ready_list \in Seq(Task)
      /\ state \in [AllTasks -> TaskState]
      /\ NoDuplicate(ready_list)
  BY DEF SchedInv, SchedTypeOK, ListsApart
<1>4. /\ ready_list' \in Seq(Task)
      /\ ToSet(ready_list') = ToSet(ready_list) \cup {t}
      /\ NoDuplicate(ready_list')
  BY <1>1, <1>2, <1>3, InsertLast
<1>5. Started' = Started \cup {t}
  BY <1>1, <1>3 DEF Started, AllTasks
<1>6. SchedTypeOK'
  BY <1>1, <1>3, <1>4 DEF SchedInv, SchedTypeOK, AllTasks, TaskState
<1>7. Sleeping' = Sleeping /\ Active' = Active \cup {t}
  BY <1>1, <1>4 DEF Active, Sleeping
<1>8. ListsApart'
  BY <1>1, <1>2, <1>4, <1>5, <1>7 DEF SchedInv, ListsApart
<1>9. CurrIsHead'
  <2>1. ready_list # <<>> /\ curr_task = Head(ready_list)
    BY BlockCurrent DEF task_start
  <2>2. Head(ready_list') = Head(ready_list) /\ ready_list' # <<>>
    BY <1>1, <1>3, <2>1, AppendProperties, HeadTailProperties, LenProperties, EmptySeq
  <2> QED BY <1>1, <2>1, <2>2 DEF CurrIsHead, task_next_run
<1>10. SleepersCount'
  BY <1>1, <1>2, <1>3, <1>7 DEF SchedInv, SleepersCount, AllTasks, Sleeping, SchedTypeOK, Active, ListsApart
<1> QED BY <1>5, <1>6, <1>7, <1>8, <1>9, <1>10 DEF SchedInv

(* sys_yield moves the running task and starts, blocks or wakes nobody.    *)
LEMMA YieldStep ==
  ASSUME SchedInv, sys_yield
  PROVE  SchedInv' /\ Active' = Active /\ Started' = Started
<1> DEFINE r == task_set_ready(task_set_block(ready_list, curr_task), curr_task)
           states == Readied(state, curr_task)
<1>1. /\ curr_task # Idle
      /\ task_dispatch(r, states)
      /\ UNCHANGED << sleep_list, slice_ticks, sleep_ticks >>
  BY DEF sys_yield
<1>2. r \in Seq(Task) /\ ToSet(r) = ToSet(ready_list) /\ NoDuplicate(r)
  BY <1>1, RotateCurrent
<1>3. /\ curr_task \in ToSet(ready_list)
      /\ states = [state EXCEPT ![curr_task] = "ready"]
  BY <1>1, BlockCurrent DEF Readied
<1>4. /\ states \in [AllTasks -> TaskState]
      /\ \A t \in Task : t \notin ToSet(ready_list) => states[t] = state[t]
      /\ \A t \in Task : states[t] # "created" <=> t \in Started
  BY <1>3 DEF SchedInv, SchedTypeOK, ListsApart, Active, Started, AllTasks, TaskState
<1>5. \A t \in ToSet(r) : states[t] # "created"
  BY <1>2, <1>4 DEF SchedInv, ListsApart, Active, Started
<1>6. SchedTypeOK
  BY DEF SchedInv
<1>7. /\ ready_list' = r
      /\ curr_task' \in AllTasks
      /\ state' \in [AllTasks -> TaskState]
      /\ CurrIsHead'
      /\ \A t \in Task : t \notin ToSet(r) => state'[t] = states[t]
      /\ Started' = { t \in Task : states[t] # "created" }
  <2> HIDE DEF r, states
  <2> QED BY <1>1, <1>2, <1>4, <1>5, <1>6, Dispatch
<1> HIDE DEF r, states
<1>8. Started' = Started /\ Sleeping' = Sleeping /\ Active' = Active
  BY <1>1, <1>2, <1>4, <1>7 DEF Sleeping, Active, Started
<1>9. SchedTypeOK' /\ ListsApart'
  BY <1>1, <1>2, <1>7, <1>8 DEF SchedInv, SchedTypeOK, ListsApart
<1>10. SleepersCount'
  <2>1. \A t \in Sleeping : t \in Task /\ t \notin ToSet(ready_list)
    BY DEF SchedInv, ListsApart, Active, Started
  <2> QED BY <1>1, <1>2, <1>4, <1>7, <1>8, <2>1 DEF SchedInv, SleepersCount
<1> QED BY <1>7, <1>8, <1>9, <1>10 DEF SchedInv
(* The conversion of msleep never wraps, and never yields zero ticks: a    *)
(* positive int is at most half a word, and the rounding adds less than a  *)
(* tick to it.                                                             *)
LEMMA TicksPositive ==
  ASSUME NEW ms \in Ms, ms > 0
  PROVE  MsToTicks(ms % Word) \in 1..(Word - 1)
<1> DEFINE atLeast == IF ms < TickMs THEN TickMs ELSE ms
           sum == atLeast + (TickMs - 1)
<1>1. /\ ms \in Int /\ 2 * ms < Word
      /\ Word \in Nat /\ TickMs \in Nat \ {0} /\ 2 * TickMs <= Word
  BY SchedAssumption DEF SchedAssumption
<1>2. ms % Word = ms
  BY <1>1
<1>3. /\ sum \in Nat
      /\ TickMs <= sum
      /\ sum < Word
  BY <1>1
<1>4. sum % Word = sum
  BY <1>1, <1>3
<1>5. MsToTicks(ms % Word) = sum \div TickMs
  BY <1>2, <1>4 DEF MsToTicks
<1> HIDE DEF sum
<1>6. sum \div TickMs \in 1..sum
  <2> DEFINE q == sum \div TickMs
             r == sum % TickMs
  <2>1. /\ q \in Int /\ r \in 0..(TickMs - 1)
        /\ sum = TickMs * q + r
    BY <1>1, <1>3
  <2> HIDE DEF q, r
  <2>2. q >= 1
    <3>1. CASE q <= 0
      <4>1. TickMs * q <= 0
        BY <1>1, <2>1, <3>1
      <4> QED BY <1>1, <1>3, <2>1, <4>1
    <3> QED BY <2>1, <3>1
  <2>3. q <= sum
    <3>1. TickMs * q >= q
      BY <1>1, <2>1, <2>2
    <3> QED BY <1>1, <1>3, <2>1, <3>1
  <2> QED BY <1>3, <2>1, <2>2, <2>3 DEF q
<1> QED BY <1>1, <1>3, <1>5, <1>6

(* msleep moves the running task from the ready list to the sleep list.    *)
LEMMA MSleepStep ==
  ASSUME SchedInv, NEW ms \in Ms, msleep(ms)
  PROVE  SchedInv' /\ Active' = Active /\ Started' = Started
<1> DEFINE rest == Tail(ready_list)
           ticks == MsToTicks(ms % Word)
           states == [state EXCEPT ![curr_task] = "sleep"]
<1>1. ticks \in 1..(Word - 1)
  BY TicksPositive DEF msleep
<1> HIDE DEF ticks
<1>2. curr_task # Idle
  BY DEF msleep, sys_msleep
<1>3. /\ curr_task \in Task
      /\ curr_task \in ToSet(ready_list)
      /\ task_set_block(ready_list, curr_task) = rest
      /\ rest \in Seq(Task)
      /\ ToSet(rest) = ToSet(ready_list) \ {curr_task}
      /\ NoDuplicate(rest)
  BY <1>2, BlockCurrent
<1>4. /\ sleep_list' = Append(sleep_list, curr_task)
      /\ sleep_ticks' = [sleep_ticks EXCEPT ![curr_task] = ticks]
      /\ task_dispatch(rest, states)
      /\ UNCHANGED slice_ticks
  BY <1>1, <1>2, <1>3 DEF msleep, sys_msleep, ticks
<1> HIDE DEF rest
<1>5. /\ sleep_list \in Seq(Task)
      /\ sleep_ticks \in [AllTasks -> 0..(Word - 1)]
      /\ state \in [AllTasks -> TaskState]
      /\ NoDuplicate(sleep_list)
      /\ curr_task \notin Sleeping
      /\ SchedTypeOK
  BY <1>3 DEF SchedInv, SchedTypeOK, ListsApart
<1>6. /\ sleep_list' \in Seq(Task)
      /\ Sleeping' = Sleeping \cup {curr_task}
      /\ NoDuplicate(sleep_list')
  BY <1>3, <1>4, <1>5, InsertLast DEF Sleeping
<1>7. /\ states \in [AllTasks -> TaskState]
      /\ \A t \in Task : t # curr_task => states[t] = state[t]
      /\ states[curr_task] = "sleep"
      /\ curr_task \in Started
  BY <1>3, <1>5 DEF TaskState, AllTasks, SchedInv, ListsApart, Active
<1>8. \A t \in ToSet(rest) : t \in Started /\ states[t] # "created"
  BY <1>3, <1>7 DEF SchedInv, ListsApart, Active, Started
<1>9. /\ ready_list' = rest
      /\ curr_task' \in AllTasks
      /\ state' \in [AllTasks -> TaskState]
      /\ CurrIsHead'
      /\ \A t \in Task : t \notin ToSet(rest) => state'[t] = states[t]
      /\ Started' = { t \in Task : states[t] # "created" }
  <2> HIDE DEF states
  <2> QED BY <1>3, <1>4, <1>5, <1>7, <1>8, Dispatch
<1> HIDE DEF states
<1>10. Started' = Started
  BY <1>3, <1>7, <1>9 DEF Started
<1>11. Active' = Active
  BY <1>3, <1>6, <1>9 DEF Active
<1>12. SchedTypeOK'
  BY <1>1, <1>3, <1>4, <1>5, <1>6, <1>9 DEF SchedTypeOK, AllTasks
<1>13. ListsApart'
  BY <1>3, <1>5, <1>6, <1>9, <1>10, <1>11 DEF SchedInv, ListsApart
<1>14. SleepersCount'
  <2> SUFFICES ASSUME NEW t \in Sleeping'
               PROVE  sleep_ticks'[t] > 0 /\ state'[t] = "sleep"
    BY DEF SleepersCount
  <2>1. t \in Task /\ t \notin ToSet(rest)
    BY <1>3, <1>6 DEF SchedInv, ListsApart, Active, Started
  <2>2. state'[t] = states[t]
    BY <1>9, <2>1
  <2>3. CASE t = curr_task
    BY <1>1, <1>3, <1>4, <1>5, <1>7, <2>2, <2>3 DEF AllTasks
  <2>4. CASE t # curr_task
    BY <1>4, <1>5, <1>6, <1>7, <2>1, <2>2, <2>4 DEF SchedInv, SleepersCount, AllTasks
  <2> QED BY <2>3, <2>4
<1> QED BY <1>9, <1>10, <1>11, <1>12, <1>13, <1>14 DEF SchedInv
(* The clock interrupt. *)
LEMMA TickStep ==
  ASSUME SchedInv, task_time_tick
  PROVE  SchedInv' /\ Active' = Active /\ Started' = Started
<1> DEFINE sliceEnds == slice_ticks[curr_task] = 1
           rotated == IF sliceEnds
                      THEN task_set_ready(task_set_block(ready_list, curr_task), curr_task)
                      ELSE ready_list
           ran == IF sliceEnds THEN Readied(state, curr_task) ELSE state
           states == [t \in AllTasks |-> IF t \in Due THEN "ready" ELSE ran[t]]
<1>1. PICK woken \in InOrder(sleep_list, Due),
           asleep \in InOrder(sleep_list, Sleeping \ Due) :
        /\ slice_ticks' = [slice_ticks EXCEPT
                             ![curr_task] = IF sliceEnds THEN TimeSlice ELSE @ - 1]
        /\ sleep_list' = asleep
        /\ sleep_ticks' = [t \in AllTasks |->
                             IF t \in Sleeping THEN Decremented(sleep_ticks[t])
                                               ELSE sleep_ticks[t]]
        /\ task_dispatch(rotated \o woken, states)
  BY DEF task_time_tick
<1>2. /\ SchedTypeOK
      /\ ready_list \in Seq(Task) /\ sleep_list \in Seq(Task)
      /\ curr_task \in AllTasks
      /\ state \in [AllTasks -> TaskState]
      /\ slice_ticks \in [AllTasks -> 1..TimeSlice]
      /\ sleep_ticks \in [AllTasks -> 0..(Word - 1)]
  BY DEF SchedInv, SchedTypeOK
<1>3. Due \subseteq Sleeping /\ Sleeping = ToSet(sleep_list)
  BY DEF Due, Sleeping
<1>4. /\ woken \in Seq(Task) /\ ToSet(woken) = Due /\ NoDuplicate(woken)
      /\ asleep \in Seq(Task) /\ ToSet(asleep) = Sleeping \ Due /\ NoDuplicate(asleep)
  BY <1>2, <1>3, Scanned
<1>5. rotated \in Seq(Task) /\ ToSet(rotated) = ToSet(ready_list) /\ NoDuplicate(rotated)
  <2>1. CASE sliceEnds /\ curr_task # Idle
    BY <2>1, RotateCurrent
  <2>2. CASE ~ (sliceEnds /\ curr_task # Idle)
    BY <1>2, <2>2 DEF task_set_ready, task_set_block, SchedInv, ListsApart
  <2> QED BY <2>1, <2>2
<1>6. /\ ran \in [AllTasks -> TaskState]
      /\ \A t \in Task : ran[t] # "created" <=> t \in Started
      /\ \A t \in Task : t \notin ToSet(ready_list) => ran[t] = state[t]
  <2>1. CASE sliceEnds /\ curr_task # Idle
    <3>1. ran = [state EXCEPT ![curr_task] = "ready"]
      BY <2>1 DEF Readied
    <3>2. curr_task \in Task /\ curr_task \in ToSet(ready_list) /\ curr_task \in Started
      BY <2>1, BlockCurrent DEF SchedInv, ListsApart, Active
    <3> QED BY <1>2, <3>1, <3>2 DEF Started, AllTasks, TaskState
  <2>2. CASE ~ (sliceEnds /\ curr_task # Idle)
    <3>1. ran = state
      BY <2>2 DEF Readied
    <3> QED BY <1>2, <3>1 DEF Started
  <2> QED BY <2>1, <2>2
<1> HIDE DEF rotated, ran
<1>7. /\ states \in [AllTasks -> TaskState]
      /\ \A t \in Task : states[t] # "created" <=> t \in Started
      /\ \A t \in Task : t \notin ToSet(ready_list) /\ t \notin Due => states[t] = state[t]
  BY <1>3, <1>6 DEF AllTasks, TaskState, SchedInv, ListsApart, Active
<1>8. /\ rotated \o woken \in Seq(Task)
      /\ ToSet(rotated \o woken) = ToSet(ready_list) \cup Due
      /\ NoDuplicate(rotated \o woken)
  BY <1>3, <1>4, <1>5, Joined DEF SchedInv, ListsApart
<1>9. \A t \in ToSet(rotated \o woken) : states[t] # "created"
  BY <1>3, <1>7, <1>8 DEF SchedInv, ListsApart, Active, Started
<1>10. /\ ready_list' = rotated \o woken
       /\ curr_task' \in AllTasks
       /\ state' \in [AllTasks -> TaskState]
       /\ CurrIsHead'
       /\ \A t \in Task : t \notin ToSet(rotated \o woken) => state'[t] = states[t]
       /\ Started' = { t \in Task : states[t] # "created" }
  <2> HIDE DEF states
  <2> QED BY <1>1, <1>2, <1>7, <1>8, <1>9, Dispatch
<1> HIDE DEF states
<1>11. Started' = Started
  BY <1>7, <1>10 DEF Started
<1>12. Sleeping' = Sleeping \ Due /\ ToSet(ready_list') = ToSet(ready_list) \cup Due
  BY <1>1, <1>4, <1>8, <1>10 DEF Sleeping
<1>13. Active' = Active
  BY <1>3, <1>12 DEF Active
<1>14. SchedTypeOK'
  <2>1. slice_ticks' \in [AllTasks -> 1..TimeSlice]
    BY <1>1, <1>2, SchedAssumption DEF SchedAssumption
  <2>2. sleep_ticks' \in [AllTasks -> 0..(Word - 1)]
    <3>1. \A t \in Sleeping : t \in AllTasks /\ sleep_ticks[t] > 0
      BY DEF SchedInv, SleepersCount, ListsApart, Active, Started, AllTasks
    <3> QED BY <1>1, <1>2, <3>1, SchedAssumption DEF SchedAssumption, Decremented
  <2> QED BY <1>1, <1>4, <1>8, <1>10, <2>1, <2>2 DEF SchedTypeOK
<1>15. ListsApart'
  BY <1>1, <1>3, <1>4, <1>8, <1>10, <1>11, <1>12, <1>13 DEF SchedInv, ListsApart
<1>16. SleepersCount'
  <2> SUFFICES ASSUME NEW t \in Sleeping'
               PROVE  sleep_ticks'[t] > 0 /\ state'[t] = "sleep"
    BY DEF SleepersCount
  <2>1. /\ t \in Sleeping /\ t \notin Due /\ t \notin ToSet(ready_list)
        /\ t \in Task /\ t \in AllTasks
    BY <1>12 DEF SchedInv, ListsApart, Active, Started, AllTasks
  <2>2. sleep_ticks[t] > 0 /\ sleep_ticks[t] # 1 /\ state[t] = "sleep"
    BY <2>1 DEF Due, SchedInv, SleepersCount
  <2>3. sleep_ticks'[t] = sleep_ticks[t] - 1 /\ sleep_ticks[t] \in Nat
    BY <1>1, <1>2, <2>1, <2>2, SchedAssumption DEF SchedAssumption, Decremented
  <2>4. state'[t] = state[t]
    BY <1>7, <1>8, <1>10, <2>1
  <2> QED BY <2>2, <2>3, <2>4
<1> QED BY <1>10, <1>11, <1>13, <1>14, <1>15, <1>16 DEF SchedInv
------------------------------------------------------------------------------
(* The scheduler alone: nobody is parked, so every started task is listed. *)
Core == SchedInv /\ Active = Started

(* The invariant holds after task_manager_init and task_first_init.        *)
LEMMA CoreInit == SchedInit => Core
<1> SUFFICES ASSUME SchedInit PROVE Core
  OBVIOUS
<1>1. /\ First \in Task /\ First # Idle /\ TimeSlice \in Nat \ {0} /\ Word \in Nat \ {0}
  BY SchedAssumption DEF SchedAssumption
<1>2. /\ ready_list = <<First>> /\ sleep_list = <<>>
      /\ ready_list \in Seq(Task) /\ sleep_list \in Seq(Task)
      /\ ToSet(ready_list) = {First} /\ Sleeping = {}
      /\ NoDuplicate(ready_list) /\ NoDuplicate(sleep_list)
      /\ ready_list # <<>> /\ Head(ready_list) = First
  BY <1>1 DEF SchedInit, Sleeping, ToSet, NoDuplicate
<1>3. SchedTypeOK
  BY <1>1, <1>2 DEF SchedInit, SchedTypeOK, AllTasks, TaskState
<1>4. Active = {First} /\ Started = {First}
  BY <1>1, <1>2 DEF SchedInit, Active, Started, AllTasks
<1>5. CurrIsHead /\ SleepersCount
  BY <1>2 DEF SchedInit, CurrIsHead, task_next_run, SleepersCount
<1> QED BY <1>2, <1>3, <1>4, <1>5 DEF Core, SchedInv, ListsApart

(* Every handler of the scheduler keeps it.                                *)
LEMMA CoreStep == Core /\ [SchedNext]_schedVars => Core'
<1> SUFFICES ASSUME Core, [SchedNext]_schedVars PROVE Core'
  OBVIOUS
<1> USE DEF Core
<1>1. CASE task_time_tick
  BY <1>1, TickStep
<1>2. ASSUME NEW t \in Task, task_start(t) PROVE Core'
  BY <1>2, StartStep
<1>3. ASSUME NEW ms \in Ms, msleep(ms) PROVE Core'
  BY <1>3, MSleepStep
<1>4. CASE sys_yield
  BY <1>4, YieldStep
<1>5. CASE UNCHANGED schedVars
  BY <1>5 DEF schedVars, SchedInv, SchedTypeOK, ListsApart, CurrIsHead, SleepersCount,
              Active, Started, Sleeping
<1> QED BY <1>1, <1>2, <1>3, <1>4, <1>5 DEF SchedNext

(* The inductive invariant of the scheduler: the types, the two lists apart *)
(* and complete, the head running, the sleepers counting.                  *)
THEOREM SchedInvariant == SchedSpec => []Core
<1> QED BY CoreInit, CoreStep, PTL DEF SchedSpec
------------------------------------------------------------------------------
(* Round robin: the three things a handler does to the ready list keep the *)
(* order of the tasks that wait in it.                                     *)
LEMMA AppendKeepsOrder ==
  ASSUME NEW S, NEW list \in Seq(S), NEW t \in S, NEW running
  PROVE  KeepsOrder(list, Append(list, t), running)
<1> DEFINE new == Append(list, t)
<1>1. /\ Len(list) \in Nat /\ DOMAIN list = 1..Len(list)
      /\ DOMAIN new = 1..(Len(list) + 1)
      /\ \A i \in 1..Len(list) : new[i] = list[i]
      /\ new[Len(list) + 1] = t
  BY AppendProperties, LenProperties
<1> HIDE DEF new
<1>2. ASSUME NEW a, NEW b, Before(list, a, b) PROVE Before(new, a, b)
  BY <1>1, <1>2 DEF Before
<1>3. ASSUME NEW a \in ToSet(list), NEW b \in ToSet(new) \ ToSet(list)
      PROVE  Before(new, a, b)
  <2>1. b = new[Len(list) + 1]
    BY <1>1, <1>3 DEF ToSet
  <2>2. PICK i \in 1..Len(list) : list[i] = a
    BY <1>1 DEF ToSet
  <2>3. i < Len(list) + 1 /\ new[i] = a
    BY <1>1, <2>2
  <2> QED BY <1>1, <2>1, <2>3 DEF Before
<1> QED BY <1>2, <1>3 DEF KeepsOrder, new

(* Taking the running head off the list keeps the order of the rest.       *)
LEMMA TailKeepsOrder ==
  ASSUME NEW S, NEW list \in Seq(S), list # <<>>, NoDuplicate(list)
  PROVE  KeepsOrder(list, Tail(list), Head(list))
<1> DEFINE new == Tail(list)
<1>1. /\ Len(list) \in Nat \ {0} /\ DOMAIN list = 1..Len(list)
      /\ DOMAIN new = 1..(Len(list) - 1)
      /\ \A i \in 1..(Len(list) - 1) : new[i] = list[i + 1]
      /\ Head(list) = list[1]
  BY HeadTailProperties, LenProperties, EmptySeq
<1>2. ToSet(new) \subseteq ToSet(list)
  BY RemoveHead
<1> HIDE DEF new
<1>3. ASSUME NEW a, a # Head(list), NEW b, Before(list, a, b) PROVE Before(new, a, b)
  <2>1. PICK i \in 1..Len(list), j \in 1..Len(list) :
               i < j /\ list[i] = a /\ list[j] = b
    BY <1>1, <1>3 DEF Before
  <2>2. /\ i - 1 \in DOMAIN new /\ j - 1 \in DOMAIN new
        /\ i - 1 < j - 1 /\ new[i - 1] = a /\ new[j - 1] = b
    BY <1>1, <1>3, <2>1
  <2> QED BY <2>2 DEF Before
<1> QED BY <1>2, <1>3 DEF KeepsOrder, new

(* Putting other tasks behind the list keeps the order of those in it.     *)
LEMMA JoinKeepsOrder ==
  ASSUME NEW S, NEW a \in Seq(S), NEW b \in Seq(S), NEW running
  PROVE  KeepsOrder(a, a \o b, running)
<1> DEFINE new == a \o b
<1>1. /\ Len(a) \in Nat /\ DOMAIN a = 1..Len(a)
      /\ Len(b) \in Nat /\ DOMAIN b = 1..Len(b)
      /\ DOMAIN new = 1..(Len(a) + Len(b))
      /\ \A i \in 1..(Len(a) + Len(b)) : new[i] = IF i <= Len(a) THEN a[i] ELSE b[i - Len(a)]
  BY ConcatProperties, LenProperties
<1> HIDE DEF new
<1>2. ASSUME NEW x, NEW y, Before(a, x, y) PROVE Before(new, x, y)
  BY <1>1, <1>2 DEF Before
<1>3. ASSUME NEW x \in ToSet(a), NEW y \in ToSet(new) \ ToSet(a) PROVE Before(new, x, y)
  <2>1. PICK i \in 1..Len(a) : a[i] = x
    BY <1>1 DEF ToSet
  <2>2. PICK j \in 1..(Len(a) + Len(b)) : new[j] = y
    BY <1>1 DEF ToSet
  <2>3. j > Len(a)
    <3>1. CASE j <= Len(a)
      <4>1. new[j] = a[j] /\ j \in DOMAIN a
        BY <1>1, <2>2, <3>1
      <4> QED BY <1>3, <2>2, <4>1 DEF ToSet
    <3> QED BY <1>1, <2>2, <3>1
  <2>4. i < j /\ i \in DOMAIN new /\ j \in DOMAIN new /\ new[i] = x
    BY <1>1, <2>1, <2>2, <2>3
  <2> QED BY <2>2, <2>4 DEF Before
<1> QED BY <1>2, <1>3 DEF KeepsOrder, new

(* Moving the running head to the tail keeps the order of the rest.        *)
LEMMA RotateKeepsOrder ==
  ASSUME NEW S, NEW list \in Seq(S), list # <<>>, NoDuplicate(list)
  PROVE  KeepsOrder(list, Append(Tail(list), Head(list)), Head(list))
<1> DEFINE rest == Tail(list)
           new == Append(rest, Head(list))
<1>1. /\ Len(list) \in Nat \ {0} /\ DOMAIN list = 1..Len(list)
      /\ Len(rest) = Len(list) - 1 /\ rest \in Seq(S)
      /\ \A i \in 1..(Len(list) - 1) : rest[i] = list[i + 1]
      /\ Head(list) = list[1] /\ Head(list) \in S
  BY HeadTailProperties, LenProperties, EmptySeq
<1>2. /\ DOMAIN new = 1..Len(list)
      /\ \A i \in 1..(Len(list) - 1) : new[i] = rest[i]
  BY <1>1, AppendProperties
<1>3. ToSet(new) = ToSet(list)
  <2>1. ToSet(rest) = ToSet(list) \ {Head(list)} /\ Head(list) \in ToSet(list)
    BY RemoveHead
  <2> HIDE DEF rest
  <2>2. ToSet(new) = ToSet(rest) \cup {Head(list)}
    BY <1>1, InsertLast
  <2> QED BY <2>1, <2>2
<1> HIDE DEF new, rest
<1>4. ASSUME NEW a, a # Head(list), NEW b, Before(list, a, b) PROVE Before(new, a, b)
  <2>1. PICK i \in 1..Len(list), j \in 1..Len(list) :
               i < j /\ list[i] = a /\ list[j] = b
    BY <1>1, <1>4 DEF Before
  <2>2. i - 1 \in 1..(Len(list) - 1) /\ j - 1 \in 1..(Len(list) - 1) /\ i - 1 < j - 1
    BY <1>1, <1>4, <2>1
  <2>3. new[i - 1] = a /\ new[j - 1] = b
    BY <1>1, <1>2, <2>1, <2>2
  <2>4. i - 1 \in DOMAIN new /\ j - 1 \in DOMAIN new
    BY <1>1, <1>2, <2>2
  <2> QED BY <2>2, <2>3, <2>4 DEF Before
<1> QED BY <1>3, <1>4 DEF KeepsOrder, new, rest

(* So does leaving the list alone.                                         *)
LEMMA UnchangedKeepsOrder ==
  ASSUME NEW list, NEW running
  PROVE  KeepsOrder(list, list, running)
BY DEF KeepsOrder

(* Two changes one after the other, when the first one only reorders.      *)
LEMMA OrderComposes ==
  ASSUME NEW old, NEW mid, NEW new, NEW running,
         KeepsOrder(old, mid, running), KeepsOrder(mid, new, running),
         ToSet(mid) = ToSet(old), ToSet(old) \subseteq ToSet(new)
  PROVE  KeepsOrder(old, new, running)
<1>1. \A t, u : Before(old, t, u) => t \in ToSet(old) /\ u \in ToSet(old)
  BY DEF Before, ToSet
<1>2. ASSUME NEW t \in ToSet(new) \ {running}, NEW u \in ToSet(new), Before(old, t, u)
      PROVE  Before(new, t, u)
  BY <1>1, <1>2 DEF KeepsOrder
<1> QED BY <1>2 DEF KeepsOrder

(* Every handler keeps the order of those that wait in the ready list.     *)
LEMMA SchedNextKeepsOrder ==
  ASSUME SchedInv, [SchedNext]_schedVars
  PROVE  KeepsOrder(ready_list, ready_list', curr_task)
<1>1. ready_list \in Seq(Task) /\ NoDuplicate(ready_list)
  BY DEF SchedInv, SchedTypeOK, ListsApart
<1>2. ASSUME NEW t \in Task, task_start(t) PROVE KeepsOrder(ready_list, ready_list', curr_task)
  <2>1. ready_list' = Append(ready_list, t)
    BY <1>2, SchedAssumption DEF task_start, task_set_ready, SchedAssumption
  <2> QED BY <1>1, <2>1, AppendKeepsOrder
<1>3. ASSUME NEW ms \in Ms, msleep(ms) PROVE KeepsOrder(ready_list, ready_list', curr_task)
  <2>1. curr_task # Idle /\ ready_list' = task_set_block(ready_list, curr_task)
    BY <1>3 DEF msleep, sys_msleep, task_dispatch
  <2>2. /\ ready_list' = Tail(ready_list)
        /\ ready_list # <<>> /\ curr_task = Head(ready_list)
    BY <2>1, BlockCurrent
  <2> QED BY <1>1, <2>2, TailKeepsOrder
<1> DEFINE rotated == task_set_ready(task_set_block(ready_list, curr_task), curr_task)
<1>4. ASSUME curr_task # Idle
      PROVE  KeepsOrder(ready_list, rotated, curr_task) /\ ToSet(rotated) = ToSet(ready_list)
  <2>1. /\ rotated = Append(Tail(ready_list), curr_task)
        /\ ready_list # <<>> /\ curr_task = Head(ready_list)
    BY <1>4, BlockCurrent DEF task_set_ready
  <2>2. KeepsOrder(ready_list, rotated, curr_task)
    BY <1>1, <2>1, RotateKeepsOrder
  <2> QED BY <1>4, <2>2, RotateCurrent
<1>5. CASE sys_yield
  BY <1>4, <1>5 DEF sys_yield, task_dispatch
<1>6. CASE task_time_tick
  <2> DEFINE mid == IF slice_ticks[curr_task] = 1 THEN rotated ELSE ready_list
  <2>1. PICK woken \in InOrder(sleep_list, Due) : ready_list' = mid \o woken
    BY <1>6 DEF task_time_tick, task_dispatch
  <2>2. woken \in Seq(Task)
    BY Scanned DEF Due, Sleeping, SchedInv, SchedTypeOK
  <2>3. mid \in Seq(Task) /\ ToSet(mid) = ToSet(ready_list)
        /\ KeepsOrder(ready_list, mid, curr_task)
    <3>1. CASE slice_ticks[curr_task] = 1 /\ curr_task # Idle
      BY <1>4, <3>1, RotateCurrent
    <3>2. CASE ~ (slice_ticks[curr_task] = 1 /\ curr_task # Idle)
      <4>1. mid = ready_list
        BY <3>2 DEF task_set_ready, task_set_block
      <4> QED BY <1>1, <4>1, UnchangedKeepsOrder
    <3> QED BY <3>1, <3>2
  <2> HIDE DEF mid
  <2>4. KeepsOrder(mid, mid \o woken, curr_task) /\ ToSet(mid) \subseteq ToSet(mid \o woken)
    BY <2>2, <2>3, JoinKeepsOrder, Joined
  <2> QED BY <2>1, <2>3, <2>4, OrderComposes
<1>7. CASE UNCHANGED schedVars
  BY <1>7, UnchangedKeepsOrder DEF schedVars
<1> QED BY <1>2, <1>3, <1>5, <1>6, <1>7 DEF SchedNext
------------------------------------------------------------------------------
(* No started task is ever in two lists, or in none. *)
THEOREM NobodyLost == SchedSpec => []OnePlace
<1>1. Core => OnePlace
  BY DEF Core, SchedInv, OnePlace, OnePlaceOr
<1> QED BY <1>1, SchedInvariant, PTL

(* The CPU is always the head's: no handler forgets task_dispatch.         *)
THEOREM HeadRuns == SchedSpec => []CurrIsHead
<1>1. Core => CurrIsHead
  BY DEF Core, SchedInv
<1> QED BY <1>1, SchedInvariant, PTL

(* The lists hold tasks, the slices and ticks stay in their ranges.        *)
THEOREM SchedTypes == SchedSpec => []SchedTypeOK
<1>1. Core => SchedTypeOK
  BY DEF Core, SchedInv
<1> QED BY <1>1, SchedInvariant, PTL

(* The clock never decrements a sleeper's counter below 0: whatever is     *)
(* given to msleep, a task in the sleep list has ticks left.               *)
THEOREM NoCounterWraps == SchedSpec => []SleepersCount
<1>1. Core => SleepersCount
  BY DEF Core, SchedInv
<1> QED BY <1>1, SchedInvariant, PTL

(* Nobody is overtaken in the ready list. *)
THEOREM RoundRobin == SchedSpec => NoOvertaking
<1>1. Core /\ [SchedNext]_schedVars => [KeepsOrder(ready_list, ready_list', curr_task)]_schedVars
  BY SchedNextKeepsOrder DEF Core
<1> QED BY <1>1, SchedInvariant, PTL DEF SchedSpec, NoOvertaking
==============================================================================
