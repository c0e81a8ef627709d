--------------------------------- MODULE Tty ---------------------------------
(***************************************************************************)
(* A terminal (kernel/dev/tty.c, and console_write of kernel/dev/console.c)*)
(* with processes that read and write it and the keyboard interrupt.  The  *)
(* processes are preempted anywhere, so each step below is one access to   *)
(* what they share; tty_in runs in the interrupt, and is one step.  The    *)
(* semaphores and the console's mutex are those of Blocking, which is what *)
(* Ipc is shown to implement.  As in Sched, a definition named Slip_ is a  *)
(* plausible error in the one it precedes.                                 *)
(***************************************************************************)
EXTENDS Integers, Sequences, FiniteSets

CONSTANTS
  Reader, Writer,  \* the processes that are in sys_read, in sys_write
  IBufSize,        \* TTY_IBUF_SIZE
  OBufSize,        \* TTY_OBUF_SIZE
  Typed,           \* bound: the characters that can be typed, in a sequence of
  MaxKeys,         \* bound: so many keystrokes
  Texts,           \* the strings given to sys_write
  Sizes,           \* the sizes given to sys_read
  Nobody           \* the null pointer

Task    == Reader \cup Writer
ISem    == "isem"
OSem    == "osem"
Console == "console"

(***************************************************************************)
(* A process that writes a line break holds one place of the buffer while  *)
(* it waits for a second, so there have to be more places than processes:  *)
(* TASK_NR is 128 and the buffers have 512.                                *)
(***************************************************************************)
ASSUME TtyAssumption ==
  /\ Reader \cap Writer = {}
  /\ Nobody \notin Task
  /\ IBufSize \in Nat \ {0}
  /\ OBufSize \in Nat
  /\ IsFiniteSet(Task) /\ Cardinality(Task) < OBufSize
  /\ MaxKeys \in Nat
  /\ Sizes \subseteq Nat \ {0}
  /\ Texts \subseteq Seq(STRING)

VARIABLES
  holder, lockQueue,  \* console_t.mutex
  permits, semQueue,  \* tty_t.isem and tty_t.osem
  ififo, ofifo,       \* the rings of characters typed, and to be shown
  keys,               \* the keystrokes so far
  pc,                 \* where each process is in its call; "user" outside
  text,               \* what is left of tty_write's argument
  char,               \* tty_read's ch
  len, size           \* tty_read's len and size

kernelVars == << holder, lockQueue, permits, semQueue >>
readVars   == << char, len, size >>
vars       == << kernelVars, ififo, ofifo, keys, pc, text, readVars >>

Kernel == INSTANCE Blocking WITH
  NoTask <- Nobody, Mutex <- {Console}, Sem <- {ISem, OSem},
  Permits <- [s \in {ISem, OSem} |-> IF s = ISem THEN 0 ELSE OBufSize]

------------------------------------------------------------------------------
(***************************************************************************)
(* The ring.  tty_fifo_put and tty_fifo_get look at the count first, and   *)
(* only then switch interrupts off: the look and the access are two steps. *)
(***************************************************************************)
EmptyRing(n) == [buf |-> [i \in 0..(n - 1) |-> <<>>], read |-> 0, write |-> 0, count |-> 0]

Places(ring) == Cardinality(DOMAIN ring.buf)

Slip_PastTheEnd(ring, at) == IF at + 1 > Places(ring) THEN 0 ELSE at + 1
Slip_TooShort(ring, at)   == IF at + 1 >= Places(ring) - 1 THEN 0 ELSE at + 1

Advance(ring, at) == IF at + 1 >= Places(ring) THEN 0 ELSE at + 1

IsFull(ring)  == ring.count >= Places(ring)
IsEmpty(ring) == ring.count <= 0

tty_fifo_put(ring, c) ==
  [ring EXCEPT !.buf[ring.write] = c, !.write = Advance(ring, @), !.count = @ + 1]

Oldest(ring) == ring.buf[ring.read]

(* The place it was in is as good as empty.                                *)
tty_fifo_get(ring) ==
  [ring EXCEPT !.buf[ring.read] = <<>>, !.read = Advance(ring, @), !.count = @ - 1]

(* What a ring holds, the oldest first: from read on, round the end.       *)
Content(ring) ==
  LET n == Places(ring)
      place(k) == IF k < n THEN k ELSE k - n
  IN  [i \in 1..ring.count |-> ring.buf[place(ring.read + i - 1)]]

(* tty_open *)
Init ==
  /\ Kernel!Init
  /\ ififo = EmptyRing(IBufSize)
  /\ ofifo = EmptyRing(OBufSize)
  /\ keys  = 0
  /\ pc    = [t \in Task |-> "user"]
  /\ text  = [t \in Task |-> <<>>]
  /\ char  = [t \in Task |-> "none"]
  /\ len   = [t \in Task |-> 0]
  /\ size  = [t \in Task |-> 0]

(* A process that is not blocked is at one place of its call and goes on.  *)
Goes(t, from, to) ==
  /\ Kernel!Awake(t)
  /\ pc[t] = from
  /\ pc' = [pc EXCEPT ![t] = to]

(* Having waited for a permit or for the lock, it goes on with it in hand. *)
sem_wait(t, s)     == Kernel!TakePermit(s) \/ Kernel!QueueForPermit(t, s)
sem_notify(s)      == Kernel!GivePermit(s)
mutex_lock(t, m)   == Kernel!Acquire(t, m) \/ Kernel!QueueForLock(t, m)
mutex_unlock(t, m) == Kernel!Release(t, m) \/ Kernel!HandOver(t, m)

------------------------------------------------------------------------------
(***************************************************************************)
(* tty_write: for every character, and for a \r before each \n, a permit,  *)
(* and then the ring; then the console is asked to show the ring.  It is   *)
(* also how tty_read echoes, and returns to its caller.                    *)
(***************************************************************************)
Returns(t) == IF t \in Reader THEN "r_echoed" ELSE "user"

write(t) ==
  /\ t \in Writer
  /\ Goes(t, "user", "w_next")
  /\ \E s \in Texts : text' = [text EXCEPT ![t] = s]
  /\ UNCHANGED << kernelVars, ififo, ofifo, keys, readVars >>

tty_write_wait(t) ==
  /\ \/ text[t] # <<>> /\ Head(text[t]) = "lf" /\ Goes(t, "w_next", "w_cr_look")
     \/ text[t] # <<>> /\ Head(text[t]) # "lf" /\ Goes(t, "w_next", "w_look")
     \/ Goes(t, "w_lf", "w_look")
  /\ sem_wait(t, OSem)
  /\ UNCHANGED << ififo, ofifo, keys, text, readVars >>

(* A full ring ends the call: the text that is left is dropped.            *)
tty_write_look(t) ==
  /\ \/ Goes(t, "w_cr_look", IF IsFull(ofifo) THEN Returns(t) ELSE "w_cr_put")
     \/ Goes(t, "w_look",    IF IsFull(ofifo) THEN Returns(t) ELSE "w_put")
  /\ UNCHANGED << kernelVars, ififo, ofifo, keys, text, readVars >>

tty_write_put(t) ==
  /\ \/ /\ Goes(t, "w_cr_put", "w_lf")
        /\ ofifo' = tty_fifo_put(ofifo, << t, "cr" >>)
        /\ UNCHANGED text
     \/ /\ Goes(t, "w_put", "c_lock")
        /\ ofifo' = tty_fifo_put(ofifo, << t, Head(text[t]) >>)
        /\ text' = [text EXCEPT ![t] = Tail(@)]
  /\ UNCHANGED << kernelVars, ififo, keys, readVars >>

tty_write_return(t) ==
  /\ text[t] = <<>>
  /\ Goes(t, "w_next", Returns(t))
  /\ UNCHANGED << kernelVars, ififo, ofifo, keys, text, readVars >>

(***************************************************************************)
(* console_write: under the console's mutex, takes the ring's characters   *)
(* one by one, whoever wrote them, gives their permits back and shows them,*)
(* until there is none.                                                    *)
(***************************************************************************)
Slip_NoLock(t) ==
  /\ Goes(t, "c_lock", "c_look")
  /\ UNCHANGED << kernelVars, ififo, ofifo, keys, text, readVars >>

console_write_lock(t) ==
  /\ Goes(t, "c_lock", "c_look")
  /\ mutex_lock(t, Console)
  /\ UNCHANGED << permits, semQueue, ififo, ofifo, keys, text, readVars >>

console_write_look(t) ==
  /\ Goes(t, "c_look", IF IsEmpty(ofifo) THEN "c_unlock" ELSE "c_get")
  /\ UNCHANGED << kernelVars, ififo, ofifo, keys, text, readVars >>

console_write_get(t) ==
  /\ Goes(t, "c_get", "c_notify")
  /\ ofifo' = tty_fifo_get(ofifo)
  /\ UNCHANGED << kernelVars, ififo, keys, text, readVars >>

Slip_OneOnly(t) ==
  /\ Goes(t, "c_notify", "c_unlock")
  /\ sem_notify(OSem)
  /\ UNCHANGED << holder, lockQueue, ififo, ofifo, keys, text, readVars >>

Slip_PermitKept(t) ==
  /\ Goes(t, "c_notify", "c_look")
  /\ UNCHANGED << kernelVars, ififo, ofifo, keys, text, readVars >>

console_write_notify(t) ==
  /\ Goes(t, "c_notify", "c_look")
  /\ sem_notify(OSem)
  /\ UNCHANGED << holder, lockQueue, ififo, ofifo, keys, text, readVars >>

console_write_unlock(t) ==
  /\ Goes(t, "c_unlock", "w_next")
  /\ mutex_unlock(t, Console)
  /\ UNCHANGED << permits, semQueue, ififo, ofifo, keys, text, readVars >>

console_write(t) ==
  \/ console_write_lock(t) \/ console_write_look(t) \/ console_write_get(t)
  \/ console_write_notify(t) \/ console_write_unlock(t)

tty_write(t) ==
  \/ tty_write_wait(t) \/ tty_write_look(t) \/ tty_write_put(t)
  \/ console_write(t) \/ tty_write_return(t)
------------------------------------------------------------------------------
(***************************************************************************)
(* tty_read: a permit and a character at a time.  With the ring empty the  *)
(* character is what the local variable happens to hold.                   *)
(***************************************************************************)
read(t) ==
  /\ t \in Reader
  /\ Goes(t, "user", "r_wait")
  /\ len' = [len EXCEPT ![t] = 0]
  /\ \E n \in Sizes : size' = [size EXCEPT ![t] = n]
  /\ UNCHANGED << kernelVars, ififo, ofifo, keys, text, char >>

tty_read_wait(t) ==
  /\ Goes(t, "r_wait", "r_look")
  /\ sem_wait(t, ISem)
  /\ UNCHANGED << ififo, ofifo, keys, text, readVars >>

(* The switch: how long the line gets with a character.                    *)
Slip_NoRoomForTwo(c, n, max) ==
  IF c = "del" THEN n - 1 ELSE IF c = "lf" /\ n < max THEN n + 2 ELSE n + 1

LineWith(c, n, max) ==
  IF c = "del" THEN n - 1
  ELSE IF c = "lf" /\ n < max - 1 THEN n + 2
  ELSE n + 1

(* A deletion at the start of the line is ignored; the rest is echoed.     *)
Took(t, from, c) ==
  /\ char' = [char EXCEPT ![t] = c]
  /\ IF c = "del" /\ len[t] = 0
     THEN Goes(t, from, "r_wait") /\ UNCHANGED << text, len >>
     ELSE /\ Goes(t, from, "w_next")
          /\ len'  = [len EXCEPT ![t] = LineWith(c, @, size[t])]
          /\ text' = [text EXCEPT ![t] = << c >>]
  /\ UNCHANGED size

Chars == Typed \cup {"none"}

tty_read_look(t) ==
  /\ IF IsEmpty(ififo)
     THEN \E c \in Chars : Took(t, "r_look", c)
     ELSE Goes(t, "r_look", "r_get") /\ UNCHANGED << text, readVars >>
  /\ UNCHANGED << kernelVars, ififo, ofifo, keys >>

tty_read_get(t) ==
  /\ pc[t] = "r_get"
  /\ Took(t, "r_get", Oldest(ififo)[2])
  /\ ififo' = tty_fifo_get(ififo)
  /\ UNCHANGED << kernelVars, ofifo, keys >>

(* After the echo: the call ends with the line, or with the buffer full.   *)
tty_read_next(t) ==
  /\ Goes(t, "r_echoed",
          IF char[t] \in {"cr", "lf"} \/ len[t] >= size[t] THEN "user" ELSE "r_wait")
  /\ UNCHANGED << kernelVars, ififo, ofifo, keys, text, readVars >>

tty_read(t) ==
  tty_read_wait(t) \/ tty_read_look(t) \/ tty_read_get(t) \/ tty_read_next(t)
------------------------------------------------------------------------------
(***************************************************************************)
(* tty_in, from the keyboard interrupt.  The room is judged by the permits;*)
(* the result of tty_fifo_put is not looked at.                            *)
(***************************************************************************)
Slip_NotifyIfEmpty(c) ==
  /\ keys < MaxKeys
  /\ permits[ISem] < IBufSize
  /\ ~ IsFull(ififo)
  /\ keys' = keys + 1
  /\ ififo' = tty_fifo_put(ififo, << keys + 1, c >>)
  /\ IF IsEmpty(ififo) THEN sem_notify(ISem) ELSE UNCHANGED << permits, semQueue >>
  /\ UNCHANGED << holder, lockQueue, ofifo, pc, text, readVars >>

tty_in(c) ==
  /\ keys < MaxKeys
  /\ keys' = keys + 1
  /\ IF permits[ISem] >= IBufSize
     THEN UNCHANGED << kernelVars, ififo >>
     ELSE /\ ififo' = IF IsFull(ififo) THEN ififo ELSE tty_fifo_put(ififo, << keys + 1, c >>)
          /\ sem_notify(ISem)
          /\ UNCHANGED << holder, lockQueue >>
  /\ UNCHANGED << ofifo, pc, text, readVars >>

(* A step of a call that is under way. *)
Proceeds(t) == tty_write(t) \/ tty_read(t)

Next ==
  \/ \E c \in Typed : tty_in(c)
  \/ \E t \in Task : Proceeds(t) \/ write(t) \/ read(t)

(***************************************************************************)
(* Every process that is ready gets the CPU (ReadyRuns of Sched), and what *)
(* it does in a call it does at once when it has it.                       *)
(***************************************************************************)
Spec == Init /\ [][Next]_vars /\ \A t \in Task : WF_vars(Proceeds(t))
------------------------------------------------------------------------------
(* The type of the variables, those of Blocking included. *)
Pc == {"user", "w_next", "w_cr_look", "w_cr_put", "w_lf", "w_look", "w_put",
       "c_lock", "c_look", "c_get", "c_notify", "c_unlock",
       "r_wait", "r_look", "r_get", "r_echoed"}

Printed == Chars \cup {"cr"} \cup UNION { { s[i] : i \in DOMAIN s } : s \in Texts }

Rings(n, cells) ==
  [buf : [0..(n - 1) -> cells \cup {<<>>}], read : 0..(n - 1), write : 0..(n - 1), count : 0..n]

TtyTypeOK ==
  /\ holder \in [{Console} -> Task \cup {Nobody}]
  /\ lockQueue \in [{Console} -> Seq(Task)]
  /\ permits \in [{ISem, OSem} -> 0..(IF IBufSize > OBufSize THEN IBufSize ELSE OBufSize)]
  /\ semQueue \in [{ISem, OSem} -> Seq(Task)]
  /\ ififo \in Rings(IBufSize, (1..MaxKeys) \X Typed)
  /\ ofifo \in Rings(OBufSize, Task \X Printed)
  /\ keys \in 0..MaxKeys
  /\ pc \in [Task -> Pc]
  /\ char \in [Task -> Chars]

(***************************************************************************)
(* The looks at the rings come before the accesses, with the interrupts    *)
(* on, and yet the accesses are safe: a writer with a permit in hand finds *)
(* room when it comes to put its character, whoever else is between the    *)
(* two steps, and only the owner of the console's mutex takes characters.  *)
(***************************************************************************)
NoOverrun ==
  \A t \in Task :
    /\ Kernel!Awake(t) /\ pc[t] \in {"w_cr_look", "w_cr_put", "w_look", "w_put"}
         => ~ IsFull(ofifo)
    /\ pc[t] = "c_get" => ~ IsEmpty(ofifo)

(***************************************************************************)
(* A write that has returned has been shown: nothing of it waits in the    *)
(* ring for somebody else's console_write.                                 *)
(***************************************************************************)
Shown ==
  \A t \in Writer : pc[t] = "user" =>
    \A i \in DOMAIN Content(ofifo) : Content(ofifo)[i][1] # t

(***************************************************************************)
(* No typed character is stranded: for each one in the ring there is a     *)
(* permit, or a reader that has taken it and is on its way to the ring; so *)
(* nobody sleeps in tty_read next to a character.  (The converse fails:    *)
(* ReaderFindsChar below.)                                                 *)
(***************************************************************************)
OnTheirWay == { t \in Reader : Kernel!Awake(t) /\ pc[t] \in {"r_look", "r_get"} }

NothingStranded ==
  /\ ififo.count <= permits[ISem] + Cardinality(OnTheirWay)
  /\ semQueue[ISem] # <<>> => permits[ISem] = 0

(***************************************************************************)
(* The rings are queues: a step leaves a ring as it is, takes its oldest   *)
(* character, or adds one behind the others - the one just typed, to the   *)
(* ring of the input.  The run has one reader, as the repository's         *)
(* programs have: the shell waits while a child of it runs.  With two it   *)
(* is false of the ring of the input: after an overflow both can pass the  *)
(* look with one character there, and the second takes one that is not.    *)
(***************************************************************************)
QueueStep(old, new) ==
  \/ new = old
  \/ old # <<>> /\ new = Tail(old)
  \/ new # <<>> /\ old = SubSeq(new, 1, Len(new) - 1)

RingsAreQueues ==
  [][/\ QueueStep(Content(ififo), Content(ififo)')
     /\ QueueStep(Content(ofifo), Content(ofifo)')
     /\ Len(Content(ififo)') > Len(Content(ififo)) =>
          Content(ififo)'[Len(Content(ififo)')][1] = keys']_vars

(***************************************************************************)
(* tty_read never writes outside the buffer it is given, whatever is typed *)
(* or deleted: a line break that becomes two characters included.          *)
(***************************************************************************)
LineFits == \A t \in Reader : len[t] \in 0..size[t]

(***************************************************************************)
(* sys_write returns, however many processes write and whatever is echoed. *)
(***************************************************************************)
WriteReturns == \A t \in Writer : pc[t] # "user" ~> pc[t] = "user"

(***************************************************************************)
(* What the code says and does not keep.  tty_in says that there has to be *)
(* room in the queue for the character it announces, and tty_read that it  *)
(* takes out a character: a reader that has a permit finds one.            *)
(***************************************************************************)
ReaderFindsChar ==
  \A t \in Reader : Kernel!Awake(t) /\ pc[t] = "r_look" => ~ IsEmpty(ififo)
==============================================================================
