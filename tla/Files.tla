-------------------------------- MODULE Files --------------------------------
(***************************************************************************)
(* Open files: the file table with its reference counts                    *)
(* (file/file_sys.c), the descriptors of each process and the system calls *)
(* on them (file/file.c), the device table (dev/dev.c), and the loading of *)
(* a program, which reads the disk image through one position that all     *)
(* processes share (load_elf_file in core/task.c).                         *)
(*                                                                         *)
(* A step of a process runs from one access to shared data to the next.    *)
(* Between two steps the clock may give the CPU to any other process; what *)
(* is done under file_alloc_mutex or with interrupts off is one step,      *)
(* except that a reference is counted by a read and a write, which only    *)
(* the mutex keeps together, for those who take it.                        *)
(*                                                                         *)
(* The definitions named Slip_... are variants with a mistake in them; no  *)
(* action uses one.                                                        *)
(***************************************************************************)
EXTENDS Integers, Sequences, FiniteSets

CONSTANTS
  TaskNr,     \* TASK_NR
  FdCount,    \* TASK_OFILE_NR, the descriptors of a process
  FileCount,  \* FILE_TABLE_SIZE
  DevCount,   \* DEV_TABLE_SIZE
  TtyNr,      \* TTY_NR
  Segments,   \* the program headers of the image: the pages of each, 0 for
              \* a header that is not to be loaded
  MaxCalls    \* bound: the calls that are begun

Task == 1..TaskNr
Fd   == 0..(FdCount - 1)
File == 1..FileCount
Dev  == 0..(DevCount - 1)
Tty  == 0..(TtyNr - 1)

NoFile  == 0
NoFd    == -1
NoTask  == 0
NoTty   == TtyNr      \* the number in "tty:" names that are out of range
TooShort == TtyNr + 1  \* a name without a number

ASSUME FilesAssumption ==
  /\ {TaskNr, FdCount, FileCount, DevCount, TtyNr} \subseteq Nat \ {0}
  /\ Segments \in Seq(Nat)
  /\ MaxCalls \in Nat

VARIABLES
  ref, dev_id,        \* file_table: file_t.ref and file_t.dev_id
  file_table,         \* task_t.file_table of each process
  open_count, minor,  \* dev_tbl: device_t.open_count and device_t.minor
  temp_pos,           \* temp_pos, in units of one read
  pc,                 \* where each process is in its call
  file, fd,           \* the file and the descriptor a call is about
  num,                \* the number in the name that sys_open was given
  val,                \* the count that has been read and not yet written
  child,              \* the child that sys_fork is making
  header, page,       \* how far load_elf_file and load_phdr are
  asked,              \* history: the terminal a file was opened for
  opened,             \* history: the terminal a descriptor was opened for
  left,               \* history: descriptors that went with their process
  raced,              \* history: files whose count was written over
  unfiled,            \* history: opens that got a device and no file
  read,               \* history: what a load has read while it was alone
  disturbed,          \* history: another process has moved temp_pos
  calls               \* bound: the calls begun so far

fileVars == << ref, dev_id, file_table >>
devVars  == << open_count, minor >>
callVars == << file, fd, num, val, child >>
loadVars == << temp_pos, header, page, read, disturbed >>
pastVars == << asked, opened, left, raced, unfiled >>
vars == << fileVars, devVars, pc, callVars, loadVars, pastVars, calls >>

NoFiles   == [i \in Fd |-> NoFile]
NotOpened == [i \in Fd |-> NoTty]

Init ==
  /\ ref = [f \in File |-> 0]
  /\ dev_id = [f \in File |-> 0]
  /\ file_table = [t \in Task |-> NoFiles]
  /\ open_count = [d \in Dev |-> 0]
  /\ minor = [d \in Dev |-> 0]
  /\ temp_pos = 0
  /\ pc = [t \in Task |-> IF t = 1 THEN "user" ELSE "free"]
  /\ file = [t \in Task |-> NoFile]
  /\ fd = [t \in Task |-> NoFd]
  /\ num = [t \in Task |-> NoTty]
  /\ val = [t \in Task |-> 0]
  /\ child = [t \in Task |-> NoTask]
  /\ header = [t \in Task |-> 0]
  /\ page = [t \in Task |-> 0]
  /\ asked = [f \in File |-> NoTty]
  /\ opened = [t \in Task |-> NotOpened]
  /\ left = [f \in File |-> 0]
  /\ raced = {}
  /\ unfiled = [n \in Tty |-> 0]
  /\ read = [t \in Task |-> <<>>]
  /\ disturbed = [t \in Task |-> FALSE]
  /\ calls = 0

Goes(t, from, to) ==
  /\ pc[t] = from
  /\ pc' = [pc EXCEPT ![t] = to]

(* A call is over, and its variables have no value.                        *)
Returns(t, from) ==
  /\ Goes(t, from, "user")
  /\ file' = [file EXCEPT ![t] = NoFile]
  /\ fd'   = [fd EXCEPT ![t] = NoFd]
  /\ num'  = [num EXCEPT ![t] = NoTty]
  /\ val'  = [val EXCEPT ![t] = 0]
  /\ child' = [child EXCEPT ![t] = NoTask]
------------------------------------------------------------------------------
(* file_alloc_mutex, which is held for more than a step in file_inc_ref.   *)
MutexFree == \A t \in Task : pc[t] # "inc_ref"

Slip_LastUser == { f \in File : ref[f] <= 1 }

FreeFiles == { f \in File : ref[f] = 0 }
FreeFds(t) == { i \in Fd : file_table[t][i] = NoFile }

(* file_alloc: the first file that nobody refers to.                       *)
file_alloc(f) == f \in FreeFiles /\ \A g \in FreeFiles : f <= g

(* task_alloc_fd: the first descriptor without a file, or none.            *)
task_alloc_fd(t, i) ==
  \/ i \in FreeFds(t) /\ \A j \in FreeFds(t) : i <= j
  \/ i = NoFd /\ FreeFds(t) = {}

(***************************************************************************)
(* sys_open of a "tty" name.  If file_alloc finds no file the call goes on *)
(* without a file and without a descriptor.                                *)
(***************************************************************************)
open(t, n) ==
  /\ MutexFree
  /\ num' = [num EXCEPT ![t] = n]
  /\ \/ \E f \in File, i \in Fd \cup {NoFd} :
          /\ file_alloc(f)
          /\ task_alloc_fd(t, i)
          /\ ref'  = [ref EXCEPT ![f] = 1]
          /\ dev_id' = [dev_id EXCEPT ![f] = 0]
          /\ file' = [file EXCEPT ![t] = f]
          /\ fd'   = [fd EXCEPT ![t] = i]
          /\ \/ /\ i # NoFd
                /\ Goes(t, "user", "open_dev")
                /\ file_table' = [file_table EXCEPT ![t][i] = f]
             \/ /\ i = NoFd
                /\ Goes(t, "user", "open_failed")
                /\ UNCHANGED file_table
     \/ /\ FreeFiles = {}
        /\ Goes(t, "user", "open_dev")
        /\ UNCHANGED << fileVars, file, fd >>
  /\ UNCHANGED << devVars, val, child, loadVars, pastVars >>

(***************************************************************************)
(* dev_open: the device of this terminal, or else the last free entry,     *)
(* which is made its device if there is such a terminal.                   *)
(***************************************************************************)
OpenDevs(n) == { d \in Dev : open_count[d] > 0 /\ minor[d] = n }
FreeDevs    == { d \in Dev : open_count[d] = 0 }

dev_open(n, d) ==
  \/ /\ d \in OpenDevs(n) /\ \A e \in OpenDevs(n) : d <= e
     /\ open_count' = [open_count EXCEPT ![d] = @ + 1]
     /\ UNCHANGED minor
  \/ /\ OpenDevs(n) = {}
     /\ d \in FreeDevs /\ \A e \in FreeDevs : e <= d
     /\ n \in Tty
     /\ open_count' = [open_count EXCEPT ![d] = 1]
     /\ minor' = [minor EXCEPT ![d] = n]

(* The end of sys_open; without a file it writes the fields all the same,  *)
(* at address 0, and returns -1 for a device that has been opened.         *)
open_ends(t) ==
  /\ num[t] # TooShort
  /\ \E d \in Dev :
       /\ dev_open(num[t], d)
       /\ \/ /\ file[t] # NoFile
             /\ dev_id' = [dev_id EXCEPT ![file[t]] = d]
             /\ ref' = [ref EXCEPT ![file[t]] = 1]
             /\ asked' = [asked EXCEPT ![file[t]] = num[t]]
             /\ opened' = [opened EXCEPT ![t][fd[t]] = num[t]]
             /\ UNCHANGED unfiled
          \/ /\ file[t] = NoFile
             /\ unfiled' = [unfiled EXCEPT ![num[t]] = @ + 1]
             /\ UNCHANGED << dev_id, ref, asked, opened >>
  /\ Returns(t, "open_dev")
  /\ UNCHANGED << file_table, loadVars, left, raced >>

open_dev_failed(t) ==
  /\ \/ num[t] = TooShort
     \/ OpenDevs(num[t]) = {} /\ (FreeDevs = {} \/ num[t] \notin Tty)
  /\ Goes(t, "open_dev", "open_failed")
  /\ UNCHANGED << fileVars, devVars, callVars, loadVars, pastVars >>

(* sys_open_failed: file_free, if there is a file, and task_remove_fd.     *)
Slip_KeepsFile(t) ==
  /\ MutexFree
  /\ file_table' = [file_table EXCEPT ![t] = [i \in Fd |-> IF i = fd[t] THEN NoFile ELSE @[i]]]
  /\ Returns(t, "open_failed")
  /\ UNCHANGED << ref, dev_id, devVars, loadVars, pastVars >>

open_failed(t) ==
  /\ MutexFree
  /\ ref' = [f \in File |-> IF f = file[t] /\ ref[f] > 0 THEN ref[f] - 1 ELSE ref[f]]
  /\ file_table' = [file_table EXCEPT ![t] = [i \in Fd |-> IF i = fd[t] THEN NoFile ELSE @[i]]]
  /\ Returns(t, "open_failed")
  /\ UNCHANGED << dev_id, devVars, loadVars, pastVars >>
------------------------------------------------------------------------------
(***************************************************************************)
(* Counting a reference: the count is read in one step and written in      *)
(* another.  sys_dup does not take the mutex for it.                       *)
(***************************************************************************)
Counts(t) ==
  LET f == file[t]
  IN  /\ ref' = [ref EXCEPT ![f] = val[t] + 1]
      /\ raced' = IF ref[f] = val[t] THEN raced ELSE raced \cup {f}

dup(t, i) ==
  LET f == file_table[t][i]
  IN  /\ f # NoFile
      /\ Goes(t, "user", "dup")
      /\ \E j \in Fd :
           /\ task_alloc_fd(t, j)
           /\ file_table' = [file_table EXCEPT ![t][j] = f]
           /\ opened' = [opened EXCEPT ![t][j] = opened[t][i]]
      /\ file' = [file EXCEPT ![t] = f]
      /\ val'  = [val EXCEPT ![t] = ref[f]]
      /\ UNCHANGED << ref, dev_id, devVars, fd, num, child, loadVars, asked, left, raced, unfiled >>

dup_ends(t) ==
  /\ Returns(t, "dup")
  /\ Counts(t)
  /\ UNCHANGED << dev_id, file_table, devVars, loadVars, asked, opened, left, unfiled >>

(***************************************************************************)
(* sys_fork as far as files go (how it gets its slot is in Process, and    *)
(* its memory in Memory): copy_opened_files counts every descriptor by     *)
(* file_inc_ref, and then the child runs.                                  *)
(***************************************************************************)
fork(t, c) ==
  /\ pc[c] = "free"
  /\ \A u \in Task : pc[u] = "free" => c <= u
  /\ pc[t] = "user"
  /\ pc' = [pc EXCEPT ![t] = "copy", ![c] = "new"]
  /\ child' = [child EXCEPT ![t] = c]
  /\ fd' = [fd EXCEPT ![t] = 0]
  /\ UNCHANGED << fileVars, devVars, file, num, val, loadVars, pastVars >>

ToCopy(t) == { i \in Fd : i >= fd[t] /\ file_table[t][i] # NoFile }

file_inc_ref(t) ==
  /\ MutexFree
  /\ Goes(t, "copy", "inc_ref")
  /\ \E i \in ToCopy(t) :
       /\ \A j \in ToCopy(t) : i <= j
       /\ fd' = [fd EXCEPT ![t] = i]
       /\ file' = [file EXCEPT ![t] = file_table[t][i]]
       /\ val'  = [val EXCEPT ![t] = ref[file_table[t][i]]]
  /\ UNCHANGED << fileVars, devVars, num, child, loadVars, pastVars >>

copy_file(t) ==
  /\ Goes(t, "inc_ref", "copy")
  /\ Counts(t)
  /\ file_table' = [file_table EXCEPT ![child[t]][fd[t]] = file[t]]
  /\ opened' = [opened EXCEPT ![child[t]][fd[t]] = opened[t][fd[t]]]
  /\ file' = [file EXCEPT ![t] = NoFile]
  /\ val'  = [val EXCEPT ![t] = 0]
  /\ fd'   = [fd EXCEPT ![t] = @ + 1]
  /\ UNCHANGED << dev_id, devVars, num, child, loadVars, asked, left, unfiled >>

fork_ends(t) ==
  /\ ToCopy(t) = {}
  /\ pc[t] = "copy"
  /\ pc' = [pc EXCEPT ![t] = "user", ![child[t]] = "user"]
  /\ child' = [child EXCEPT ![t] = NoTask]
  /\ fd' = [fd EXCEPT ![t] = NoFd]
  /\ UNCHANGED << fileVars, devVars, file, num, val, loadVars, pastVars >>

(* sys_exit drops the descriptors; sys_close, which it calls for each,     *)
(* does nothing.  The slot is taken as reaped at once.                     *)
exit(t) ==
  /\ t # 1
  /\ Goes(t, "user", "free")
  /\ left' = [f \in File |-> left[f] + Cardinality({ i \in Fd : file_table[t][i] = f })]
  /\ file_table' = [file_table EXCEPT ![t] = NoFiles]
  /\ opened' = [opened EXCEPT ![t] = NotOpened]
  /\ read' = [read EXCEPT ![t] = <<>>]
  /\ disturbed' = [disturbed EXCEPT ![t] = FALSE]
  /\ UNCHANGED << ref, dev_id, devVars, callVars, temp_pos, header, page, asked, raced, unfiled >>
------------------------------------------------------------------------------
(***************************************************************************)
(* The file that sys_read and sys_write of a descriptor go to, and fail if *)
(* there is none: sys_read sets the descriptor it was given to 0 first.    *)
(* They change nothing of the files; what the terminal does is in Tty.     *)
(***************************************************************************)
tty_read(t, i)  == file_table[t][0]
tty_write(t, i) == file_table[t][i]
------------------------------------------------------------------------------
(***************************************************************************)
(* The image.  Its header is at position 0 and its program headers follow; *)
(* after them come the pages of the segments.  A read takes one of these   *)
(* and moves the position behind it.  PagesTo counts the pages of the      *)
(* segments up to a program header.                                        *)
(***************************************************************************)
Headers == 1..Len(Segments)
PagesTo[h \in 0..Len(Segments)] == IF h = 0 THEN 0 ELSE PagesTo[h - 1] + Segments[h]
SegmentAt(h) == Len(Segments) + 1 + PagesTo[h - 1]

Loading == { "read_disk", "load", "seek_header", "read_header", "seek_segment", "read_segment" }

(* The loads of other processes find the position moved.                   *)
Disturbs(t) == [u \in Task |-> disturbed[u] \/ (u # t /\ pc[u] \in Loading)]

sys_lseek(t, pos) ==
  /\ temp_pos' = pos
  /\ disturbed' = Disturbs(t)

image_read(t) ==
  /\ temp_pos' = temp_pos + 1
  /\ read' = [read EXCEPT ![t] = IF disturbed[t] THEN <<>> ELSE Append(@, temp_pos)]
  /\ disturbed' = Disturbs(t)

(***************************************************************************)
(* sys_open of a "/" name: read_disk drives the disk port by port, with    *)
(* interrupts on and no lock, and fills the buffer of the image again;     *)
(* then the position goes to the beginning.  What the disk makes of two    *)
(* such reads at once is not followed: both count as disturbed, and so     *)
(* does a load whose image is read over.  The call is load_elf_file's or a *)
(* program's own.                                                          *)
(***************************************************************************)
read_disk(t) ==
  /\ Goes(t, "user", "read_disk")
  /\ read' = [read EXCEPT ![t] = <<>>]
  /\ disturbed' = [Disturbs(t) EXCEPT ![t] = \E u \in Task : pc[u] = "read_disk"]
  /\ UNCHANGED << fileVars, devVars, callVars, temp_pos, header, page, pastVars >>

open_image(t) ==
  /\ \/ Goes(t, "read_disk", "load") /\ header' = [header EXCEPT ![t] = 1]
     \/ Goes(t, "read_disk", "user") /\ UNCHANGED header
  /\ sys_lseek(t, 0)
  /\ UNCHANGED << fileVars, devVars, callVars, page, read, pastVars >>

(* What is not an ELF header is refused.                                   *)
read_elf_header(t) ==
  /\ pc[t] = "load"
  /\ image_read(t)
  /\ IF temp_pos = 0 THEN Goes(t, "load", "seek_header") ELSE Goes(t, "load", "user")
  /\ UNCHANGED << fileVars, devVars, callVars, header, page, pastVars >>

seek_header(t) ==
  /\ header[t] \in Headers
  /\ Goes(t, "seek_header", "read_header")
  /\ sys_lseek(t, header[t])
  /\ UNCHANGED << fileVars, devVars, callVars, header, page, read, pastVars >>

(* What the load makes of anything but its program header depends on the   *)
(* bytes, and is not followed.                                             *)
read_header(t) ==
  /\ pc[t] = "read_header"
  /\ image_read(t)
  /\ \/ /\ temp_pos # header[t]
        /\ Goes(t, "read_header", "user")
        /\ UNCHANGED << header, page >>
     \/ /\ temp_pos = header[t]
        /\ Segments[header[t]] = 0
        /\ Goes(t, "read_header", "seek_header")
        /\ header' = [header EXCEPT ![t] = @ + 1]
        /\ UNCHANGED page
     \/ /\ temp_pos = header[t]
        /\ Segments[header[t]] > 0
        /\ Goes(t, "read_header", "seek_segment")
        /\ page' = [page EXCEPT ![t] = Segments[header[t]]]
        /\ UNCHANGED header
  /\ UNCHANGED << fileVars, devVars, callVars, pastVars >>

(* load_phdr, which has allocated the pages (see Memory).                  *)
Slip_SeeksNot(t) ==
  /\ Goes(t, "seek_segment", "read_segment")
  /\ UNCHANGED << fileVars, devVars, callVars, loadVars, pastVars >>

seek_segment(t) ==
  /\ Goes(t, "seek_segment", "read_segment")
  /\ sys_lseek(t, SegmentAt(header[t]))
  /\ UNCHANGED << fileVars, devVars, callVars, header, page, read, pastVars >>

Slip_OnePageMore(t) ==
  /\ pc[t] = "read_segment"
  /\ image_read(t)
  /\ page' = [page EXCEPT ![t] = @ - 1]
  /\ \/ page[t] >= 1 /\ UNCHANGED << pc, header >>
     \/ page[t] = 0 /\ Goes(t, "read_segment", "seek_header") /\ header' = [header EXCEPT ![t] = @ + 1]
  /\ UNCHANGED << fileVars, devVars, callVars, pastVars >>

read_segment(t) ==
  /\ pc[t] = "read_segment"
  /\ image_read(t)
  /\ page' = [page EXCEPT ![t] = @ - 1]
  /\ \/ /\ page[t] > 1
        /\ UNCHANGED << pc, header >>
     \/ /\ page[t] = 1
        /\ Goes(t, "read_segment", "seek_header")
        /\ header' = [header EXCEPT ![t] = @ + 1]
  /\ UNCHANGED << fileVars, devVars, callVars, pastVars >>

load_ends(t) ==
  /\ header[t] = Len(Segments) + 1
  /\ Goes(t, "seek_header", "user")
  /\ header' = [header EXCEPT ![t] = 0]
  /\ UNCHANGED << fileVars, devVars, callVars, temp_pos, page, read, disturbed, pastVars >>

(* A program that seeks and reads the image itself (bound: to its end).    *)
image_call(t) ==
  /\ pc[t] = "user"
  /\ \E pos \in {0, temp_pos + 1} : pos <= SegmentAt(Len(Segments) + 1) /\ sys_lseek(t, pos)
  /\ UNCHANGED << fileVars, devVars, pc, callVars, header, page, read, pastVars >>
------------------------------------------------------------------------------
Proceeds(t) ==
  \/ open_ends(t) \/ open_dev_failed(t) \/ open_failed(t) \/ dup_ends(t)
  \/ file_inc_ref(t) \/ copy_file(t) \/ fork_ends(t)
  \/ open_image(t) \/ read_elf_header(t) \/ seek_header(t) \/ read_header(t)
  \/ seek_segment(t) \/ read_segment(t) \/ load_ends(t)

Begins(t) ==
  \/ \E n \in 0..TooShort : open(t, n)
  \/ \E i \in Fd : dup(t, i)
  \/ \E c \in Task : fork(t, c)
  \/ exit(t) \/ read_disk(t) \/ image_call(t)

(* By the bound on calls nobody begins another.                            *)
Rest ==
  /\ calls = MaxCalls
  /\ \A t \in Task : pc[t] \in {"user", "free"}
  /\ UNCHANGED vars

Next ==
  \/ (\E t \in Task : Proceeds(t)) /\ UNCHANGED calls
  \/ calls < MaxCalls /\ (\E t \in Task : Begins(t)) /\ calls' = calls + 1
  \/ Rest

Spec == Init /\ [][Next]_vars
------------------------------------------------------------------------------
OpenTypeOK ==
  /\ ref \in [File -> Nat] /\ left \in [File -> Nat]
  /\ dev_id \in [File -> Dev] /\ asked \in [File -> 0..NoTty]
  /\ file_table \in [Task -> [Fd -> File \cup {NoFile}]]
  /\ open_count \in [Dev -> Nat] /\ minor \in [Dev -> Tty]
  /\ pc \in [Task -> {"free", "new", "user", "open_dev", "open_failed", "dup", "copy", "inc_ref"} \cup Loading]
  /\ file \in [Task -> File \cup {NoFile}] /\ fd \in [Task -> NoFd..FdCount]
  /\ num \in [Task -> 0..TooShort] /\ val \in [Task -> Nat]
  /\ child \in [Task -> Task \cup {NoTask}]
  /\ raced \subseteq File /\ unfiled \in [Tty -> Nat]

LoadTypeOK ==
  /\ temp_pos \in Nat
  /\ header \in [Task -> 0..(Len(Segments) + 1)]
  /\ page \in [Task -> Nat]
  /\ disturbed \in [Task -> BOOLEAN]

FilesTypeOK ==
  /\ OpenTypeOK
  /\ LoadTypeOK
  /\ opened \in [Task -> [Fd -> 0..NoTty]]

(* The descriptors of a file, those that calls are about to count or to    *)
(* give back, and those that went with their process.                      *)
Descriptors(f) == Cardinality({ x \in Task \X Fd : file_table[x[1]][x[2]] = f })
Uncounted(f) == Cardinality({ t \in Task : pc[t] = "dup" /\ file[t] = f })
Surplus(f)   == Cardinality({ t \in Task : pc[t] = "open_failed" /\ file[t] = f /\ fd[t] = NoFd })

(***************************************************************************)
(* A file has as many references as there are, or have been, descriptors   *)
(* for it: whatever fails half way gives back what it took, and nothing is *)
(* counted that is not there.  The exception are the files whose count two *)
(* processes have changed at once, one of them by sys_dup, which does not  *)
(* take the mutex: they have too few, but never none.                      *)
(***************************************************************************)
RefsRight ==
  \A f \in File :
    LET refs == Descriptors(f) - Uncounted(f) + Surplus(f) + left[f]
    IN  IF f \in raced THEN 1 <= ref[f] /\ ref[f] <= refs ELSE ref[f] = refs

(* The processes that are in sys_open, and the files they have not yet     *)
(* made ready: the others that are in use are open as terminal n.          *)
Opens(t) == pc[t] \in {"open_dev", "open_failed"}
ReadyFiles(n) ==
  { f \in File : ref[f] > 0 /\ asked[f] = n /\ \A t \in Task : file[t] = f => ~Opens(t) }

Reaches(f, n) == open_count[dev_id[f]] > 0 /\ minor[dev_id[f]] = n

CallsReach ==
  \A t \in Task, i \in Fd :
    pc[t] = "user" =>
      /\ tty_write(t, i) # NoFile => Reaches(tty_write(t, i), opened[t][i])
      /\ tty_read(t, i) # NoFile => Reaches(tty_read(t, i), opened[t][0])

OneDevicePerTty == \A d, e \in Dev \ FreeDevs : minor[d] = minor[e] => d = e

OpensCounted ==
  \A d \in Dev \ FreeDevs :
    open_count[d] = Cardinality(ReadyFiles(minor[d])) + unfiled[minor[d]]

(***************************************************************************)
(* A write reaches the terminal that its descriptor was opened for, by     *)
(* this process or by the one it was inherited from, and a read the one    *)
(* that descriptor 0 was opened for, whatever descriptor it is given:      *)
(* sys_dup may lose references, but no descriptor's file is taken by       *)
(* another sys_open, and no file's device is changed.  No two devices are  *)
(* open as the same terminal, and a device is open as often as there are   *)
(* files for it, and opens that found the file table full.                 *)
(***************************************************************************)
DescriptorsReach == CallsReach /\ OneDevicePerTty /\ OpensCounted

(***************************************************************************)
(* A load that no other process disturbs, by a load of its own or by a     *)
(* read, reads the header, the program headers and every page of every     *)
(* segment, each from its place.  That nothing keeps others from moving    *)
(* the position is the weakness of the code.                               *)
(***************************************************************************)
PlanTo[h \in 0..Len(Segments)] ==
  IF h = 0 THEN << 0 >>
  ELSE PlanTo[h - 1] \o << h >> \o [k \in 1..Segments[h] |-> SegmentAt(h) + k - 1]
Plan == PlanTo[Len(Segments)]

LoadsRight ==
  \A t \in Task : ~disturbed[t] =>
    IF pc[t] \in Loading THEN read[t] = SubSeq(Plan, 1, Len(read[t]))
    ELSE read[t] \in { <<>>, Plan }
=============================================================================
