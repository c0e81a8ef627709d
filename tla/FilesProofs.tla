----------------------------- MODULE FilesProofs -----------------------------
(***************************************************************************)
(* The descriptors of every process reach the terminal they were opened    *)
(* for, whatever the number of processes, descriptors, files, devices and  *)
(* terminals, and whatever fails or is interrupted half way.               *)
(***************************************************************************)
EXTENDS Files, Numbers, FiniteSetTheorems, SequenceTheorems, TLAPS

(***************************************************************************)
(* Where each process is in its call, and what its variables then mean.    *)
(***************************************************************************)
Copies(t) == pc[t] \in {"copy", "inc_ref"}
Holds(t)  == Opens(t) \/ pc[t] \in {"dup", "inc_ref"}

CallsRight ==
  \A t \in Task :
    /\ ~Holds(t) => file[t] = NoFile /\ (pc[t] # "copy" => fd[t] = NoFd)
    /\ pc[t] \in {"dup", "inc_ref"} =>
         file[t] # NoFile /\ \E i \in Fd : file_table[t][i] = file[t]
    /\ pc[t] = "inc_ref" => fd[t] \in Fd /\ file_table[t][fd[t]] = file[t]
    /\ pc[t] = "copy" => fd[t] \in 0..FdCount
    /\ Opens(t) => fd[t] \in Fd \cup {NoFd}
    /\ Opens(t) /\ fd[t] # NoFd => file[t] # NoFile /\ file_table[t][fd[t]] = file[t]
    /\ pc[t] = "open_dev" /\ fd[t] = NoFd => file[t] = NoFile

(* Every fork makes a child of its own.                                    *)
ChildrenApart ==
  /\ \A t \in Task : Copies(t) => child[t] \in Task /\ pc[child[t]] = "new"
  /\ \A t, u \in Task : Copies(t) /\ Copies(u) /\ child[t] = child[u] => t = u

(* The file of a process in sys_open is nobody else's.                     *)
OpenedAlone ==
  \A t \in Task : Opens(t) /\ file[t] # NoFile =>
    /\ ref[file[t]] = 1
    /\ \A u \in Task : file[u] = file[t] => u = t
    /\ \A u \in Task, i \in Fd : file_table[u][i] = file[t] => u = t /\ i = fd[t]

Unopened == \A n \in Tty : OpenDevs(n) = {} => ReadyFiles(n) = {} /\ unfiled[n] = 0

Callers == CallsRight /\ ChildrenApart /\ OpenedAlone
(* The file of a descriptor is in use and names an open device, the one of *)
(* the terminal that the file was opened for, once sys_open is through.    *)
FdsReach ==
  \A t \in Task, i \in Fd :
    LET f == file_table[t][i]
    IN  f # NoFile /\ ~(Opens(t) /\ fd[t] = i) =>
          ref[f] > 0 /\ open_count[dev_id[f]] > 0 /\ minor[dev_id[f]] = asked[f]

Devices == OneDevicePerTty /\ OpensCounted /\ Unopened
FilesInv == OpenTypeOK /\ Callers /\ FdsReach /\ Devices
------------------------------------------------------------------------------
(* The invariant holds at the start.                                       *)
LEMMA InitHolds == Init => FilesInv
<1> SUFFICES ASSUME Init PROVE FilesInv
  OBVIOUS
<1> USE FilesAssumption
<1>1. OpenTypeOK
  BY DEF Init, OpenTypeOK, NoFiles, Task, Fd, File, Dev, Tty, NoFile, NoFd, NoTask, NoTty, TooShort
<1>2. Callers
  BY DEF Init, Callers, CallsRight, ChildrenApart, OpenedAlone, Holds, Copies, Opens
<1>3. FdsReach
  BY DEF Init, FdsReach, NoFiles
<1>4. Devices
  <2>1. \A d \in Dev : d \in FreeDevs
    BY DEF Init, FreeDevs
  <2>2. \A n \in Tty : ReadyFiles(n) = {} /\ unfiled[n] = 0
    BY DEF Init, ReadyFiles
  <2> QED BY <2>1, <2>2 DEF Devices, OneDevicePerTty, OpensCounted, Unopened
<1> QED BY <1>1, <1>2, <1>3, <1>4 DEF FilesInv

(* As long as the ready files of every terminal are the same, and no       *)
(* device is opened, the count of the opens remains right.                 *)
LEMMA DevicesStay ==
  ASSUME Devices, OpenTypeOK,
         UNCHANGED << open_count, minor, unfiled >>,
         \A n \in Tty : ReadyFiles(n)' = ReadyFiles(n)
  PROVE  Devices'
<1>1. FreeDevs' = FreeDevs /\ \A n \in Tty : OpenDevs(n)' = OpenDevs(n)
  BY DEF FreeDevs, OpenDevs
<1>2. \A d \in Dev : minor[d] \in Tty
  BY DEF OpenTypeOK
<1> QED BY <1>1, <1>2 DEF Devices, OneDevicePerTty, OpensCounted, Unopened

(* The steps of a load, and any other that files are nothing to.           *)
Elsewhere == {"user"} \cup Loading

(* Such steps keep the invariant.                                          *)
LEMMA QuietStep ==
  ASSUME FilesInv,
         UNCHANGED << fileVars, devVars, callVars, pastVars >>,
         \/ pc' = pc
         \/ \E t \in Task, to \in Elsewhere : pc[t] \in Elsewhere /\ pc' = [pc EXCEPT ![t] = to]
  PROVE  FilesInv'
<1> USE DEF fileVars, devVars, callVars, pastVars, FilesInv
<1>1. OpenTypeOK'
  BY DEF OpenTypeOK, Elsewhere
<1>2. \A t \in Task : /\ Opens(t)' = Opens(t) /\ Copies(t)' = Copies(t) /\ Holds(t)' = Holds(t)
                      /\ \A p \in {"open_dev", "dup", "copy", "inc_ref", "new"} : (pc[t] = p) = (pc'[t] = p)
  BY DEF Opens, Copies, Holds, Elsewhere, Loading, OpenTypeOK
<1>3. CallsRight'
  BY <1>2 DEF Callers, CallsRight
<1>4. ChildrenApart' /\ OpenedAlone'
  BY <1>2 DEF Callers, ChildrenApart, OpenedAlone
<1>5. FdsReach'
  BY <1>2 DEF FdsReach
<1>6. \A n \in Tty : ReadyFiles(n)' = ReadyFiles(n)
  BY <1>2 DEF ReadyFiles
<1>7. Devices'
  BY <1>6, DevicesStay
<1> QED BY <1>1, <1>3, <1>4, <1>5, <1>7 DEF Callers
------------------------------------------------------------------------------
(* Nobody has anything to do with a file without references.               *)
LEMMA FreeIsFree ==
  ASSUME FilesInv, NEW f \in FreeFiles
  PROVE  \A u \in Task : file[u] # f /\ \A j \in Fd : file_table[u][j] # f
<1> USE DEF FilesInv, Callers
<1>1. f \in File /\ f # NoFile /\ ref[f] = 0
  BY DEF FreeFiles, File, NoFile
<1>2. ASSUME NEW u \in Task, NEW j \in Fd PROVE file_table[u][j] # f
  <2>1. ASSUME Opens(u), fd[u] = j, file_table[u][j] = f PROVE FALSE
    BY <1>1, <2>1 DEF CallsRight, OpenedAlone, Fd, NoFd
  <2> QED BY <1>1, <2>1 DEF FdsReach
<1>3. ASSUME NEW u \in Task PROVE file[u] # f
  BY <1>1, <1>2 DEF CallsRight, OpenedAlone, Holds
<1> QED BY <1>2, <1>3

(* -1 is not a descriptor.                                                 *)
LEMMA NoFdNotFd == NoFd \notin Fd
BY DEF NoFd, Fd

(* sys_open takes a file and a descriptor, or finds no file and goes on.   *)
LEMMA OpenStep ==
  ASSUME FilesInv, NEW t \in Task, NEW n \in 0..TooShort, open(t, n)
  PROVE  FilesInv'
<1> USE DEF FilesInv, Callers
<1>1. /\ num' = [num EXCEPT ![t] = n]
      /\ UNCHANGED << open_count, minor, val, child, asked, left, raced, unfiled >>
  BY DEF open, devVars, loadVars, pastVars
<1>2. PICK to \in {"open_dev", "open_failed"} : pc[t] = "user" /\ pc' = [pc EXCEPT ![t] = to]
  BY DEF open, Goes
<1>3. /\ file[t] = NoFile /\ fd[t] = NoFd /\ ~Opens(t) /\ Opens(t)'
      /\ \A u \in Task : u # t => Opens(u)' = Opens(u) /\ Holds(u)' = Holds(u) /\ pc'[u] = pc[u]
      /\ \A u \in Task : Copies(u)' = Copies(u)
      /\ \A u \in Task : pc[u] = "new" => pc'[u] = "new"
  BY <1>2 DEF Opens, Copies, Holds, CallsRight, OpenTypeOK
<1>4. ChildrenApart'
  BY <1>1, <1>3 DEF ChildrenApart, OpenTypeOK
<1>5. CASE UNCHANGED << fileVars, file, fd >> /\ to = "open_dev"
  <2> UNCHANGED << ref, dev_id, file_table, file, fd >> /\ to = "open_dev"
    BY <1>5 DEF fileVars
  <2>1. OpenTypeOK'
    BY <1>1, <1>2 DEF OpenTypeOK
  <2>2. CallsRight'
    BY <1>2, <1>3 DEF CallsRight, Holds, OpenTypeOK
  <2>3. OpenedAlone'
    BY <1>3 DEF OpenedAlone
  <2>4. FdsReach'
    BY <1>1, <1>3, NoFdNotFd DEF FdsReach
  <2>5. \A m \in Tty : ReadyFiles(m)' = ReadyFiles(m)
    BY <1>1, <1>3 DEF ReadyFiles, File, NoFile
  <2> QED BY <1>1, <1>4, <2>1, <2>2, <2>3, <2>4, <2>5, DevicesStay
<1>6. CASE \E f \in File, i \in Fd \cup {NoFd} :
             /\ file_alloc(f)
             /\ task_alloc_fd(t, i)
             /\ ref'  = [ref EXCEPT ![f] = 1]
             /\ dev_id' = [dev_id EXCEPT ![f] = 0]
             /\ file' = [file EXCEPT ![t] = f]
             /\ fd'   = [fd EXCEPT ![t] = i]
             /\ \/ i # NoFd /\ to = "open_dev" /\ file_table' = [file_table EXCEPT ![t][i] = f]
                \/ i = NoFd /\ to = "open_failed" /\ UNCHANGED file_table
  <2>1. PICK f \in File, i \in Fd \cup {NoFd} :
             /\ f \in FreeFiles
             /\ ref'  = [ref EXCEPT ![f] = 1]
             /\ dev_id' = [dev_id EXCEPT ![f] = 0]
             /\ file' = [file EXCEPT ![t] = f]
             /\ fd'   = [fd EXCEPT ![t] = i]
             /\ \/ i # NoFd /\ to = "open_dev" /\ file_table' = [file_table EXCEPT ![t][i] = f]
                \/ i = NoFd /\ to = "open_failed" /\ UNCHANGED file_table
    BY <1>6 DEF file_alloc
  <2>2. \A u \in Task : file[u] # f /\ \A j \in Fd : file_table[u][j] # f
    BY <2>1, FreeIsFree
  <2>3. f # NoFile /\ ref[f] = 0 /\ NoFd \notin Fd
    BY <2>1, NoFdNotFd DEF FreeFiles, File, NoFile
  <2>4. OpenTypeOK'
    <3>1. 0 \in Dev /\ 1 \in Nat /\ i \in NoFd..FdCount
      BY FilesAssumption DEF Dev, Fd, NoFd
    <3>2. ref' \in [File -> Nat] /\ dev_id' \in [File -> Dev] /\ file' \in [Task -> File \cup {NoFile}]
      BY <2>1, <3>1 DEF OpenTypeOK
    <3>3. fd' \in [Task -> NoFd..FdCount]
      BY <2>1, <3>1 DEF OpenTypeOK
    <3>4. file_table' \in [Task -> [Fd -> File \cup {NoFile}]]
      <4>1. i # NoFd => [file_table[t] EXCEPT ![i] = f] \in [Fd -> File \cup {NoFile}]
        BY DEF OpenTypeOK
      <4> QED BY <2>1, <4>1 DEF OpenTypeOK
    <3> QED BY <1>1, <1>2, <3>2, <3>3, <3>4 DEF OpenTypeOK
  <2>5. /\ \A u \in Task, j \in Fd : file_table'[u][j] = IF u = t /\ j = i THEN f ELSE file_table[u][j]
        /\ \A u \in Task : file'[u] = IF u = t THEN f ELSE file[u]
        /\ \A u \in Task : fd'[u] = IF u = t THEN i ELSE fd[u]
        /\ \A g \in File : ref'[g] = IF g = f THEN 1 ELSE ref[g]
        /\ \A g \in File : g # f => dev_id'[g] = dev_id[g]
    BY <2>1, <2>3 DEF OpenTypeOK
  <2>6. CallsRight'
    <3>1. ASSUME NEW u \in Task, u # t
          PROVE  \A j \in Fd : file_table'[u][j] = file_table[u][j]
      BY <2>5, <3>1
    <3>2. Holds(t)' /\ pc'[t] = to
      BY <1>2, <1>3 DEF Holds, OpenTypeOK
    <3> QED BY <1>3, <2>1, <2>3, <2>5, <3>1, <3>2 DEF CallsRight
  <2>7. OpenedAlone'
    <3> SUFFICES ASSUME NEW u \in Task, Opens(u)', file'[u] # NoFile
                 PROVE  /\ ref'[file'[u]] = 1
                        /\ \A v \in Task : file'[v] = file'[u] => v = u
                        /\ \A v \in Task, j \in Fd : file_table'[v][j] = file'[u] => v = u /\ j = fd'[u]
      BY DEF OpenedAlone
    <3>1. CASE u = t
      BY <2>2, <2>5, <3>1
    <3>2. CASE u # t
      <4>1. Opens(u) /\ file'[u] = file[u] /\ fd'[u] = fd[u] /\ file[u] \in File /\ file[u] # f
        BY <1>3, <2>2, <2>5, <3>2 DEF OpenTypeOK
      <4> QED BY <2>5, <3>2, <4>1 DEF OpenedAlone
    <3> QED BY <3>1, <3>2
  <2>8. FdsReach'
    <3> SUFFICES ASSUME NEW u \in Task, NEW j \in Fd, file_table'[u][j] # NoFile, ~(Opens(u)' /\ fd'[u] = j)
                 PROVE  LET g == file_table'[u][j]
                        IN  ref'[g] > 0 /\ open_count[dev_id'[g]] > 0 /\ minor[dev_id'[g]] = asked[g]
      BY <1>1 DEF FdsReach
    <3>1. file_table'[u][j] = file_table[u][j] /\ file_table[u][j] \in File /\ file_table[u][j] # f
      BY <1>3, <2>2, <2>5 DEF OpenTypeOK
    <3>2. ~(Opens(u) /\ fd[u] = j)
      BY <1>3, <2>5
    <3> QED BY <2>5, <3>1, <3>2 DEF FdsReach
  <2>9. \A m \in Tty : ReadyFiles(m)' = ReadyFiles(m)
    <3>1. ASSUME NEW g \in File
          PROVE  (ref'[g] > 0 /\ \A u \in Task : file'[u] = g => ~Opens(u)')
                 = (ref[g] > 0 /\ \A u \in Task : file[u] = g => ~Opens(u))
      <4>1. CASE g = f
        BY <1>3, <2>3, <2>5, <4>1
      <4>2. CASE g # f
        BY <1>3, <2>3, <2>5, <4>2 DEF File, NoFile
      <4> QED BY <4>1, <4>2
    <3> QED BY <1>1, <3>1 DEF ReadyFiles
  <2> QED BY <1>1, <1>4, <2>4, <2>6, <2>7, <2>8, <2>9, DevicesStay
<1> QED BY <1>2, <1>5, <1>6 DEF open, Goes, fileVars, OpenTypeOK

(* sys_open_failed: the file goes back to the table, the descriptor to the *)
(* process.                                                                *)
LEMMA OpenFailedStep ==
  ASSUME FilesInv, NEW t \in Task, open_failed(t)
  PROVE  FilesInv'
<1> USE DEF FilesInv, Callers
<1>1. UNCHANGED << dev_id, open_count, minor, asked, left, raced, unfiled >>
  BY DEF open_failed, devVars, loadVars, pastVars
<1>2. /\ pc[t] = "open_failed" /\ pc' = [pc EXCEPT ![t] = "user"]
      /\ file' = [file EXCEPT ![t] = NoFile] /\ fd' = [fd EXCEPT ![t] = NoFd]
      /\ num' = [num EXCEPT ![t] = NoTty] /\ val' = [val EXCEPT ![t] = 0]
      /\ child' = [child EXCEPT ![t] = NoTask]
  BY DEF open_failed, Returns, Goes
<1>3. /\ Opens(t) /\ ~Opens(t)' /\ ~Holds(t)' /\ pc'[t] = "user"
      /\ \A u \in Task : u # t => Opens(u)' = Opens(u) /\ Holds(u)' = Holds(u) /\ pc'[u] = pc[u]
      /\ \A u \in Task : Copies(u)' = Copies(u)
      /\ \A u \in Task : pc[u] = "new" => pc'[u] = "new"
      /\ ~Copies(t)
  BY <1>2 DEF Opens, Copies, Holds, OpenTypeOK
<1>4. \A u \in Task : /\ file'[u] = IF u = t THEN NoFile ELSE file[u]
                      /\ fd'[u] = IF u = t THEN NoFd ELSE fd[u]
                      /\ child'[u] = IF u = t THEN NoTask ELSE child[u]
  BY <1>2 DEF OpenTypeOK
<1>5. \A u \in Task, j \in Fd :
        file_table'[u][j] = IF u = t /\ j = fd[t] THEN NoFile ELSE file_table[u][j]
  BY DEF open_failed, OpenTypeOK
<1>6. \A g \in File : ref'[g] = IF g = file[t] THEN 0 ELSE ref[g]
  BY <1>3 DEF open_failed, OpenedAlone, OpenTypeOK, File, NoFile
<1>7. \A u \in Task, j \in Fd : file[t] # NoFile =>
        file_table'[u][j] # file[t] /\ (u # t => file[u] # file[t])
  BY <1>3, <1>5 DEF OpenedAlone
<1>8. OpenTypeOK'
  <2>1. ref' \in [File -> Nat] /\ file_table' \in [Task -> [Fd -> File \cup {NoFile}]]
    BY <1>6 DEF open_failed, OpenTypeOK
  <2>2. NoTty \in 0..TooShort /\ NoFd \in NoFd..FdCount
    BY FilesAssumption DEF NoTty, TooShort, NoFd
  <2> QED BY <1>1, <1>2, <2>1, <2>2 DEF OpenTypeOK
<1>9. CallsRight'
  BY <1>3, <1>4, <1>5 DEF CallsRight
<1>10. ChildrenApart'
  BY <1>3, <1>4 DEF ChildrenApart
<1>11. OpenedAlone'
  <2> SUFFICES ASSUME NEW u \in Task, Opens(u)', file'[u] # NoFile
               PROVE  /\ ref'[file'[u]] = 1
                      /\ \A v \in Task : file'[v] = file'[u] => v = u
                      /\ \A v \in Task, j \in Fd : file_table'[v][j] = file'[u] => v = u /\ j = fd'[u]
    BY DEF OpenedAlone
  <2>1. /\ u # t /\ Opens(u) /\ file'[u] = file[u] /\ fd'[u] = fd[u]
        /\ file[u] \in File /\ file[u] # file[t]
    BY <1>3, <1>4 DEF OpenTypeOK, OpenedAlone
  <2> QED BY <1>4, <1>5, <1>6, <2>1 DEF OpenedAlone
<1>12. FdsReach'
  <2> SUFFICES ASSUME NEW u \in Task, NEW j \in Fd, file_table'[u][j] # NoFile, ~(Opens(u)' /\ fd'[u] = j)
               PROVE  LET g == file_table'[u][j]
                      IN  ref'[g] > 0 /\ open_count[dev_id[g]] > 0 /\ minor[dev_id[g]] = asked[g]
    BY <1>1 DEF FdsReach
  <2>1. file_table'[u][j] = file_table[u][j] /\ file_table[u][j] \in File /\ ~(Opens(u) /\ fd[u] = j)
    BY <1>3, <1>4, <1>5 DEF OpenTypeOK
  <2>2. file_table[u][j] # file[t]
    BY <1>3, <2>1 DEF OpenedAlone
  <2> QED BY <1>6, <2>1, <2>2 DEF FdsReach
<1>13. \A m \in Tty : ReadyFiles(m)' = ReadyFiles(m)
  <2>1. ASSUME NEW g \in File
        PROVE  (ref'[g] > 0 /\ \A u \in Task : file'[u] = g => ~Opens(u)')
               = (ref[g] > 0 /\ \A u \in Task : file[u] = g => ~Opens(u))
    BY <1>3, <1>4, <1>6 DEF File, NoFile
  <2> QED BY <1>1, <2>1 DEF ReadyFiles
<1> QED BY <1>1, <1>8, <1>9, <1>10, <1>11, <1>12, <1>13, DevicesStay

(* No device for the name: only the place in the call changes.             *)
LEMMA OpenDevFailedStep ==
  ASSUME FilesInv, NEW t \in Task, open_dev_failed(t)
  PROVE  FilesInv'
<1> USE DEF FilesInv, Callers
<1>1. /\ UNCHANGED << fileVars, devVars, callVars, pastVars >>
      /\ pc[t] = "open_dev" /\ pc' = [pc EXCEPT ![t] = "open_failed"]
  BY DEF open_dev_failed, Goes
<1>2. OpenTypeOK'
  BY <1>1 DEF OpenTypeOK, fileVars, devVars, callVars, pastVars
<1>3. \A u \in Task : /\ Opens(u)' = Opens(u) /\ Copies(u)' = Copies(u) /\ Holds(u)' = Holds(u)
                      /\ \A p \in {"dup", "copy", "inc_ref", "new"} : (pc[u] = p) = (pc'[u] = p)
                      /\ pc'[u] = "open_dev" => pc[u] = "open_dev"
  BY <1>1 DEF Opens, Copies, Holds, OpenTypeOK
<1>4. CallsRight'
  BY <1>1, <1>3 DEF CallsRight, fileVars, callVars
<1>5. ChildrenApart' /\ OpenedAlone'
  BY <1>1, <1>3 DEF ChildrenApart, OpenedAlone, fileVars, callVars
<1>6. FdsReach'
  BY <1>1, <1>3 DEF FdsReach, fileVars, devVars, callVars, pastVars
<1>7. \A m \in Tty : ReadyFiles(m)' = ReadyFiles(m)
  BY <1>1, <1>3 DEF ReadyFiles, fileVars, callVars, pastVars
<1>8. Devices'
  BY <1>1, <1>7, DevicesStay DEF devVars, pastVars
<1> QED BY <1>2, <1>4, <1>5, <1>6, <1>8

(* The sets of ready files are finite, and have a size.                    *)
LEMMA ReadyFinite ==
  \A n : IsFiniteSet(ReadyFiles(n)) /\ Cardinality(ReadyFiles(n)) \in Nat
<1>1. IsFiniteSet(File)
  BY FilesAssumption, FS_Interval DEF File
<1> QED BY <1>1, FS_Subset, FS_CardinalityType DEF ReadyFiles

(* A device is found for the terminal n: one more is open on it.           *)
LEMMA DevOpenCounts ==
  ASSUME FilesInv, NEW n \in 0..TooShort, NEW d \in Dev, dev_open(n, d)
  PROVE  /\ n \in Tty
         /\ open_count[d] = Cardinality(ReadyFiles(n)) + unfiled[n]
         /\ open_count' = [open_count EXCEPT ![d] = @ + 1]
         /\ minor' = [minor EXCEPT ![d] = n]
         /\ open_count[d] > 0 => minor[d] = n
         /\ \A e \in Dev : open_count[e] > 0 /\ minor[e] = n => e = d
<1> USE DEF FilesInv
<1>1. CASE d \in OpenDevs(n) /\ open_count' = [open_count EXCEPT ![d] = @ + 1] /\ UNCHANGED minor
  <2>1. d \in Dev \ FreeDevs /\ open_count[d] > 0 /\ minor[d] = n /\ n \in Tty
    BY <1>1 DEF OpenDevs, FreeDevs, OpenTypeOK
  <2>2. open_count[d] = Cardinality(ReadyFiles(n)) + unfiled[n]
    BY <2>1 DEF Devices, OpensCounted
  <2>3. \A e \in Dev : open_count[e] > 0 /\ minor[e] = n => e = d
    BY <2>1 DEF Devices, OneDevicePerTty, FreeDevs, OpenTypeOK
  <2>4. minor' = [minor EXCEPT ![d] = n]
    BY <1>1, <2>1 DEF OpenTypeOK
  <2> QED BY <1>1, <2>1, <2>2, <2>3, <2>4
<1>2. CASE /\ OpenDevs(n) = {} /\ d \in FreeDevs /\ n \in Tty
           /\ open_count' = [open_count EXCEPT ![d] = 1]
           /\ minor' = [minor EXCEPT ![d] = n]
  <2>1. open_count[d] = 0 /\ ReadyFiles(n) = {} /\ unfiled[n] = 0
    BY <1>2 DEF FreeDevs, Devices, Unopened
  <2>2. open_count[d] = Cardinality(ReadyFiles(n)) + unfiled[n]
    BY <2>1, FS_EmptySet
  <2>3. open_count' = [open_count EXCEPT ![d] = @ + 1]
    BY <1>2, <2>1 DEF OpenTypeOK
  <2> QED BY <1>2, <2>1, <2>2, <2>3 DEF OpenDevs
<1> QED BY <1>1, <1>2 DEF dev_open

(* The end of sys_open: the file, if there is one, becomes ready, and its  *)
(* device is counted once more.                                            *)
LEMMA OpenEndsStep ==
  ASSUME FilesInv, NEW t \in Task, open_ends(t)
  PROVE  FilesInv'
<1> USE DEF FilesInv, Callers
<1>1. UNCHANGED << file_table, left, raced >>
  BY DEF open_ends
<1>2. /\ pc[t] = "open_dev" /\ pc' = [pc EXCEPT ![t] = "user"]
      /\ file' = [file EXCEPT ![t] = NoFile] /\ fd' = [fd EXCEPT ![t] = NoFd]
      /\ num' = [num EXCEPT ![t] = NoTty] /\ val' = [val EXCEPT ![t] = 0]
      /\ child' = [child EXCEPT ![t] = NoTask]
  BY DEF open_ends, Returns, Goes
<1>3. PICK d \in Dev :
        /\ dev_open(num[t], d)
        /\ \/ /\ file[t] # NoFile
              /\ dev_id' = [dev_id EXCEPT ![file[t]] = d]
              /\ ref' = [ref EXCEPT ![file[t]] = 1]
              /\ asked' = [asked EXCEPT ![file[t]] = num[t]]
              /\ UNCHANGED unfiled
           \/ /\ file[t] = NoFile
              /\ unfiled' = [unfiled EXCEPT ![num[t]] = @ + 1]
              /\ UNCHANGED << dev_id, ref, asked >>
  BY DEF open_ends
<1>n. PICK n : n = num[t]
  OBVIOUS
<1>4. /\ n \in Tty
      /\ open_count[d] = Cardinality(ReadyFiles(n)) + unfiled[n]
      /\ open_count' = [open_count EXCEPT ![d] = @ + 1]
      /\ minor' = [minor EXCEPT ![d] = n]
      /\ open_count[d] > 0 => minor[d] = n
      /\ \A e \in Dev : open_count[e] > 0 /\ minor[e] = n => e = d
  <2>1. n \in 0..TooShort
    BY <1>n DEF OpenTypeOK
  <2> QED BY <1>n, <1>3, <2>1, DevOpenCounts
<1>5. /\ Opens(t) /\ ~Opens(t)' /\ ~Holds(t)' /\ pc'[t] = "user" /\ ~Copies(t)
      /\ \A u \in Task : u # t => Opens(u)' = Opens(u) /\ Holds(u)' = Holds(u) /\ pc'[u] = pc[u]
      /\ \A u \in Task : Copies(u)' = Copies(u)
      /\ \A u \in Task : pc[u] = "new" => pc'[u] = "new"
  BY <1>2 DEF Opens, Copies, Holds, OpenTypeOK
<1>6. \A u \in Task : /\ file'[u] = IF u = t THEN NoFile ELSE file[u]
                      /\ fd'[u] = IF u = t THEN NoFd ELSE fd[u]
                      /\ child'[u] = IF u = t THEN NoTask ELSE child[u]
  BY <1>2 DEF OpenTypeOK
<1>7. \A g \in File : /\ ref'[g] = IF g = file[t] THEN 1 ELSE ref[g]
                      /\ dev_id'[g] = IF g = file[t] THEN d ELSE dev_id[g]
                      /\ asked'[g] = IF g = file[t] THEN n ELSE asked[g]
  <2>1. CASE file[t] = NoFile
    BY <1>3, <2>1 DEF File, NoFile
  <2>2. CASE file[t] # NoFile
    BY <1>n, <1>3, <2>2 DEF OpenTypeOK
  <2> QED BY <2>1, <2>2
<1>8. \A e \in Dev : /\ open_count'[e] = IF e = d THEN open_count[e] + 1 ELSE open_count[e]
                     /\ minor'[e] = IF e = d THEN n ELSE minor[e]
                     /\ open_count[e] \in Nat
  BY <1>4 DEF OpenTypeOK
<1>9. \A m \in Tty : /\ unfiled[m] \in Nat
                     /\ unfiled'[m] = IF file[t] = NoFile /\ m = n THEN unfiled[m] + 1 ELSE unfiled[m]
  BY <1>n, <1>3, <1>4 DEF OpenTypeOK
<1>10. OpenTypeOK'
  <2>1. NoTty \in 0..TooShort /\ NoFd \in NoFd..FdCount /\ n \in 0..NoTty
    BY <1>4, FilesAssumption DEF NoTty, TooShort, NoFd, Tty
  <2>2. ref' \in [File -> Nat] /\ dev_id' \in [File -> Dev] /\ asked' \in [File -> 0..NoTty]
    <3>1. CASE file[t] = NoFile
      BY <1>3, <3>1 DEF OpenTypeOK
    <3>2. CASE file[t] # NoFile
      <4>1. file[t] \in File
        BY <3>2 DEF OpenTypeOK
      <4>2. ref' \in [File -> Nat]
        BY <1>3, <3>2, <4>1 DEF OpenTypeOK
      <4>3. dev_id' \in [File -> Dev]
        BY <1>3, <3>2, <4>1 DEF OpenTypeOK
      <4>4. asked' \in [File -> 0..NoTty]
        BY <1>n, <1>3, <2>1, <3>2, <4>1 DEF OpenTypeOK
      <4> QED BY <4>2, <4>3, <4>4
    <3> QED BY <3>1, <3>2
  <2>3. open_count' \in [Dev -> Nat] /\ minor' \in [Dev -> Tty]
    BY <1>4 DEF OpenTypeOK
  <2>4. unfiled' \in [Tty -> Nat]
    BY <1>n, <1>3, <1>9 DEF OpenTypeOK
  <2> QED BY <1>1, <1>2, <2>1, <2>2, <2>3, <2>4 DEF OpenTypeOK
<1>11. CallsRight'
  BY <1>1, <1>5, <1>6 DEF CallsRight
<1>12. ChildrenApart'
  BY <1>5, <1>6 DEF ChildrenApart
<1>13. OpenedAlone'
  <2> SUFFICES ASSUME NEW u \in Task, Opens(u)', file'[u] # NoFile
               PROVE  /\ ref'[file'[u]] = 1
                      /\ \A v \in Task : file'[v] = file'[u] => v = u
                      /\ \A v \in Task, j \in Fd : file_table'[v][j] = file'[u] => v = u /\ j = fd'[u]
    BY DEF OpenedAlone
  <2>1. /\ u # t /\ Opens(u) /\ file'[u] = file[u] /\ fd'[u] = fd[u]
        /\ file[u] \in File /\ file[u] # file[t]
    BY <1>5, <1>6 DEF OpenTypeOK, OpenedAlone
  <2> QED BY <1>1, <1>6, <1>7, <2>1 DEF OpenedAlone
<1>14. FdsReach'
  <2> SUFFICES ASSUME NEW u \in Task, NEW j \in Fd, file_table[u][j] # NoFile, ~(Opens(u)' /\ fd'[u] = j)
               PROVE  LET g == file_table[u][j]
                      IN  ref'[g] > 0 /\ open_count'[dev_id'[g]] > 0 /\ minor'[dev_id'[g]] = asked'[g]
    BY <1>1 DEF FdsReach
  <2> DEFINE g == file_table[u][j]
  <2>1. g \in File /\ dev_id[g] \in Dev
    BY DEF OpenTypeOK
  <2>2. CASE g = file[t]
    BY <1>7, <1>8, <2>1, <2>2
  <2>3. CASE g # file[t]
    <3>1. ~(Opens(u) /\ fd[u] = j)
      BY <1>5, <1>6, <2>3, NoFdNotFd DEF CallsRight
    <3>2. ref[g] > 0 /\ open_count[dev_id[g]] > 0 /\ minor[dev_id[g]] = asked[g]
      BY <3>1 DEF FdsReach
    <3> QED BY <1>4, <1>7, <1>8, <2>1, <2>3, <3>2
  <2> QED BY <2>2, <2>3
<1>15. \A m \in Tty : m # n \/ file[t] = NoFile => ReadyFiles(m)' = ReadyFiles(m)
  <2>1. ASSUME NEW m \in Tty, m # n \/ file[t] = NoFile, NEW g \in File
        PROVE  (ref'[g] > 0 /\ asked'[g] = m /\ \A u \in Task : file'[u] = g => ~Opens(u)')
               = (ref[g] > 0 /\ asked[g] = m /\ \A u \in Task : file[u] = g => ~Opens(u))
    <3>1. CASE g = file[t]
      BY <1>5, <1>7, <2>1, <3>1 DEF File, NoFile
    <3>2. CASE g # file[t]
      BY <1>5, <1>6, <1>7, <3>2 DEF File, NoFile
    <3> QED BY <3>1, <3>2
  <2> QED BY <2>1 DEF ReadyFiles
<1>16. Cardinality(ReadyFiles(n)') + unfiled'[n] = Cardinality(ReadyFiles(n)) + unfiled[n] + 1
  <2>1. CASE file[t] = NoFile
    BY <1>4, <1>9, <1>15, <2>1, ReadyFinite
  <2>2. CASE file[t] # NoFile
    <3>1. file[t] \in File /\ file[t] \notin ReadyFiles(n)
      BY <1>5, <2>2 DEF OpenTypeOK, ReadyFiles
    <3>2. \A u \in Task : file'[u] # file[t]
      BY <1>5, <1>6, <2>2 DEF OpenedAlone
    <3>3. ASSUME NEW g \in File
          PROVE  (ref'[g] > 0 /\ asked'[g] = n /\ \A u \in Task : file'[u] = g => ~Opens(u)')
                 = (g = file[t] \/ (ref[g] > 0 /\ asked[g] = n /\ \A u \in Task : file[u] = g => ~Opens(u)))
      <4>1. CASE g = file[t]
        BY <1>7, <3>2, <4>1
      <4>2. CASE g # file[t]
        BY <1>5, <1>6, <1>7, <4>2 DEF File, NoFile
      <4> QED BY <4>1, <4>2
    <3>4. ReadyFiles(n)' = ReadyFiles(n) \cup {file[t]}
      BY <3>1, <3>3 DEF ReadyFiles
    <3>5. Cardinality(ReadyFiles(n) \cup {file[t]}) = Cardinality(ReadyFiles(n)) + 1
      BY <3>1, ReadyFinite, FS_AddElement
    <3> QED BY <1>4, <1>9, <2>2, <3>4, <3>5, ReadyFinite
  <2> QED BY <2>1, <2>2
<1>17. Devices'
  <2>1. OneDevicePerTty'
    BY <1>4, <1>8 DEF Devices, OneDevicePerTty, FreeDevs
  <2>2. OpensCounted'
    BY <1>4, <1>8, <1>9, <1>15, <1>16 DEF Devices, OpensCounted, FreeDevs, OpenTypeOK
  <2>3. Unopened'
    BY <1>4, <1>8, <1>9, <1>15 DEF Devices, Unopened, OpenDevs
  <2> QED BY <2>1, <2>2, <2>3 DEF Devices
<1> QED BY <1>10, <1>11, <1>12, <1>13, <1>14, <1>17

(* The first half of counting a reference: the file and its count are kept.*)
(* sys_dup also gives the file another descriptor.                         *)
LEMMA DupStep ==
  ASSUME FilesInv, NEW t \in Task, NEW i \in Fd, dup(t, i)
  PROVE  FilesInv'
<1> USE DEF FilesInv, Callers
<1>1. PICK f \in File, j \in Fd :
        /\ f = file_table[t][i] /\ f # NoFile /\ file_table[t][j] = NoFile
        /\ file_table' = [file_table EXCEPT ![t][j] = f]
        /\ file' = [file EXCEPT ![t] = f]
        /\ val'  = [val EXCEPT ![t] = ref[f]]
  <2>1. PICK j \in Fd : task_alloc_fd(t, j) /\ file_table' = [file_table EXCEPT ![t][j] = file_table[t][i]]
    BY DEF dup
  <2>2. file_table[t][j] = NoFile
    BY <2>1, NoFdNotFd DEF task_alloc_fd, FreeFds
  <2>3. file_table[t][i] \in File \cup {NoFile}
    BY DEF OpenTypeOK
  <2> QED BY <2>1, <2>2, <2>3 DEF dup
<1>2. /\ pc[t] = "user" /\ pc' = [pc EXCEPT ![t] = "dup"]
      /\ UNCHANGED << ref, dev_id, open_count, minor, fd, num, child, asked, left, raced, unfiled >>
  BY DEF dup, Goes, devVars, pastVars
<1>3. /\ ~Opens(t) /\ fd[t] = NoFd /\ file[t] = NoFile /\ Holds(t)' /\ pc'[t] = "dup"
      /\ \A u \in Task : u # t => Holds(u)' = Holds(u) /\ pc'[u] = pc[u]
      /\ \A u \in Task : Copies(u)' = Copies(u) /\ Opens(u)' = Opens(u)
      /\ \A u \in Task : pc[u] = "new" => pc'[u] = "new"
  BY <1>2 DEF Opens, Copies, Holds, CallsRight, OpenTypeOK
<1>4. /\ \A u \in Task, k \in Fd : file_table'[u][k] = IF u = t /\ k = j THEN f ELSE file_table[u][k]
      /\ \A u \in Task : file'[u] = IF u = t THEN f ELSE file[u]
  BY <1>1 DEF OpenTypeOK
<1>5. \A u \in Task : Opens(u) /\ file[u] # NoFile => file[u] # f
  BY <1>1, <1>3 DEF OpenedAlone
<1>6. OpenTypeOK'
  <2>1. ref[f] \in Nat /\ [file_table[t] EXCEPT ![j] = f] \in [Fd -> File \cup {NoFile}]
    BY DEF OpenTypeOK
  <2>2. file_table' \in [Task -> [Fd -> File \cup {NoFile}]]
    BY <1>1, <2>1 DEF OpenTypeOK
  <2> QED BY <1>1, <1>2, <2>1, <2>2 DEF OpenTypeOK
<1>7. CallsRight'
  <2>1. ASSUME NEW u \in Task, u # t PROVE \A k \in Fd : file_table'[u][k] = file_table[u][k]
    BY <1>4, <2>1
  <2> QED BY <1>1, <1>2, <1>3, <1>4, <2>1 DEF CallsRight, Opens
<1>8. ChildrenApart'
  BY <1>2, <1>3 DEF ChildrenApart
<1>9. OpenedAlone'
  BY <1>1, <1>2, <1>3, <1>4, <1>5 DEF OpenedAlone
<1>10. FdsReach'
  <2>1. ref[f] > 0 /\ open_count[dev_id[f]] > 0 /\ minor[dev_id[f]] = asked[f]
    BY <1>1, <1>3 DEF FdsReach
  <2> QED BY <1>2, <1>3, <1>4, <2>1 DEF FdsReach
<1>11. \A m \in Tty : ReadyFiles(m)' = ReadyFiles(m)
  <2>1. ASSUME NEW g \in File
        PROVE  (\A u \in Task : file'[u] = g => ~Opens(u)') = (\A u \in Task : file[u] = g => ~Opens(u))
    BY <1>3, <1>4
  <2> QED BY <1>2, <2>1 DEF ReadyFiles
<1> QED BY <1>2, <1>6, <1>7, <1>8, <1>9, <1>10, <1>11, DevicesStay

(* copy_opened_files goes to the next descriptor there is, and             *)
(* file_inc_ref reads the count.                                           *)
LEMMA FileIncRefStep ==
  ASSUME FilesInv, NEW t \in Task, file_inc_ref(t)
  PROVE  FilesInv'
<1> USE DEF FilesInv, Callers
<1>1. PICK f \in File, i \in Fd :
        /\ f = file_table[t][i] /\ f # NoFile
        /\ fd' = [fd EXCEPT ![t] = i]
        /\ file' = [file EXCEPT ![t] = f]
        /\ val'  = [val EXCEPT ![t] = ref[f]]
  <2>1. PICK i \in ToCopy(t) :
          /\ fd' = [fd EXCEPT ![t] = i]
          /\ file' = [file EXCEPT ![t] = file_table[t][i]]
          /\ val'  = [val EXCEPT ![t] = ref[file_table[t][i]]]
    BY DEF file_inc_ref
  <2>2. i \in Fd /\ file_table[t][i] # NoFile
    BY <2>1 DEF ToCopy
  <2>3. file_table[t][i] \in File \cup {NoFile}
    BY <2>2 DEF OpenTypeOK
  <2> QED BY <2>1, <2>2, <2>3
<1>2. /\ pc[t] = "copy" /\ pc' = [pc EXCEPT ![t] = "inc_ref"]
      /\ UNCHANGED << ref, dev_id, file_table, open_count, minor, num, child, asked, left, raced, unfiled >>
  BY DEF file_inc_ref, Goes, fileVars, devVars, pastVars
<1>3. /\ ~Opens(t) /\ file[t] = NoFile /\ Holds(t)' /\ pc'[t] = "inc_ref"
      /\ \A u \in Task : u # t => Holds(u)' = Holds(u) /\ pc'[u] = pc[u]
      /\ \A u \in Task : Copies(u)' = Copies(u) /\ Opens(u)' = Opens(u)
      /\ \A u \in Task : pc[u] = "new" => pc'[u] = "new"
  BY SMTT(60), <1>2 DEF Opens, Copies, Holds, CallsRight, OpenTypeOK
<1>4. \A u \in Task : /\ file'[u] = IF u = t THEN f ELSE file[u]
                      /\ fd'[u] = IF u = t THEN i ELSE fd[u]
  BY <1>1 DEF OpenTypeOK
<1>5. \A u \in Task : Opens(u) /\ file[u] # NoFile => file[u] # f
  BY <1>1, <1>3 DEF OpenedAlone
<1>6. OpenTypeOK'
  <2>1. ref[f] \in Nat /\ i \in NoFd..FdCount
    BY FilesAssumption DEF OpenTypeOK, Fd, NoFd
  <2> QED BY <1>1, <1>2, <2>1 DEF OpenTypeOK
<1>7. CallsRight'
  BY <1>1, <1>2, <1>3, <1>4 DEF CallsRight, Opens
<1>8. ChildrenApart'
  BY <1>2, <1>3 DEF ChildrenApart
<1>9. OpenedAlone'
  BY <1>1, <1>2, <1>3, <1>4, <1>5 DEF OpenedAlone
<1>10. FdsReach'
  BY <1>2, <1>3, <1>4 DEF FdsReach
<1>11. \A m \in Tty : ReadyFiles(m)' = ReadyFiles(m)
  <2>1. ASSUME NEW g \in File
        PROVE  (\A u \in Task : file'[u] = g => ~Opens(u)') = (\A u \in Task : file[u] = g => ~Opens(u))
    BY <1>3, <1>4
  <2> QED BY <1>2, <2>1 DEF ReadyFiles
<1> QED BY <1>2, <1>6, <1>7, <1>8, <1>9, <1>10, <1>11, DevicesStay

(* The second half: the count that is written is positive, whatever other  *)
(* processes have made of it in between.                                   *)
LEMMA CountsPositive ==
  ASSUME FilesInv, NEW t \in Task, pc[t] \in {"dup", "inc_ref"}, Counts(t)
  PROVE  /\ file[t] \in File /\ ref[file[t]] > 0
         /\ \A u \in Task : Opens(u) /\ file[u] # NoFile => file[u] # file[t]
         /\ open_count[dev_id[file[t]]] > 0 /\ minor[dev_id[file[t]]] = asked[file[t]]
         /\ ref' \in [File -> Nat] /\ raced' \subseteq File
         /\ \A g \in File : ref'[g] > 0 <=> ref[g] > 0
         /\ \A g \in File : g # file[t] => ref'[g] = ref[g]
<1> USE DEF FilesInv, Callers
<1>1. PICK i \in Fd : file_table[t][i] = file[t] /\ file[t] # NoFile
  BY DEF CallsRight
<1>2. ~Opens(t) /\ file[t] \in File
  BY <1>1 DEF Opens, OpenTypeOK
<1>3. ref[file[t]] > 0 /\ open_count[dev_id[file[t]]] > 0 /\ minor[dev_id[file[t]]] = asked[file[t]]
  BY <1>1, <1>2 DEF FdsReach
<1>4. \A u \in Task : Opens(u) /\ file[u] # NoFile => file[u] # file[t]
  BY <1>2 DEF OpenedAlone
<1>5. val[t] + 1 \in Nat /\ val[t] + 1 > 0
  BY DEF OpenTypeOK
<1>6. ref' = [ref EXCEPT ![file[t]] = val[t] + 1] /\ raced' \subseteq File
  BY <1>2 DEF Counts, OpenTypeOK
<1>7. ref' \in [File -> Nat] /\ \A g \in File : ref'[g] = IF g = file[t] THEN val[t] + 1 ELSE ref[g]
  BY <1>2, <1>5, <1>6 DEF OpenTypeOK
<1> QED BY <1>2, <1>3, <1>4, <1>5, <1>6, <1>7

(* sys_dup writes the count.                                               *)
LEMMA DupEndsStep ==
  ASSUME FilesInv, NEW t \in Task, dup_ends(t)
  PROVE  FilesInv'
<1> USE DEF FilesInv, Callers
<1>1. /\ UNCHANGED << dev_id, file_table, open_count, minor, asked, left, unfiled >>
      /\ Counts(t)
  BY DEF dup_ends, devVars
<1>2. /\ pc[t] = "dup" /\ pc' = [pc EXCEPT ![t] = "user"]
      /\ file' = [file EXCEPT ![t] = NoFile] /\ fd' = [fd EXCEPT ![t] = NoFd]
      /\ num' = [num EXCEPT ![t] = NoTty] /\ val' = [val EXCEPT ![t] = 0]
      /\ child' = [child EXCEPT ![t] = NoTask]
  BY DEF dup_ends, Returns, Goes
<1>3. /\ file[t] \in File /\ ref[file[t]] > 0
      /\ \A u \in Task : Opens(u) /\ file[u] # NoFile => file[u] # file[t]
      /\ ref' \in [File -> Nat] /\ raced' \subseteq File
      /\ \A g \in File : ref'[g] > 0 <=> ref[g] > 0
      /\ \A g \in File : g # file[t] => ref'[g] = ref[g]
  BY <1>1, <1>2, CountsPositive
<1>4. /\ ~Opens(t) /\ ~Opens(t)' /\ ~Holds(t)' /\ pc'[t] = "user" /\ ~Copies(t)
      /\ \A u \in Task : u # t => Holds(u)' = Holds(u) /\ pc'[u] = pc[u]
      /\ \A u \in Task : Copies(u)' = Copies(u) /\ Opens(u)' = Opens(u)
      /\ \A u \in Task : pc[u] = "new" => pc'[u] = "new"
  BY <1>2 DEF Opens, Copies, Holds, OpenTypeOK
<1>5. \A u \in Task : /\ file'[u] = IF u = t THEN NoFile ELSE file[u]
                      /\ fd'[u] = IF u = t THEN NoFd ELSE fd[u]
                      /\ child'[u] = IF u = t THEN NoTask ELSE child[u]
  BY <1>2 DEF OpenTypeOK
<1>6. OpenTypeOK'
  <2>1. NoTty \in 0..TooShort /\ NoFd \in NoFd..FdCount
    BY FilesAssumption DEF NoTty, TooShort, NoFd
  <2> QED BY <1>1, <1>2, <1>3, <2>1 DEF OpenTypeOK
<1>7. CallsRight'
  BY <1>1, <1>4, <1>5 DEF CallsRight, Opens
<1>8. ChildrenApart'
  BY <1>4, <1>5 DEF ChildrenApart
<1>9. OpenedAlone'
  <2> SUFFICES ASSUME NEW u \in Task, Opens(u)', file'[u] # NoFile
               PROVE  /\ ref'[file'[u]] = 1
                      /\ \A v \in Task : file'[v] = file'[u] => v = u
                      /\ \A v \in Task, j \in Fd : file_table'[v][j] = file'[u] => v = u /\ j = fd'[u]
    BY DEF OpenedAlone
  <2>1. /\ u # t /\ Opens(u) /\ file'[u] = file[u] /\ fd'[u] = fd[u]
        /\ file[u] \in File /\ file[u] # file[t]
    BY <1>3, <1>4, <1>5 DEF OpenTypeOK
  <2> QED BY <1>1, <1>3, <1>5, <2>1 DEF OpenedAlone
<1>10. FdsReach'
  BY <1>1, <1>3, <1>4, <1>5 DEF FdsReach, OpenTypeOK
<1>11. \A m \in Tty : ReadyFiles(m)' = ReadyFiles(m)
  <2>1. ASSUME NEW g \in File
        PROVE  (\A u \in Task : file'[u] = g => ~Opens(u)') = (\A u \in Task : file[u] = g => ~Opens(u))
    BY <1>4, <1>5
  <2> QED BY <1>1, <1>3, <2>1 DEF ReadyFiles
<1> QED BY <1>1, <1>6, <1>7, <1>8, <1>9, <1>10, <1>11, DevicesStay

(* file_inc_ref writes the count, and the child has the descriptor.        *)
LEMMA CopyFileStep ==
  ASSUME FilesInv, NEW t \in Task, copy_file(t)
  PROVE  FilesInv'
<1> USE DEF FilesInv, Callers
<1>1. /\ UNCHANGED << dev_id, open_count, minor, num, child, asked, left, unfiled >>
      /\ Counts(t)
  BY DEF copy_file, devVars
<1>2. /\ pc[t] = "inc_ref" /\ pc' = [pc EXCEPT ![t] = "copy"]
      /\ file_table' = [file_table EXCEPT ![child[t]][fd[t]] = file[t]]
      /\ file' = [file EXCEPT ![t] = NoFile] /\ fd' = [fd EXCEPT ![t] = @ + 1]
      /\ val' = [val EXCEPT ![t] = 0]
  BY DEF copy_file, Goes
<1>3. /\ file[t] \in File /\ ref[file[t]] > 0
      /\ \A u \in Task : Opens(u) /\ file[u] # NoFile => file[u] # file[t]
      /\ open_count[dev_id[file[t]]] > 0 /\ minor[dev_id[file[t]]] = asked[file[t]]
      /\ ref' \in [File -> Nat] /\ raced' \subseteq File
      /\ \A g \in File : ref'[g] > 0 <=> ref[g] > 0
      /\ \A g \in File : g # file[t] => ref'[g] = ref[g]
  BY <1>1, <1>2, CountsPositive
<1>4. /\ ~Opens(t) /\ ~Opens(t)' /\ ~Holds(t)' /\ pc'[t] = "copy"
      /\ \A u \in Task : u # t => Holds(u)' = Holds(u) /\ pc'[u] = pc[u]
      /\ \A u \in Task : Copies(u)' = Copies(u) /\ Opens(u)' = Opens(u)
      /\ \A u \in Task : pc[u] = "new" => pc'[u] = "new"
  BY <1>2 DEF Opens, Copies, Holds, OpenTypeOK
<1>5. PICK c \in Task, i \in Fd : /\ c = child[t] /\ i = fd[t] /\ pc[c] = "new" /\ c # t
                                 /\ ~Opens(c) /\ ~Holds(c)
  BY <1>2 DEF CallsRight, ChildrenApart, Copies, Opens, Holds
<1>6. /\ \A u \in Task : /\ file'[u] = IF u = t THEN NoFile ELSE file[u]
                         /\ fd'[u] = IF u = t THEN i + 1 ELSE fd[u]
      /\ \A u \in Task, j \in Fd :
           file_table'[u][j] = IF u = c /\ j = i THEN file[t] ELSE file_table[u][j]
  BY <1>2, <1>5 DEF OpenTypeOK
<1>7. OpenTypeOK'
  <2>1. i + 1 \in NoFd..FdCount
    BY FilesAssumption DEF Fd, NoFd
  <2>2. fd' \in [Task -> NoFd..FdCount]
    BY <1>2, <1>5, <2>1 DEF OpenTypeOK
  <2>3. [file_table[c] EXCEPT ![i] = file[t]] \in [Fd -> File \cup {NoFile}]
    BY <1>3 DEF OpenTypeOK
  <2>4. file_table' \in [Task -> [Fd -> File \cup {NoFile}]]
    BY <1>2, <1>5, <2>3 DEF OpenTypeOK
  <2> QED BY <1>1, <1>2, <1>3, <2>2, <2>4 DEF OpenTypeOK
<1>8. CallsRight'
  <2>1. i + 1 \in 0..FdCount
    BY FilesAssumption DEF Fd
  <2>2. ASSUME NEW u \in Task, u # c PROVE \A j \in Fd : file_table'[u][j] = file_table[u][j]
    BY <1>6, <2>2
  <2>3. Opens(c) = FALSE /\ pc'[c] = "new"
    BY <1>4, <1>5
  <2> SUFFICES ASSUME NEW u \in Task
               PROVE  /\ ~Holds(u)' => file'[u] = NoFile /\ (pc'[u] # "copy" => fd'[u] = NoFd)
                      /\ pc'[u] \in {"dup", "inc_ref"} =>
                           file'[u] # NoFile /\ \E j \in Fd : file_table'[u][j] = file'[u]
                      /\ pc'[u] = "inc_ref" => fd'[u] \in Fd /\ file_table'[u][fd'[u]] = file'[u]
                      /\ pc'[u] = "copy" => fd'[u] \in 0..FdCount
                      /\ Opens(u)' => fd'[u] \in Fd \cup {NoFd}
                      /\ Opens(u)' /\ fd'[u] # NoFd => file'[u] # NoFile /\ file_table'[u][fd'[u]] = file'[u]
                      /\ pc'[u] = "open_dev" /\ fd'[u] = NoFd => file'[u] = NoFile
    BY DEF CallsRight
  <2>4. CASE u = t
    BY <1>4, <1>6, <2>1, <2>4
  <2>5. CASE u = c
    BY <1>4, <1>5, <1>6, <2>3, <2>5 DEF CallsRight
  <2>6. CASE u # t /\ u # c
    BY <1>4, <1>6, <2>2, <2>6 DEF CallsRight
  <2> QED BY <2>4, <2>5, <2>6
<1>9. ChildrenApart'
  BY <1>1, <1>4 DEF ChildrenApart
<1>10. OpenedAlone'
  <2> SUFFICES ASSUME NEW u \in Task, Opens(u)', file'[u] # NoFile
               PROVE  /\ ref'[file'[u]] = 1
                      /\ \A v \in Task : file'[v] = file'[u] => v = u
                      /\ \A v \in Task, j \in Fd : file_table'[v][j] = file'[u] => v = u /\ j = fd'[u]
    BY DEF OpenedAlone
  <2>1. /\ u # t /\ Opens(u) /\ file'[u] = file[u] /\ fd'[u] = fd[u]
        /\ file[u] \in File /\ file[u] # file[t]
    BY <1>3, <1>4, <1>6 DEF OpenTypeOK
  <2> QED BY <1>3, <1>6, <2>1 DEF OpenedAlone
<1>11. FdsReach'
  <2> SUFFICES ASSUME NEW u \in Task, NEW j \in Fd, file_table'[u][j] # NoFile, ~(Opens(u)' /\ fd'[u] = j)
               PROVE  LET g == file_table'[u][j]
                      IN  ref'[g] > 0 /\ open_count[dev_id[g]] > 0 /\ minor[dev_id[g]] = asked[g]
    BY <1>1 DEF FdsReach
  <2>1. CASE u = c /\ j = i
    BY <1>3, <1>6, <2>1
  <2>2. CASE ~(u = c /\ j = i)
    <3>1. file_table'[u][j] = file_table[u][j] /\ file_table[u][j] \in File
      BY <1>6, <2>2 DEF OpenTypeOK
    <3>2. ~(Opens(u) /\ fd[u] = j)
      BY <1>4, <1>6
    <3> QED BY <1>3, <3>1, <3>2 DEF FdsReach
  <2> QED BY <2>1, <2>2
<1>12. \A m \in Tty : ReadyFiles(m)' = ReadyFiles(m)
  <2>1. ASSUME NEW g \in File
        PROVE  (\A u \in Task : file'[u] = g => ~Opens(u)') = (\A u \in Task : file[u] = g => ~Opens(u))
    BY <1>4, <1>6
  <2> QED BY <1>1, <1>3, <2>1 DEF ReadyFiles
<1> QED BY <1>1, <1>7, <1>8, <1>9, <1>10, <1>11, <1>12, DevicesStay
------------------------------------------------------------------------------
(* The calls that only change who is where: the beginning of a fork, which *)
(* takes a free slot, its end, which sets parent and child free, and exit. *)
LEMMA ForkStep ==
  ASSUME FilesInv, NEW t \in Task, NEW c \in Task, fork(t, c)
  PROVE  FilesInv'
<1> USE DEF FilesInv, Callers
<1>1. /\ pc[c] = "free" /\ pc[t] = "user" /\ c # t
      /\ pc' = [pc EXCEPT ![t] = "copy", ![c] = "new"]
      /\ child' = [child EXCEPT ![t] = c] /\ fd' = [fd EXCEPT ![t] = 0]
      /\ UNCHANGED << ref, dev_id, file_table, open_count, minor, file, num, val, asked, left, raced, unfiled >>
  BY DEF fork, fileVars, devVars, pastVars
<1>2. \A u \in Task : /\ pc'[u] = IF u = c THEN "new" ELSE IF u = t THEN "copy" ELSE pc[u]
                      /\ child'[u] = IF u = t THEN c ELSE child[u]
                      /\ fd'[u] = IF u = t THEN 0 ELSE fd[u]
  BY <1>1 DEF OpenTypeOK
<1>3. /\ ~Holds(t) /\ ~Holds(c) /\ ~Copies(t) /\ ~Copies(c) /\ Copies(t)' /\ ~Copies(c)'
      /\ \A u \in Task : Opens(u)' = Opens(u) /\ Holds(u)' = Holds(u)
      /\ \A u \in Task : u # t => Copies(u)' = Copies(u)
      /\ \A u \in Task : Opens(u) => u # t
  <2>0. pc[c] = "free" /\ pc[t] = "user" /\ c # t
    BY <1>1
  <2>1. /\ ~Holds(t) /\ ~Holds(c) /\ ~Copies(t) /\ ~Copies(c)
        /\ \A u \in Task : Opens(u) => u # t
    BY <2>0 DEF Holds, Opens, Copies
  <2>2. Copies(t)' /\ ~Copies(c)'
    BY <2>0, <1>2 DEF Copies
  <2>3. \A u \in Task : Opens(u)' = Opens(u) /\ Holds(u)' = Holds(u)
    BY <2>0, <1>2 DEF Holds, Opens
  <2>4. \A u \in Task : u # t => Copies(u)' = Copies(u)
    BY <2>0, <1>2 DEF Copies
  <2> QED BY <2>1, <2>2, <2>3, <2>4
<1>4. OpenTypeOK'
  <2>1. 0 \in NoFd..FdCount
    BY FilesAssumption DEF NoFd
  <2> QED BY <1>1, <2>1 DEF OpenTypeOK
<1>5. CallsRight'
  <2>1. 0 \in 0..FdCount
    BY FilesAssumption
  <2>2. pc'[t] = "copy" /\ fd'[t] \in 0..FdCount /\ pc'[c] = "new" /\ fd'[c] = fd[c]
    BY <1>1, <1>2, <2>1
  <2>3. \A u \in Task : u # t /\ u # c => pc'[u] = pc[u] /\ fd'[u] = fd[u]
    BY <1>2
  <2>4. ~Opens(t) /\ ~Opens(c)
    BY <1>3 DEF Holds
  <2> QED BY ZenonT(60), <1>1, <1>3, <2>2, <2>3, <2>4 DEF CallsRight
<1>6. ChildrenApart'
  <2>1. \A u \in Task : Copies(u) => child[u] # c
    BY <1>1 DEF ChildrenApart
  <2>2. ASSUME NEW u \in Task, Copies(u)' PROVE child'[u] \in Task /\ pc'[child'[u]] = "new"
    <3>1. CASE u = t
      BY <1>2, <3>1
    <3>2. CASE u # t
      <4>1. Copies(u) /\ child'[u] = child[u]
        BY <1>2, <1>3, <2>2, <3>2
      <4>2. child[u] \in Task /\ pc[child[u]] = "new"
        BY <4>1 DEF ChildrenApart
      <4> QED BY <1>1, <1>2, <4>1, <4>2
    <3> QED BY <3>1, <3>2
  <2>3. ASSUME NEW u \in Task, NEW v \in Task, Copies(u)', Copies(v)', child'[u] = child'[v] PROVE u = v
    BY <1>2, <1>3, <2>1, <2>3 DEF ChildrenApart
  <2> QED BY <2>2, <2>3 DEF ChildrenApart
<1>7. OpenedAlone'
  BY <1>1, <1>2, <1>3 DEF OpenedAlone
<1>8. FdsReach'
  BY <1>1, <1>2, <1>3 DEF FdsReach
<1>9. \A m \in Tty : ReadyFiles(m)' = ReadyFiles(m)
  BY <1>1, <1>3 DEF ReadyFiles
<1> QED BY <1>1, <1>4, <1>5, <1>6, <1>7, <1>8, <1>9, DevicesStay

(* The end of sys_fork.                                                    *)
LEMMA ForkEndsStep ==
  ASSUME FilesInv, NEW t \in Task, fork_ends(t)
  PROVE  FilesInv'
<1> USE DEF FilesInv, Callers
<1>1. PICK c \in Task : c = child[t] /\ pc[c] = "new" /\ pc[t] = "copy" /\ c # t
  BY DEF fork_ends, ChildrenApart, Copies
<1>2. /\ pc' = [pc EXCEPT ![t] = "user", ![c] = "user"]
      /\ child' = [child EXCEPT ![t] = NoTask] /\ fd' = [fd EXCEPT ![t] = NoFd]
      /\ UNCHANGED << ref, dev_id, file_table, open_count, minor, file, num, val, asked, left, raced, unfiled >>
  BY <1>1 DEF fork_ends, fileVars, devVars, pastVars
<1>3. \A u \in Task : /\ pc'[u] = IF u = c \/ u = t THEN "user" ELSE pc[u]
                      /\ child'[u] = IF u = t THEN NoTask ELSE child[u]
                      /\ fd'[u] = IF u = t THEN NoFd ELSE fd[u]
  BY <1>1, <1>2 DEF OpenTypeOK
<1>4. /\ ~Holds(t) /\ ~Holds(c) /\ Copies(t) /\ ~Copies(c) /\ ~Copies(t)'
      /\ \A u \in Task : Opens(u)' = Opens(u) /\ Holds(u)' = Holds(u)
      /\ \A u \in Task : u # t => Copies(u)' = Copies(u)
      /\ \A u \in Task : Opens(u) => u # t
  BY <1>1, <1>3 DEF Holds, Opens, Copies
<1>5. OpenTypeOK'
  <2>1. NoFd \in NoFd..FdCount
    BY FilesAssumption DEF NoFd
  <2> QED BY <1>2, <2>1 DEF OpenTypeOK
<1>6. CallsRight'
  <2>1. /\ file[t] = NoFile /\ file[c] = NoFile /\ fd[c] = NoFd
        /\ pc'[t] = "user" /\ pc'[c] = "user" /\ fd'[t] = NoFd /\ fd'[c] = NoFd
        /\ ~Opens(t) /\ ~Opens(c)
    BY <1>1, <1>3, <1>4 DEF CallsRight, Holds
  <2>2. \A u \in Task : u # t /\ u # c => pc'[u] = pc[u] /\ fd'[u] = fd[u]
    BY <1>3
  <2> QED BY ZenonT(60), <1>2, <1>4, <2>1, <2>2 DEF CallsRight
<1>7. ChildrenApart'
  <2>1. \A u \in Task : u # t /\ Copies(u) => child[u] # c /\ child[u] # t
    BY <1>1, <1>4 DEF ChildrenApart
  <2> QED BY <1>3, <1>4, <2>1 DEF ChildrenApart
<1>8. OpenedAlone'
  BY <1>2, <1>3, <1>4 DEF OpenedAlone
<1>9. FdsReach'
  BY <1>2, <1>3, <1>4 DEF FdsReach
<1>10. \A m \in Tty : ReadyFiles(m)' = ReadyFiles(m)
  BY <1>2, <1>4 DEF ReadyFiles
<1> QED BY <1>2, <1>5, <1>6, <1>7, <1>8, <1>9, <1>10, DevicesStay

(* sys_exit drops the descriptors.                                         *)
LEMMA ExitStep ==
  ASSUME FilesInv, NEW t \in Task, exit(t)
  PROVE  FilesInv'
<1> USE DEF FilesInv, Callers
<1>1. /\ pc[t] = "user" /\ pc' = [pc EXCEPT ![t] = "free"]
      /\ file_table' = [file_table EXCEPT ![t] = NoFiles]
      /\ UNCHANGED << ref, dev_id, open_count, minor, file, fd, num, val, child, asked, raced, unfiled >>
  BY DEF exit, Goes, devVars, callVars
<1>2. \A u \in Task : /\ pc'[u] = IF u = t THEN "free" ELSE pc[u]
                      /\ \A i \in Fd : file_table'[u][i] = IF u = t THEN NoFile ELSE file_table[u][i]
  BY <1>1 DEF OpenTypeOK, NoFiles
<1>3. /\ ~Holds(t) /\ ~Copies(t)
      /\ \A u \in Task : Opens(u)' = Opens(u) /\ Holds(u)' = Holds(u) /\ Copies(u)' = Copies(u)
  BY <1>1, <1>2 DEF Holds, Opens, Copies
<1>4. OpenTypeOK'
  <2>1. \A f \in File : Cardinality({ i \in Fd : file_table[t][i] = f }) \in Nat
    <3>1. IsFiniteSet(Fd)
      BY FilesAssumption, FS_Interval DEF Fd
    <3>2. \A f \in File : IsFiniteSet({ i \in Fd : file_table[t][i] = f })
      BY <3>1, FS_Subset
    <3> QED BY <3>2, FS_CardinalityType
  <2>2. left' \in [File -> Nat]
    <3>1. left \in [File -> Nat]
          /\ left' = [f \in File |-> left[f] + Cardinality({ i \in Fd : file_table[t][i] = f })]
      BY DEF exit, OpenTypeOK
    <3>2. \A f \in File : left[f] + Cardinality({ i \in Fd : file_table[t][i] = f }) \in Nat
      BY <2>1, <3>1
    <3> QED BY <3>1, <3>2
  <2>3. NoFiles \in [Fd -> File \cup {NoFile}]
    BY DEF NoFiles
  <2> QED BY <1>1, <2>2, <2>3 DEF OpenTypeOK
<1>5. CallsRight'
  <2>1. ASSUME NEW u \in Task, u # t PROVE \A i \in Fd : file_table'[u][i] = file_table[u][i]
    BY <1>2, <2>1
  <2> QED BY <1>1, <1>2, <1>3, <2>1 DEF CallsRight, Holds, Opens
<1>6. ChildrenApart'
  BY <1>1, <1>2, <1>3 DEF ChildrenApart
<1>7. OpenedAlone'
  BY <1>1, <1>2, <1>3 DEF OpenedAlone, OpenTypeOK
<1>8. FdsReach'
  BY <1>1, <1>2, <1>3 DEF FdsReach
<1>9. \A m \in Tty : ReadyFiles(m)' = ReadyFiles(m)
  BY <1>1, <1>3 DEF ReadyFiles
<1> QED BY <1>1, <1>4, <1>5, <1>6, <1>7, <1>8, <1>9, DevicesStay

(* The steps of a load and the calls on the image.                         *)
Loads(t) ==
  \/ read_disk(t) \/ open_image(t) \/ image_call(t)
  \/ read_elf_header(t) \/ seek_header(t) \/ read_header(t)
  \/ seek_segment(t) \/ read_segment(t) \/ load_ends(t)

(* All of them are such steps.                                             *)
LEMMA LoadStep ==
  ASSUME FilesInv, NEW t \in Task, Loads(t)
  PROVE  FilesInv'
<1>1. UNCHANGED << fileVars, devVars, callVars, pastVars >>
  BY DEF Loads, read_disk, open_image, image_call, read_elf_header, seek_header, read_header,
         seek_segment, read_segment, load_ends
<1>2. pc' = pc \/ \E to \in Elsewhere : pc[t] \in Elsewhere /\ pc' = [pc EXCEPT ![t] = to]
  BY DEF Loads, read_disk, open_image, image_call, read_elf_header, seek_header, read_header,
         seek_segment, read_segment, load_ends, Goes, Elsewhere, Loading
<1> QED BY <1>1, <1>2, QuietStep
------------------------------------------------------------------------------
(* So every step of the system keeps the invariant.                        *)
LEMMA NextHolds == FilesInv /\ [Next]_vars => FilesInv'
<1> SUFFICES ASSUME FilesInv, [Next]_vars PROVE FilesInv'
  OBVIOUS
<1>1. ASSUME NEW t \in Task, Proceeds(t) PROVE FilesInv'
  BY <1>1, OpenEndsStep, OpenDevFailedStep, OpenFailedStep, DupEndsStep, FileIncRefStep,
     CopyFileStep, ForkEndsStep, LoadStep DEF Proceeds, Loads
<1>2. ASSUME NEW t \in Task, Begins(t) PROVE FilesInv'
  BY <1>2, OpenStep, DupStep, ForkStep, ExitStep, LoadStep DEF Begins, Loads
<1>3. CASE UNCHANGED vars
  BY <1>3, QuietStep DEF vars
<1> QED BY <1>1, <1>2, <1>3 DEF Next, Rest

(***************************************************************************)
(* The inductive invariant of files and devices: where every call is and   *)
(* what it holds, every fork with a child of its own, and what sys_open    *)
(* has taken and not yet made ready belonging to it alone.                 *)
(***************************************************************************)
THEOREM FilesInvariant == Spec => []FilesInv
<1> QED BY InitHolds, NextHolds, PTL DEF Spec

------------------------------------------------------------------------------
(***************************************************************************)
(* A descriptor was opened for the terminal that its file was opened for,  *)
(* once sys_open is through.                                               *)
(***************************************************************************)
Ready(t, i) == file_table[t][i] # NoFile /\ ~(Opens(t) /\ fd[t] = i)
OpenedType == opened \in [Task -> [Fd -> 0..NoTty]]
OpenedInv ==
  /\ OpenedType
  /\ \A t \in Task, i \in Fd : Ready(t, i) => opened[t][i] = asked[file_table[t][i]]

(* Most steps make no descriptor ready.                                    *)
LEMMA OpenedStays ==
  ASSUME OpenedInv, UNCHANGED << asked, opened >>,
         \A t \in Task, i \in Fd : Ready(t, i)' => Ready(t, i) /\ file_table'[t][i] = file_table[t][i]
  PROVE  OpenedInv'
BY DEF OpenedInv, OpenedType

(* These do.                                                               *)
LEMMA OpenedQuiet ==
  ASSUME FilesInv, OpenedInv, NEW t \in Task,
         \/ (\E n \in 0..TooShort : open(t, n)) \/ open_dev_failed(t) \/ open_failed(t) \/ dup_ends(t)
         \/ (\E c \in Task : fork(t, c)) \/ file_inc_ref(t) \/ fork_ends(t) \/ Loads(t)
  PROVE  OpenedInv'
<1> USE DEF FilesInv, OpenTypeOK
<1>1. UNCHANGED << asked, opened >>
  BY DEF open, open_dev_failed, open_failed, dup_ends, fork, file_inc_ref, fork_ends, Loads, read_disk,
         open_image, image_call, read_elf_header, seek_header, read_header, seek_segment, read_segment,
         load_ends, pastVars
<1> SUFFICES ASSUME NEW u \in Task, NEW j \in Fd, Ready(u, j)'
             PROVE  Ready(u, j) /\ file_table'[u][j] = file_table[u][j]
  BY <1>1, OpenedStays
<1>2. CASE \E n \in 0..TooShort : open(t, n)
  <2>1. pc[t] = "user" /\ \E to \in {"open_dev", "open_failed"} : pc' = [pc EXCEPT ![t] = to]
    BY <1>2 DEF open, Goes
  <2>2. u # t => pc'[u] = pc[u] /\ fd'[u] = fd[u] /\ file_table'[u][j] = file_table[u][j]
    BY <1>2, <2>1 DEF open, fileVars
  <2>3. u = t => file_table'[t][j] = file_table[t][j] \/ (Opens(t)' /\ fd'[t] = j)
    <3>1. Opens(t)'
      BY <2>1 DEF Opens
    <3>2. \/ file_table' = file_table
          \/ \E f \in File, i \in Fd : file_table' = [file_table EXCEPT ![t][i] = f] /\ fd' = [fd EXCEPT ![t] = i]
      BY <1>2 DEF open, fileVars
    <3> QED BY <3>1, <3>2
  <2> QED BY <2>1, <2>2, <2>3 DEF Ready, Opens
<1>3. CASE open_failed(t)
  <2>1. /\ pc[t] = "open_failed" /\ pc' = [pc EXCEPT ![t] = "user"] /\ fd' = [fd EXCEPT ![t] = NoFd]
        /\ file_table' = [file_table EXCEPT ![t] = [i \in Fd |-> IF i = fd[t] THEN NoFile ELSE file_table[t][i]]]
    BY <1>3 DEF open_failed, Returns, Goes
  <2>2. u # t => pc'[u] = pc[u] /\ fd'[u] = fd[u] /\ file_table'[u][j] = file_table[u][j]
    BY <2>1
  <2>3. u = t => file_table'[t][j] = IF j = fd[t] THEN NoFile ELSE file_table[t][j]
    BY <2>1
  <2> QED BY <2>2, <2>3 DEF Ready, Opens
<1>4. ASSUME file_table' = file_table, Opens(u)' <=> Opens(u), Opens(u) => fd'[u] = fd[u]
      PROVE  Ready(u, j) /\ file_table'[u][j] = file_table[u][j]
  BY <1>4 DEF Ready
<1>5. CASE open_dev_failed(t)
  <2>1. /\ pc[t] = "open_dev" /\ pc' = [pc EXCEPT ![t] = "open_failed"]
        /\ UNCHANGED << file_table, fd >>
    BY <1>5 DEF open_dev_failed, Goes, fileVars, callVars
  <2> QED BY <1>4, <2>1 DEF Opens
<1>6. CASE dup_ends(t)
  <2>1. /\ pc[t] = "dup" /\ pc' = [pc EXCEPT ![t] = "user"] /\ fd' = [fd EXCEPT ![t] = NoFd]
        /\ UNCHANGED file_table
    BY <1>6 DEF dup_ends, Returns, Goes
  <2> QED BY <1>4, <2>1 DEF Opens
<1>7. CASE \E c \in Task : fork(t, c)
  <2>1. PICK c \in Task : /\ pc[t] = "user" /\ pc[c] = "free" /\ pc' = [pc EXCEPT ![t] = "copy", ![c] = "new"]
                          /\ fd' = [fd EXCEPT ![t] = 0] /\ UNCHANGED file_table
    BY <1>7 DEF fork, fileVars
  <2>2. Opens(u)' <=> Opens(u)
    BY <2>1 DEF Opens
  <2>3. Opens(u) => u # t
    BY <2>1 DEF Opens
  <2> QED BY <1>4, <2>1, <2>2, <2>3
<1>8. CASE file_inc_ref(t)
  <2>1. /\ pc[t] = "copy" /\ pc' = [pc EXCEPT ![t] = "inc_ref"] /\ UNCHANGED file_table
        /\ \E i \in Fd : fd' = [fd EXCEPT ![t] = i]
    BY <1>8 DEF file_inc_ref, Goes, fileVars, ToCopy
  <2>2. (Opens(u)' <=> Opens(u)) /\ (Opens(u) => u # t)
    BY <2>1 DEF Opens
  <2> QED BY <1>4, <2>1, <2>2
<1>9. CASE fork_ends(t)
  <2>1. /\ pc[t] = "copy" /\ pc' = [pc EXCEPT ![t] = "user", ![child[t]] = "user"]
        /\ fd' = [fd EXCEPT ![t] = NoFd] /\ UNCHANGED file_table
    BY <1>9 DEF fork_ends, fileVars
  <2>2. child[t] \in Task /\ pc[child[t]] = "new"
    BY <2>1 DEF Callers, ChildrenApart, Copies
  <2>3. Opens(u)' <=> Opens(u)
    BY <2>1, <2>2 DEF Opens
  <2>4. Opens(u) => u # t
    BY <2>1 DEF Opens
  <2> QED BY <1>4, <2>1, <2>3, <2>4
<1>10. CASE Loads(t)
  <2>1. UNCHANGED << file_table, fd >>
    BY <1>10 DEF Loads, read_disk, open_image, image_call, read_elf_header, seek_header, read_header,
           seek_segment, read_segment, load_ends, fileVars, callVars
  <2>2. pc' = pc \/ \E to \in Elsewhere : pc[t] \in Elsewhere /\ pc' = [pc EXCEPT ![t] = to]
    BY <1>10 DEF Loads, read_disk, open_image, image_call, read_elf_header, seek_header, read_header,
           seek_segment, read_segment, load_ends, Goes, Elsewhere, Loading
  <2>3. Opens(u)' <=> Opens(u)
    BY <2>2 DEF Opens, Elsewhere, Loading
  <2> QED BY <1>4, <2>1, <2>3
<1> QED BY <1>2, <1>3, <1>5, <1>6, <1>7, <1>8, <1>9, <1>10

(* sys_open makes its file ready: nobody else has a descriptor for it.     *)
LEMMA OpenedEnds ==
  ASSUME FilesInv, OpenedInv, NEW t \in Task, open_ends(t)
  PROVE  OpenedInv'
<1> USE DEF FilesInv, OpenTypeOK
<1>1. /\ pc[t] = "open_dev" /\ pc' = [pc EXCEPT ![t] = "user"] /\ fd' = [fd EXCEPT ![t] = NoFd]
      /\ num[t] # TooShort /\ file_table' = file_table
  BY DEF open_ends, Returns, Goes
<1>2. \/ /\ file[t] # NoFile
         /\ asked' = [asked EXCEPT ![file[t]] = num[t]]
         /\ opened' = [opened EXCEPT ![t][fd[t]] = num[t]]
      \/ /\ file[t] = NoFile
         /\ UNCHANGED << asked, opened >>
  BY DEF open_ends
<1>3. Opens(t) /\ fd[t] \in Fd \cup {NoFd}
  BY <1>1 DEF Callers, CallsRight, Opens
<1>4. CASE file[t] = NoFile
  <2>1. \A i \in Fd : fd[t] # i
    BY <1>3, <1>4, NoFdNotFd DEF Callers, CallsRight
  <2>2. ASSUME NEW u \in Task, NEW j \in Fd, Ready(u, j)' PROVE Ready(u, j)
    <3>1. CASE u = t
      BY <1>1, <2>1, <2>2, <3>1 DEF Ready
    <3>2. CASE u # t
      BY <1>1, <2>2, <3>2 DEF Ready, Opens
    <3> QED BY <3>1, <3>2
  <2> QED BY <1>1, <1>2, <1>4, <2>2, OpenedStays
<1>5. CASE file[t] # NoFile
  <2>1. PICK f \in File, i \in Fd, n \in 0..NoTty :
          f = file[t] /\ i = fd[t] /\ n = num[t] /\ file_table[t][i] = f
    <3>1. file[t] \in File
      BY <1>5
    <3>2. num[t] \in 0..NoTty
      <4>1. num[t] \in 0..TooShort
        OBVIOUS
      <4> QED BY <1>1, <4>1, FilesAssumption DEF TooShort, NoTty
    <3>3. fd[t] # NoFd
      BY <1>1, <1>5 DEF Callers, CallsRight
    <3> QED BY <1>3, <3>1, <3>2, <3>3 DEF Callers, CallsRight
  <2>2. asked' = [asked EXCEPT ![f] = n] /\ opened' = [opened EXCEPT ![t][i] = n]
    BY <1>2, <1>5, <2>1
  <2>3. OpenedType'
    BY <2>2 DEF OpenedInv, OpenedType
  <2>4. ASSUME NEW u \in Task, NEW j \in Fd, Ready(u, j)' PROVE opened'[u][j] = asked'[file_table'[u][j]]
    <3>1. CASE u = t /\ j = i
      BY <1>1, <2>1, <2>2, <3>1 DEF OpenedInv, OpenedType
    <3>2. CASE ~(u = t /\ j = i)
      <4>1. file_table[u][j] # f
        BY <1>3, <1>5, <2>1, <3>2 DEF Callers, OpenedAlone
      <4>2. Ready(u, j)
        <5>1. CASE u = t
          BY <1>1, <2>1, <2>4, <3>2, <5>1 DEF Ready
        <5>2. CASE u # t
          BY <1>1, <2>4, <5>2 DEF Ready, Opens
        <5> QED BY <5>1, <5>2
      <4>3. opened'[u][j] = opened[u][j]
        BY <2>2, <3>2 DEF OpenedInv, OpenedType
      <4>4. file_table[u][j] \in File
        BY <4>2 DEF Ready
      <4>5. asked'[file_table[u][j]] = asked[file_table[u][j]]
        BY <2>2, <4>1, <4>4
      <4> QED BY <1>1, <4>2, <4>3, <4>5 DEF OpenedInv
    <3> QED BY <3>1, <3>2
  <2> QED BY <2>3, <2>4 DEF OpenedInv
<1> QED BY <1>4, <1>5

(* A descriptor that is copied, by sys_dup or for a child, is as ready.    *)
LEMMA OpenedCopied ==
  ASSUME FilesInv, OpenedInv, NEW t \in Task, NEW i \in Fd, Ready(t, i),
         NEW c \in Task, NEW j \in Fd,
         file_table' = [file_table EXCEPT ![c][j] = file_table[t][i]],
         opened' = [opened EXCEPT ![c][j] = opened[t][i]], asked' = asked,
         \A u \in Task : Opens(u)' => Opens(u) /\ fd'[u] = fd[u],
         \A u \in Task : Opens(u) => Opens(u)'
  PROVE  OpenedInv'
<1> USE DEF FilesInv, OpenTypeOK
<1>1. opened[t][i] \in 0..NoTty /\ opened[t][i] = asked[file_table[t][i]]
  BY DEF OpenedInv, OpenedType
<1>2. OpenedType'
  BY <1>1 DEF OpenedInv, OpenedType
<1>3. ASSUME NEW u \in Task, NEW k \in Fd, Ready(u, k)' PROVE opened'[u][k] = asked'[file_table'[u][k]]
  <2>1. CASE u = c /\ k = j
    BY <1>1, <2>1 DEF OpenedInv, OpenedType
  <2>2. CASE ~(u = c /\ k = j)
    <3>1. file_table'[u][k] = file_table[u][k]
      BY <2>2
    <3>2. opened'[u][k] = opened[u][k]
      BY <2>2 DEF OpenedInv, OpenedType
    <3>3. Ready(u, k)
      BY <1>3, <3>1 DEF Ready
    <3> QED BY <3>1, <3>2, <3>3 DEF OpenedInv
  <2> QED BY <2>1, <2>2
<1> QED BY <1>2, <1>3 DEF OpenedInv

LEMMA OpenedDup ==
  ASSUME FilesInv, OpenedInv, NEW t \in Task, NEW i \in Fd, dup(t, i)
  PROVE  OpenedInv'
<1> USE DEF FilesInv, OpenTypeOK
<1>1. PICK j \in Fd : /\ file_table[t][i] # NoFile
                      /\ pc[t] = "user" /\ pc' = [pc EXCEPT ![t] = "dup"]
                      /\ file_table' = [file_table EXCEPT ![t][j] = file_table[t][i]]
                      /\ opened' = [opened EXCEPT ![t][j] = opened[t][i]]
                      /\ UNCHANGED << fd, asked >>
  BY DEF dup, Goes
<1>2. Ready(t, i)
  BY <1>1 DEF Ready, Opens
<1>3. \A u \in Task : (Opens(u)' <=> Opens(u)) /\ fd'[u] = fd[u]
  BY <1>1 DEF Opens
<1> QED BY <1>1, <1>2, <1>3, OpenedCopied

LEMMA OpenedInherited ==
  ASSUME FilesInv, OpenedInv, NEW t \in Task, copy_file(t)
  PROVE  OpenedInv'
<1> USE DEF FilesInv, OpenTypeOK
<1>1. pc[t] = "inc_ref" /\ pc' = [pc EXCEPT ![t] = "copy"] /\ asked' = asked
  BY DEF copy_file, Goes
<1>2. fd[t] \in Fd /\ file_table[t][fd[t]] = file[t] /\ file[t] # NoFile
  BY <1>1 DEF Callers, CallsRight
<1>3. child[t] \in Task
  BY <1>1 DEF Callers, ChildrenApart, Copies
<1>4. PICK i \in Fd, c \in Task : i = fd[t] /\ c = child[t]
  BY <1>2, <1>3
<1>5. /\ file_table' = [file_table EXCEPT ![c][i] = file_table[t][i]]
      /\ opened' = [opened EXCEPT ![c][i] = opened[t][i]]
      /\ fd' = [fd EXCEPT ![t] = @ + 1]
  BY <1>2, <1>4 DEF copy_file
<1>6. Ready(t, i)
  BY <1>1, <1>2, <1>4 DEF Ready, Opens
<1>7. \A u \in Task : (Opens(u)' <=> Opens(u)) /\ (Opens(u) => u # t)
  BY <1>1 DEF Opens
<1>8. \A u \in Task : Opens(u) => fd'[u] = fd[u]
  BY <1>5, <1>7
<1> QED BY <1>1, <1>5, <1>6, <1>7, <1>8, OpenedCopied

(* sys_exit leaves no descriptor.                                          *)
LEMMA OpenedExit ==
  ASSUME FilesInv, OpenedInv, NEW t \in Task, exit(t)
  PROVE  OpenedInv'
<1> USE DEF FilesInv, OpenTypeOK
<1>1. /\ pc' = [pc EXCEPT ![t] = "free"] /\ file_table' = [file_table EXCEPT ![t] = NoFiles]
      /\ opened' = [opened EXCEPT ![t] = NotOpened] /\ UNCHANGED << fd, asked >>
  BY DEF exit, Goes, callVars
<1>2. NotOpened \in [Fd -> 0..NoTty]
  BY FilesAssumption DEF NotOpened, NoTty
<1>3. OpenedType'
  BY <1>1, <1>2 DEF OpenedInv, OpenedType
<1>4. ASSUME NEW u \in Task, NEW j \in Fd, Ready(u, j)' PROVE opened'[u][j] = asked'[file_table'[u][j]]
  <2>1. u # t
    BY <1>1, <1>4 DEF Ready, NoFiles
  <2>2. /\ opened'[u][j] = opened[u][j] /\ file_table'[u][j] = file_table[u][j]
        /\ pc'[u] = pc[u]
    BY <1>1, <2>1 DEF OpenedInv, OpenedType
  <2>3. Ready(u, j)
    BY <1>1, <1>4, <2>2 DEF Ready, Opens
  <2> QED BY <1>1, <2>2, <2>3 DEF OpenedInv
<1> QED BY <1>3, <1>4 DEF OpenedInv

(* So every step of the system keeps what descriptors were opened for.     *)
LEMMA NextOpened == FilesInv /\ OpenedInv /\ [Next]_vars => OpenedInv'
<1> SUFFICES ASSUME FilesInv, OpenedInv, [Next]_vars PROVE OpenedInv'
  OBVIOUS
<1>1. ASSUME NEW t \in Task, Proceeds(t) PROVE OpenedInv'
  BY <1>1, OpenedEnds, OpenedQuiet, OpenedInherited DEF Proceeds, Loads
<1>2. ASSUME NEW t \in Task, Begins(t) PROVE OpenedInv'
  BY <1>2, OpenedQuiet, OpenedDup, OpenedExit DEF Begins, Loads
<1>3. CASE UNCHANGED vars
  <2>1. UNCHANGED << asked, opened, file_table, pc, fd >>
    BY <1>3 DEF vars, fileVars, callVars, pastVars
  <2> QED BY <2>1, OpenedStays DEF Ready, Opens
<1> QED BY <1>1, <1>2, <1>3 DEF Next, Rest

LEMMA InitOpened == Init => OpenedInv
<1> SUFFICES ASSUME Init PROVE OpenedInv
  OBVIOUS
<1>1. NotOpened \in [Fd -> 0..NoTty]
  BY FilesAssumption DEF NotOpened, NoTty
<1> QED BY <1>1 DEF Init, OpenedInv, OpenedType, Ready, NoFiles

(***************************************************************************)
(* A write reaches the terminal that its descriptor was opened for, by the *)
(* process or by the one it was inherited from, and a read the one that    *)
(* descriptor 0 was opened for: in every process the files they go to name *)
(* an open device of that terminal.  No two devices are open as the same   *)
(* terminal, and a device is open as often as there are files for it and   *)
(* opens that found the file table full.  This is so although sys_dup      *)
(* counts its reference without the mutex.                                 *)
(***************************************************************************)
THEOREM DescriptorsAlwaysReach == Spec => []DescriptorsReach
<1>1. FilesInv /\ OpenedInv => CallsReach
  <2> SUFFICES ASSUME FilesInv, OpenedInv, NEW t \in Task, pc[t] = "user"
               PROVE  \A i \in Fd :
                        /\ tty_write(t, i) # NoFile => Reaches(tty_write(t, i), opened[t][i])
                        /\ tty_read(t, i) # NoFile => Reaches(tty_read(t, i), opened[t][0])
    BY DEF CallsReach
  <2>1. 0 \in Fd
    BY FilesAssumption DEF Fd
  <2>2. ASSUME NEW i \in Fd, file_table[t][i] # NoFile PROVE Reaches(file_table[t][i], opened[t][i])
    <3>1. Ready(t, i)
      BY <2>2 DEF Ready, Opens
    <3>2. LET f == file_table[t][i] IN open_count[dev_id[f]] > 0 /\ minor[dev_id[f]] = asked[f]
      BY <3>1 DEF Ready, FilesInv, FdsReach
    <3>3. opened[t][i] = asked[file_table[t][i]]
      BY <3>1 DEF OpenedInv
    <3> QED BY <3>2, <3>3 DEF Reaches
  <2> QED BY <2>1, <2>2 DEF tty_read, tty_write
<1>2. FilesInv /\ OpenedInv => DescriptorsReach
  BY <1>1 DEF FilesInv, Devices, DescriptorsReach
<1> QED BY <1>2, InitHolds, NextHolds, InitOpened, NextOpened, PTL DEF Spec

(***************************************************************************)
(* While sys_open is between taking a file and making it ready, no other   *)
(* process has a descriptor for the file or a call about it, and it has    *)
(* one reference; so sys_open_failed may give it back to the table.        *)
(***************************************************************************)
THEOREM OpeningIsPrivate == Spec => []OpenedAlone
<1>1. FilesInv => OpenedAlone
  BY DEF FilesInv, Callers
<1> QED BY <1>1, FilesInvariant, PTL
------------------------------------------------------------------------------
(***************************************************************************)
(* The references.  Refs(f) is how many there should be: the descriptors,  *)
(* but for those sys_dup has yet to count, the file that sys_open has to   *)
(* give back without a descriptor, and the descriptors that have gone with *)
(* their process.                                                          *)
(***************************************************************************)
Refs(f) == Descriptors(f) - Uncounted(f) + Surplus(f) + left[f]

DupOf(t, f)    == pc[t] = "dup" /\ file[t] = f
FailedOf(t, f) == pc[t] = "open_failed" /\ file[t] = f /\ fd[t] = NoFd

(* The descriptors of a free slot, and those a fork has not come to, are   *)
(* free: the child's table is filled from the first on.                    *)
RowsFree ==
  /\ \A c \in Task : pc[c] = "free" => \A i \in Fd : file_table[c][i] = NoFile
  /\ \A t \in Task : Copies(t) => \A i \in Fd : i >= fd[t] => file_table[child[t]][i] = NoFile

(* No count of a file in sys_open has been written over: raced files are   *)
(* never free again.                                                       *)
OpenedAnew == \A t \in Task : Opens(t) /\ file[t] # NoFile => file[t] \notin raced

(* A count that was read has not been too high since.                      *)
SeenBefore == \A t \in Task : pc[t] \in {"dup", "inc_ref"} => val[t] <= Refs(file[t])

RefsInv == RefsRight /\ RowsFree /\ OpenedAnew /\ SeenBefore

(* The sets that are counted are finite.                                   *)
LEMMA CountedFinite ==
  IsFiniteSet(Task) /\ IsFiniteSet(Fd) /\ IsFiniteSet(Task \X Fd)
<1>1. TaskNr \in Int /\ FdCount - 1 \in Int
  BY FilesAssumption
<1>2. IsFiniteSet(1..TaskNr) /\ IsFiniteSet(0..(FdCount - 1))
  BY <1>1, FS_Interval
<1>3. IsFiniteSet(Task) /\ IsFiniteSet(Fd)
  BY <1>2 DEF Task, Fd
<1> QED BY <1>3, FS_Product

(* All these are numbers.                                                  *)
LEMMA CountsAreNumbers ==
  ASSUME NEW f
  PROVE  /\ Descriptors(f) \in Nat /\ Uncounted(f) \in Nat /\ Surplus(f) \in Nat
         /\ Descriptors(f)' \in Nat /\ Uncounted(f)' \in Nat /\ Surplus(f)' \in Nat
<1>1. IsFiniteSet(Task)
  BY CountedFinite
<1>2. IsFiniteSet(Task \X Fd)
  BY CountedFinite
<1>3. ASSUME NEW S \in SUBSET (Task \X Fd) PROVE Cardinality(S) \in Nat
  BY <1>2, FS_Subset, FS_CardinalityType
<1>4. ASSUME NEW S \in SUBSET Task PROVE Cardinality(S) \in Nat
  BY <1>1, FS_Subset, FS_CardinalityType
<1>5. Descriptors(f) \in Nat /\ Descriptors(f)' \in Nat
  BY <1>3 DEF Descriptors
<1>6. Uncounted(f) \in Nat /\ Uncounted(f)' \in Nat
  BY <1>4 DEF Uncounted
<1>7. Surplus(f) \in Nat /\ Surplus(f)' \in Nat
  BY <1>4 DEF Surplus
<1> QED BY <1>5, <1>6, <1>7

(* A set with one element more has a size greater by one.                  *)
LEMMA OneMore ==
  ASSUME NEW U, IsFiniteSet(U), NEW S \in SUBSET U, NEW T \in SUBSET U, NEW x \in U,
         x \notin S, T = S \cup {x}
  PROVE  Cardinality(T) = Cardinality(S) + 1
<1>1. IsFiniteSet(S)
  BY FS_Subset
<1> QED BY <1>1, FS_AddElement

(* One descriptor is written.                                              *)
LEMMA OneWritten ==
  ASSUME NEW t \in Task, NEW i \in Fd, NEW g,
         \A u \in Task, j \in Fd : file_table'[u][j] = IF u = t /\ j = i THEN g ELSE file_table[u][j],
         NEW f
  PROVE  /\ file_table[t][i] = f /\ g = f => Descriptors(f)' = Descriptors(f)
         /\ file_table[t][i] # f /\ g # f => Descriptors(f)' = Descriptors(f)
         /\ file_table[t][i] # f /\ g = f => Descriptors(f)' = Descriptors(f) + 1
         /\ file_table[t][i] = f /\ g # f => Descriptors(f)' = Descriptors(f) - 1
<1> DEFINE S == { x \in Task \X Fd : file_table[x[1]][x[2]] = f }
           T == { x \in Task \X Fd : file_table'[x[1]][x[2]] = f }
<1>1. IsFiniteSet(Task \X Fd)
  BY CountedFinite
<1>2. Descriptors(f) = Cardinality(S) /\ Descriptors(f)' = Cardinality(T)
  BY DEF Descriptors
<1>3. S \in SUBSET (Task \X Fd) /\ T \in SUBSET (Task \X Fd) /\ << t, i >> \in Task \X Fd
  OBVIOUS
<1>4. /\ << t, i >> \in S <=> file_table[t][i] = f
      /\ << t, i >> \in T <=> g = f
  OBVIOUS
<1>5. \A x \in Task \X Fd : x # << t, i >> => (x \in S <=> x \in T)
  <2>1. ASSUME NEW u \in Task, NEW j \in Fd, << u, j >> # << t, i >>
        PROVE  file_table'[u][j] = file_table[u][j]
    BY <2>1
  <2> QED BY <2>1
<1> HIDE DEF S, T
<1>6. Cardinality(S) \in Nat /\ Cardinality(T) \in Nat
  BY <1>1, <1>3, FS_Subset, FS_CardinalityType
<1>7. CASE (<< t, i >> \in S) = (<< t, i >> \in T)
  <2>1. S = T
    BY <1>3, <1>5, <1>7
  <2> QED BY <1>2, <1>4, <1>7, <2>1
<1>8. CASE << t, i >> \notin S /\ << t, i >> \in T
  <2>1. T = S \cup {<< t, i >>}
    BY <1>3, <1>5, <1>8
  <2>2. Cardinality(T) = Cardinality(S) + 1
    BY <1>1, <1>3, <1>8, <2>1, OneMore
  <2> QED BY <1>2, <1>4, <1>8, <2>2
<1>9. CASE << t, i >> \in S /\ << t, i >> \notin T
  <2>1. S = T \cup {<< t, i >>}
    BY <1>3, <1>5, <1>9
  <2>2. Cardinality(S) = Cardinality(T) + 1
    BY <1>1, <1>3, <1>9, <2>1, OneMore
  <2> QED BY <1>2, <1>4, <1>6, <1>9, <2>2
<1> QED BY <1>7, <1>8, <1>9

(* One caller moves.                                                       *)
LEMMA OneCalls ==
  ASSUME NEW t \in Task, NEW f,
         \A u \in Task : u # t =>
           DupOf(u, f)' = DupOf(u, f) /\ FailedOf(u, f)' = FailedOf(u, f)
  PROVE  /\ (DupOf(t, f) <=> DupOf(t, f)') => Uncounted(f)' = Uncounted(f)
         /\ ~DupOf(t, f) /\ DupOf(t, f)' => Uncounted(f)' = Uncounted(f) + 1
         /\ DupOf(t, f) /\ ~DupOf(t, f)' => Uncounted(f)' = Uncounted(f) - 1
         /\ (FailedOf(t, f) <=> FailedOf(t, f)') => Surplus(f)' = Surplus(f)
         /\ ~FailedOf(t, f) /\ FailedOf(t, f)' => Surplus(f)' = Surplus(f) + 1
         /\ FailedOf(t, f) /\ ~FailedOf(t, f)' => Surplus(f)' = Surplus(f) - 1
<1> DEFINE D == { u \in Task : DupOf(u, f) }
           E == { u \in Task : DupOf(u, f)' }
           F == { u \in Task : FailedOf(u, f) }
           G == { u \in Task : FailedOf(u, f)' }
<1>1. IsFiniteSet(Task)
  BY CountedFinite
<1>2. /\ Uncounted(f) = Cardinality(D) /\ Uncounted(f)' = Cardinality(E)
      /\ Surplus(f) = Cardinality(F) /\ Surplus(f)' = Cardinality(G)
  BY DEF Uncounted, Surplus, DupOf, FailedOf
<1>3. /\ D \in SUBSET Task /\ E \in SUBSET Task /\ F \in SUBSET Task /\ G \in SUBSET Task
      /\ \A u \in Task : u # t => (u \in D <=> u \in E) /\ (u \in F <=> u \in G)
      /\ (t \in D <=> DupOf(t, f)) /\ (t \in E <=> DupOf(t, f)')
      /\ (t \in F <=> FailedOf(t, f)) /\ (t \in G <=> FailedOf(t, f)')
  OBVIOUS
<1> HIDE DEF D, E, F, G
<1>4. Cardinality(E) \in Nat /\ Cardinality(G) \in Nat
  BY <1>1, <1>3, FS_Subset, FS_CardinalityType
<1>5. ASSUME NEW S \in SUBSET Task, NEW T \in SUBSET Task, Cardinality(T) \in Nat,
             \A u \in Task : u # t => (u \in S <=> u \in T)
      PROVE  /\ (t \in S <=> t \in T) => Cardinality(T) = Cardinality(S)
             /\ t \notin S /\ t \in T => Cardinality(T) = Cardinality(S) + 1
             /\ t \in S /\ t \notin T => Cardinality(T) = Cardinality(S) - 1
  <2>1. CASE t \in S <=> t \in T
    <3>1. S = T
      BY <1>5, <2>1
    <3> QED BY <2>1, <3>1
  <2>2. CASE t \notin S /\ t \in T
    <3>1. T = S \cup {t}
      BY <1>5, <2>2
    <3> QED BY <1>1, <2>2, <3>1, OneMore
  <2>3. CASE t \in S /\ t \notin T
    <3>1. S = T \cup {t}
      BY <1>5, <2>3
    <3>2. Cardinality(S) = Cardinality(T) + 1
      BY <1>1, <2>3, <3>1, OneMore
    <3> QED BY <1>5, <2>3, <3>2
  <2> QED BY <2>1, <2>2, <2>3
<1>6. /\ (t \in D <=> t \in E) => Cardinality(E) = Cardinality(D)
      /\ t \notin D /\ t \in E => Cardinality(E) = Cardinality(D) + 1
      /\ t \in D /\ t \notin E => Cardinality(E) = Cardinality(D) - 1
  BY <1>3, <1>4, <1>5
<1>7. /\ (t \in F <=> t \in G) => Cardinality(G) = Cardinality(F)
      /\ t \notin F /\ t \in G => Cardinality(G) = Cardinality(F) + 1
      /\ t \in F /\ t \notin G => Cardinality(G) = Cardinality(F) - 1
  BY <1>3, <1>4, <1>5
<1> QED BY <1>2, <1>3, <1>6, <1>7

RefRight(f) ==
  IF f \in raced THEN 1 <= ref[f] /\ ref[f] <= Refs(f) ELSE ref[f] = Refs(f)

(* RefsRight, in these words.                                              *)
LEMMA RefsRightIs ==
  /\ RefsRight <=> \A f \in File : RefRight(f)
  /\ RefsRight' <=> \A f \in File : RefRight(f)'
BY DEF RefsRight, RefRight, Refs

(* The references of a file remain when the descriptors, the callers who   *)
(* count it and those who give it back remain.                             *)
LEMMA RefsStay ==
  ASSUME UNCHANGED << file_table, left >>, NEW f,
         \A u \in Task : DupOf(u, f)' = DupOf(u, f) /\ FailedOf(u, f)' = FailedOf(u, f)
  PROVE  Refs(f)' = Refs(f)
<1>1. Descriptors(f)' = Descriptors(f)
  BY DEF Descriptors
<1>2. { u \in Task : DupOf(u, f)' } = { u \in Task : DupOf(u, f) }
  OBVIOUS
<1>3. { u \in Task : FailedOf(u, f)' } = { u \in Task : FailedOf(u, f) }
  OBVIOUS
<1>4. Uncounted(f)' = Uncounted(f)
  BY <1>2 DEF Uncounted, DupOf
<1>5. Surplus(f)' = Surplus(f)
  BY <1>3 DEF Surplus, FailedOf
<1> QED BY <1>1, <1>4, <1>5 DEF Refs

(* A step that counts nothing and takes or gives no file.                  *)
LEMMA CountsStay ==
  ASSUME FilesInv, RefsInv,
         UNCHANGED << ref, raced, left, file_table, file, val >>,
         \A u \in Task : /\ (pc[u] = "dup") = (pc'[u] = "dup")
                         /\ (pc[u] = "inc_ref") = (pc'[u] = "inc_ref")
                         /\ Opens(u)' = Opens(u),
         \A u \in Task, f \in File : FailedOf(u, f)' = FailedOf(u, f)
  PROVE  RefsRight' /\ OpenedAnew' /\ SeenBefore'
<1> USE DEF RefsInv
<1>1. \A u \in Task, f \in File : DupOf(u, f)' = DupOf(u, f)
  BY DEF DupOf
<1>2. ASSUME NEW f \in File PROVE Refs(f)' = Refs(f)
  BY <1>1, RefsStay
<1>3. ASSUME NEW f \in File PROVE RefRight(f)'
  <2>1. RefRight(f)
    BY RefsRightIs
  <2> QED BY <1>2, <2>1 DEF RefRight
<1>4. SeenBefore'
  <2>1. ASSUME NEW u \in Task, pc'[u] \in {"dup", "inc_ref"} PROVE val'[u] <= Refs(file[u])'
    <3>1. pc[u] \in {"dup", "inc_ref"}
      BY <2>1
    <3>2. file[u] \in File
      BY <3>1 DEF FilesInv, Callers, CallsRight, OpenTypeOK
    <3>3. val[u] <= Refs(file[u])
      BY <3>1 DEF SeenBefore
    <3>4. Refs(file[u])' = Refs(file[u])
      <4>1. PICK f \in File : f = file[u]
        BY <3>2
      <4> QED BY <1>2, <4>1
    <3> QED BY <3>3, <3>4
  <2> QED BY <2>1 DEF SeenBefore
<1> QED BY <1>3, <1>4, RefsRightIs DEF OpenedAnew

(* The rows of the free slots and of the children remain when nobody       *)
(* becomes free and the copies are those there were.                       *)
LEMMA RowsStay ==
  ASSUME RowsFree, UNCHANGED << file_table, child >>,
         \A u \in Task : pc'[u] = "free" => pc[u] = "free",
         \A u \in Task : Copies(u)' => Copies(u) /\ fd'[u] >= fd[u],
         fd \in [Task -> Int], fd' \in [Task -> Int]
  PROVE  RowsFree'
<1>1. ASSUME NEW u \in Task, Copies(u)', NEW i \in Fd, i >= fd'[u] PROVE file_table'[child'[u]][i] = NoFile
  <2>1. Copies(u) /\ fd'[u] >= fd[u] /\ fd[u] \in Int /\ fd'[u] \in Int /\ i \in Int
    BY <1>1, FilesAssumption DEF Fd
  <2>2. i >= fd[u]
    BY <1>1, <2>1
  <2> QED BY <2>1, <2>2 DEF RowsFree
<1> QED BY <1>1 DEF RowsFree

(* Descriptors are numbers.                                                *)
LEMMA FdsAreInts ==
  (OpenTypeOK => fd \in [Task -> Int]) /\ (OpenTypeOK' => fd' \in [Task -> Int])
<1>1. NoFd..FdCount \subseteq Int
  BY FilesAssumption DEF NoFd
<1> QED BY <1>1 DEF OpenTypeOK

(* The steps that files are nothing to.                                    *)
LEMMA QuietRefs ==
  ASSUME FilesInv, FilesInv', RefsInv,
         UNCHANGED << fileVars, devVars, callVars, pastVars >>,
         \/ pc' = pc
         \/ \E t \in Task, to \in Elsewhere : pc[t] \in Elsewhere /\ pc' = [pc EXCEPT ![t] = to]
  PROVE  RefsInv'
<1> USE DEF fileVars, callVars, pastVars, RefsInv
<1>1. \A u \in Task : /\ Opens(u)' = Opens(u) /\ Copies(u)' = Copies(u)
                      /\ \A p \in {"open_dev", "open_failed", "dup", "copy", "inc_ref", "free"} :
                           (pc[u] = p) = (pc'[u] = p)
  BY DEF Opens, Copies, Elsewhere, Loading, FilesInv, OpenTypeOK
<1>2. \A u \in Task, f \in File : FailedOf(u, f)' = FailedOf(u, f)
  BY <1>1 DEF FailedOf
<1>3. RefsRight' /\ OpenedAnew' /\ SeenBefore'
  BY <1>1, <1>2, CountsStay
<1>4. RowsFree'
  <2>1. fd \in [Task -> Int] /\ fd' \in [Task -> Int]
    BY FdsAreInts DEF FilesInv
  <2> QED BY <1>1, <2>1, RowsStay
<1> QED BY <1>3, <1>4

(* Without a device sys_open has its file to give back.                    *)
LEMMA OpenDevFailedRefs ==
  ASSUME FilesInv, FilesInv', RefsInv, NEW t \in Task, open_dev_failed(t)
  PROVE  RefsInv'
<1> USE DEF RefsInv
<1>1. /\ UNCHANGED << ref, raced, left, file_table, file, val, fd, child >>
      /\ pc[t] = "open_dev" /\ pc' = [pc EXCEPT ![t] = "open_failed"]
  BY DEF open_dev_failed, Goes, fileVars, callVars, pastVars
<1>2. \A u \in Task : /\ Opens(u)' = Opens(u) /\ Copies(u)' = Copies(u)
                      /\ \A p \in {"dup", "copy", "inc_ref", "free"} : (pc[u] = p) = (pc'[u] = p)
                      /\ u # t => pc'[u] = pc[u]
  BY <1>1 DEF Opens, Copies, FilesInv, OpenTypeOK
<1>3. \A u \in Task, f \in File : FailedOf(u, f)' = FailedOf(u, f)
  <2>1. fd[t] = NoFd => file[t] \notin File
    BY <1>1 DEF FilesInv, Callers, CallsRight, File, NoFile
  <2> QED BY <1>1, <1>2, <2>1 DEF FailedOf
<1>4. RefsRight' /\ OpenedAnew' /\ SeenBefore'
  BY <1>1, <1>2, <1>3, CountsStay
<1>5. RowsFree'
  <2>1. fd \in [Task -> Int] /\ fd' \in [Task -> Int]
    BY FdsAreInts DEF FilesInv
  <2> QED BY <1>1, <1>2, <2>1, RowsStay
<1> QED BY <1>4, <1>5

(* A fork begins, with a child whose descriptors are all free, and ends.   *)
LEMMA ForkRefs ==
  ASSUME FilesInv, RefsInv, NEW t \in Task, NEW c \in Task, fork(t, c)
  PROVE  RefsInv'
<1> USE DEF RefsInv
<1>1. /\ pc[c] = "free" /\ pc[t] = "user" /\ c # t
      /\ pc' = [pc EXCEPT ![t] = "copy", ![c] = "new"]
      /\ child' = [child EXCEPT ![t] = c] /\ fd' = [fd EXCEPT ![t] = 0]
      /\ UNCHANGED << ref, raced, left, file_table, file, val >>
  BY DEF fork, fileVars, pastVars
<1>2. \A u \in Task : /\ pc'[u] = IF u = c THEN "new" ELSE IF u = t THEN "copy" ELSE pc[u]
                      /\ child'[u] = IF u = t THEN c ELSE child[u]
                      /\ u # t => fd'[u] = fd[u]
  BY <1>1 DEF FilesInv, OpenTypeOK
<1>3. \A u \in Task : /\ Opens(u)' = Opens(u) /\ (Copies(u)' => u = t \/ Copies(u))
                      /\ (pc[u] = "dup") = (pc'[u] = "dup")
                      /\ (pc[u] = "inc_ref") = (pc'[u] = "inc_ref")
                      /\ (pc[u] = "open_failed") = (pc'[u] = "open_failed")
                      /\ pc'[u] = "free" => pc[u] = "free"
  <2>1. ASSUME NEW u \in Task, u # t, u # c PROVE pc'[u] = pc[u]
    BY <1>2, <2>1
  <2>2. pc[c] = "free" /\ pc'[c] = "new" /\ pc[t] = "user" /\ pc'[t] = "copy"
    BY <1>1, <1>2
  <2> QED BY <2>1, <2>2 DEF Opens, Copies
<1>4. \A u \in Task, f \in File : FailedOf(u, f)' = FailedOf(u, f)
  BY <1>1, <1>2, <1>3 DEF FailedOf
<1>5. RefsRight' /\ OpenedAnew' /\ SeenBefore'
  BY <1>1, <1>3, <1>4, CountsStay
<1>6. RowsFree'
  <2>1. \A i \in Fd : file_table[c][i] = NoFile
    BY <1>1 DEF RowsFree
  <2>2. ASSUME NEW u \in Task, Copies(u)', NEW i \in Fd, i >= fd'[u]
        PROVE  file_table'[child'[u]][i] = NoFile
    <3>1. CASE u = t
      <4>1. child'[u] = c
        BY <1>2, <3>1
      <4> QED BY <1>1, <2>1, <4>1
    <3>2. CASE u # t
      <4>1. Copies(u) /\ child'[u] = child[u] /\ fd'[u] = fd[u]
        BY <1>2, <1>3, <2>2, <3>2
      <4> QED BY <1>1, <2>2, <4>1 DEF RowsFree
    <3> QED BY <3>1, <3>2
  <2>3. ASSUME NEW u \in Task, pc'[u] = "free", NEW i \in Fd PROVE file_table'[u][i] = NoFile
    BY <1>1, <1>3, <2>3 DEF RowsFree
  <2> QED BY <2>2, <2>3 DEF RowsFree
<1> QED BY <1>5, <1>6

(* The end of sys_fork.                                                    *)
LEMMA ForkEndsRefs ==
  ASSUME FilesInv, RefsInv, NEW t \in Task, fork_ends(t)
  PROVE  RefsInv'
<1> USE DEF RefsInv
<1>1. PICK c \in Task : c = child[t] /\ pc[c] = "new" /\ pc[t] = "copy" /\ c # t
  BY DEF fork_ends, FilesInv, Callers, ChildrenApart, Copies
<1>2. /\ pc' = [pc EXCEPT ![t] = "user", ![c] = "user"]
      /\ child' = [child EXCEPT ![t] = NoTask] /\ fd' = [fd EXCEPT ![t] = NoFd]
      /\ UNCHANGED << ref, raced, left, file_table, file, val >>
  BY <1>1 DEF fork_ends, fileVars, pastVars
<1>3. \A u \in Task : /\ pc'[u] = IF u = c \/ u = t THEN "user" ELSE pc[u]
                      /\ u # t => child'[u] = child[u] /\ fd'[u] = fd[u]
  BY <1>1, <1>2 DEF FilesInv, OpenTypeOK
<1>4. \A u \in Task : /\ Opens(u)' = Opens(u) /\ (Copies(u)' => u # t /\ Copies(u))
                      /\ \A p \in {"dup", "inc_ref", "open_failed"} : (pc[u] = p) = (pc'[u] = p)
                      /\ pc'[u] = "free" => pc[u] = "free"
  BY <1>1, <1>3 DEF Opens, Copies
<1>5. \A u \in Task, f \in File : FailedOf(u, f)' = FailedOf(u, f)
  BY ZenonT(60), <1>1, <1>2, <1>3, <1>4 DEF FailedOf
<1>6. RefsRight' /\ OpenedAnew' /\ SeenBefore'
  BY <1>2, <1>4, <1>5, CountsStay
<1>7. RowsFree'
  <2>1. ASSUME NEW u \in Task, Copies(u)', NEW i \in Fd, i >= fd'[u]
        PROVE  file_table'[child'[u]][i] = NoFile
    <3>1. Copies(u) /\ child'[u] = child[u] /\ fd'[u] = fd[u]
      BY <1>3, <1>4, <2>1
    <3> QED BY <1>2, <2>1, <3>1 DEF RowsFree
  <2>2. ASSUME NEW u \in Task, pc'[u] = "free", NEW i \in Fd PROVE file_table'[u][i] = NoFile
    BY <1>2, <1>4, <2>2 DEF RowsFree
  <2> QED BY <2>1, <2>2 DEF RowsFree
<1> QED BY <1>6, <1>7
------------------------------------------------------------------------------
(* What a count should be is a number.                                     *)
LEMMA RefsAreInts ==
  ASSUME NEW f \in File
  PROVE  (OpenTypeOK => Refs(f) \in Int /\ left[f] \in Nat /\ ref[f] \in Nat)
         /\ (OpenTypeOK' => Refs(f)' \in Int)
<1>1. OpenTypeOK => left[f] \in Nat /\ ref[f] \in Nat
  BY DEF OpenTypeOK
<1>2. OpenTypeOK' => left'[f] \in Nat
  BY DEF OpenTypeOK
<1> QED BY <1>1, <1>2, CountsAreNumbers DEF Refs

(* What was seen remains true if no file that is being counted loses one.  *)
LEMMA SeenStays ==
  ASSUME FilesInv, FilesInv', SeenBefore,
         \A u \in Task : pc'[u] \in {"dup", "inc_ref"} =>
           \/ pc[u] \in {"dup", "inc_ref"} /\ file'[u] = file[u] /\ val'[u] = val[u]
           \/ \E f \in File : f = file'[u] /\ val'[u] <= Refs(f)',
         \A u \in Task, f \in File : pc[u] \in {"dup", "inc_ref"} /\ file[u] = f => Refs(f)' >= Refs(f)
  PROVE  SeenBefore'
<1>1. ASSUME NEW u \in Task, pc'[u] \in {"dup", "inc_ref"} PROVE val'[u] <= Refs(file[u])'
  <2>1. CASE \E f \in File : f = file'[u] /\ val'[u] <= Refs(f)'
    <3>1. PICK f \in File : f = file'[u] /\ val'[u] <= Refs(f)'
      BY <2>1
    <3> QED BY <3>1 DEF Refs, Descriptors, Uncounted, Surplus
  <2>2. CASE pc[u] \in {"dup", "inc_ref"} /\ file'[u] = file[u] /\ val'[u] = val[u]
    <3>1. PICK f \in File : f = file[u]
      BY <2>2 DEF FilesInv, Callers, CallsRight, OpenTypeOK
    <3>2. val[u] <= Refs(f) /\ Refs(f)' >= Refs(f)
      BY <2>2, <3>1 DEF SeenBefore
    <3>3. Refs(f) \in Int /\ Refs(f)' \in Int /\ val[u] \in Nat
      BY RefsAreInts DEF FilesInv, OpenTypeOK
    <3>4. val'[u] <= Refs(f)'
      BY <2>2, <3>2, <3>3
    <3> QED BY <2>2, <3>1, <3>4 DEF Refs, Descriptors, Uncounted, Surplus
  <2> QED BY <1>1, <2>1, <2>2
<1> QED BY <1>1 DEF SeenBefore

(* A file that is free, or in sys_open, has been given back whole.         *)
LEMMA FreeHasNone ==
  ASSUME FilesInv, RefsInv, NEW f \in FreeFiles
  PROVE  /\ f \in File /\ f \notin raced /\ left[f] = 0 /\ ref[f] = 0
         /\ Descriptors(f) = 0 /\ Uncounted(f) = 0 /\ Surplus(f) = 0
<1>1. f \in File /\ ref[f] = 0
  BY DEF FreeFiles
<1>2. \A u \in Task : file[u] # f /\ \A j \in Fd : file_table[u][j] # f
  BY FreeIsFree
<1>3. Descriptors(f) = 0
  <2>1. { x \in Task \X Fd : file_table[x[1]][x[2]] = f } = {}
    BY <1>2
  <2> QED BY <2>1, FS_EmptySet DEF Descriptors
<1>4. Uncounted(f) = 0
  <2>1. { u \in Task : pc[u] = "dup" /\ file[u] = f } = {}
    BY <1>2
  <2> QED BY <2>1, FS_EmptySet DEF Uncounted
<1>5. Surplus(f) = 0
  <2>1. { u \in Task : pc[u] = "open_failed" /\ file[u] = f /\ fd[u] = NoFd } = {}
    BY <1>2
  <2> QED BY <2>1, FS_EmptySet DEF Surplus
<1>6. left[f] \in Nat
  BY <1>1 DEF FilesInv, OpenTypeOK
<1>7. Refs(f) = left[f]
  BY <1>3, <1>4, <1>5, <1>6 DEF Refs
<1>8. RefRight(f)
  BY <1>1, RefsRightIs DEF RefsInv
<1>9. f \notin raced
  BY <1>1, <1>8 DEF RefRight
<1> QED BY <1>1, <1>3, <1>4, <1>5, <1>7, <1>8, <1>9 DEF RefRight

(* sys_open takes a file that has no descriptors.                          *)
LEMMA OpenRefs ==
  ASSUME FilesInv, FilesInv', RefsInv, NEW t \in Task, NEW n \in 0..TooShort, open(t, n)
  PROVE  RefsInv'
<1> USE DEF RefsInv
<1>1. UNCHANGED << val, child, left, raced >>
  BY DEF open, pastVars
<1>2. PICK to \in {"open_dev", "open_failed"} : pc[t] = "user" /\ pc' = [pc EXCEPT ![t] = to]
  BY DEF open, Goes
<1>3. /\ file[t] = NoFile /\ fd[t] = NoFd /\ ~Opens(t) /\ pc'[t] = to
      /\ \A u \in Task : u # t => pc'[u] = pc[u] /\ Opens(u)' = Opens(u)
      /\ \A u \in Task : Copies(u)' = Copies(u)
      /\ \A u \in Task : Copies(u) => u # t /\ child[u] # t
      /\ \A u \in Task : pc'[u] = "free" => pc[u] = "free" /\ u # t
      /\ \A u \in Task : pc'[u] \in {"dup", "inc_ref"} => pc[u] \in {"dup", "inc_ref"} /\ u # t
  <2>1. pc'[t] = to /\ \A u \in Task : u # t => pc'[u] = pc[u]
    BY <1>2 DEF FilesInv, OpenTypeOK
  <2>2. file[t] = NoFile /\ fd[t] = NoFd
    BY <1>2 DEF FilesInv, Callers, CallsRight, Holds, Opens
  <2>3. \A u \in Task : Copies(u) => u # t /\ child[u] # t
    BY <1>2 DEF Copies, FilesInv, Callers, ChildrenApart
  <2> QED BY <1>2, <2>1, <2>2, <2>3 DEF Opens, Copies
<1>4. CASE UNCHANGED << fileVars, file, fd >> /\ to = "open_dev"
  <2>0. UNCHANGED << ref, file_table, file, fd >> /\ to = "open_dev"
    BY <1>4 DEF fileVars
  <2>1. \A u \in Task, f \in File : DupOf(u, f)' = DupOf(u, f) /\ FailedOf(u, f)' = FailedOf(u, f)
    BY <1>2, <1>3, <2>0 DEF DupOf, FailedOf
  <2>2. ASSUME NEW f \in File PROVE Refs(f)' = Refs(f)
    BY <1>1, <2>0, <2>1, RefsStay
  <2>3. RefsRight'
    <3>1. ASSUME NEW f \in File PROVE RefRight(f)'
      <4>1. RefRight(f)
        BY RefsRightIs
      <4> QED BY <1>1, <2>0, <2>2, <4>1 DEF RefRight
    <3> QED BY <3>1, RefsRightIs
  <2>4. OpenedAnew'
    BY <1>1, <1>3, <2>0 DEF OpenedAnew
  <2>5. SeenBefore'
    <3>1. \A f \in File : Refs(f)' >= Refs(f)
      BY <2>2, RefsAreInts DEF FilesInv
    <3> QED BY <1>1, <1>3, <2>0, <3>1, SeenStays
  <2>6. RowsFree'
    BY <1>1, <1>3, <2>0 DEF RowsFree
  <2> QED BY <2>3, <2>4, <2>5, <2>6
<1>5. CASE \E f \in File, i \in Fd \cup {NoFd} :
             /\ file_alloc(f)
             /\ task_alloc_fd(t, i)
             /\ ref'  = [ref EXCEPT ![f] = 1]
             /\ file' = [file EXCEPT ![t] = f]
             /\ fd'   = [fd EXCEPT ![t] = i]
             /\ \/ i # NoFd /\ to = "open_dev" /\ file_table' = [file_table EXCEPT ![t][i] = f]
                \/ i = NoFd /\ to = "open_failed" /\ UNCHANGED file_table
  <2>1. PICK f \in FreeFiles, i \in Fd \cup {NoFd} :
             /\ i \in Fd => file_table[t][i] = NoFile
             /\ ref'  = [ref EXCEPT ![f] = 1]
             /\ file' = [file EXCEPT ![t] = f]
             /\ fd'   = [fd EXCEPT ![t] = i]
             /\ \/ i # NoFd /\ to = "open_dev" /\ file_table' = [file_table EXCEPT ![t][i] = f]
                \/ i = NoFd /\ to = "open_failed" /\ UNCHANGED file_table
    BY <1>5, NoFdNotFd DEF file_alloc, task_alloc_fd, FreeFds
  <2>2. /\ f \in File /\ f \notin raced /\ left[f] = 0 /\ ref[f] = 0
        /\ Descriptors(f) = 0 /\ Uncounted(f) = 0 /\ Surplus(f) = 0
        /\ f # NoFile
    BY FreeHasNone DEF File, NoFile
  <2>3. \A u \in Task : file[u] # f
    BY FreeIsFree
  <2>4. /\ \A u \in Task, j \in Fd : file_table'[u][j] = IF u = t /\ j = i THEN f ELSE file_table[u][j]
        /\ \A u \in Task : u # t => file'[u] = file[u] /\ fd'[u] = fd[u]
        /\ file'[t] = f /\ fd'[t] = i
        /\ \A g \in File : ref'[g] = IF g = f THEN 1 ELSE ref[g]
    BY <2>1, <2>2, NoFdNotFd DEF FilesInv, OpenTypeOK
  <2>5. ASSUME NEW g \in File
        PROVE  /\ \A u \in Task : u # t => DupOf(u, g)' = DupOf(u, g) /\ FailedOf(u, g)' = FailedOf(u, g)
               /\ ~DupOf(t, g) /\ ~DupOf(t, g)' /\ ~FailedOf(t, g)
               /\ FailedOf(t, g)' <=> i = NoFd /\ g = f
    BY <1>2, <1>3, <2>1, <2>2, <2>4 DEF DupOf, FailedOf
  <2>6. ASSUME NEW g \in File, g # f PROVE Refs(g)' = Refs(g)
    <3>1. Uncounted(g)' = Uncounted(g) /\ Surplus(g)' = Surplus(g)
      BY <2>5, <2>6, OneCalls
    <3>2. Descriptors(g)' = Descriptors(g)
      <4>1. CASE i \in Fd
        <5>1. file_table[t][i] # g /\ f # g
          BY <2>1, <2>6, <4>1 DEF File, NoFile
        <5> QED BY <2>4, <4>1, <5>1, OneWritten
      <4>2. CASE i = NoFd
        BY <2>1, <4>2 DEF Descriptors
      <4> QED BY <4>1, <4>2
    <3> QED BY <1>1, <3>1, <3>2 DEF Refs
  <2>7. Refs(f)' = 1
    <3>1. Uncounted(f)' = 0
      BY <2>2, <2>5, OneCalls
    <3>2. CASE i \in Fd
      <4>1. Surplus(f)' = 0
        BY <2>2, <2>5, <3>2, OneCalls, NoFdNotFd
      <4>2. file_table[t][i] # f
        BY <2>1, <2>2, <3>2
      <4>3. Descriptors(f)' = 1
        BY <2>2, <2>4, <3>2, <4>2, OneWritten
      <4> QED BY <1>1, <2>2, <3>1, <4>1, <4>3 DEF Refs
    <3>3. CASE i = NoFd
      <4>1. Surplus(f)' = 1
        BY <2>2, <2>5, <3>3, OneCalls
      <4>2. Descriptors(f)' = 0
        BY <2>1, <2>2, <3>3 DEF Descriptors
      <4> QED BY <1>1, <2>2, <3>1, <4>1, <4>2 DEF Refs
    <3> QED BY <3>2, <3>3
  <2>8. RefsRight'
    <3>1. ASSUME NEW g \in File PROVE RefRight(g)'
      <4>1. CASE g = f
        <5>1. Refs(g)' = 1 /\ ref'[g] = 1 /\ g \notin raced'
          BY <1>1, <2>2, <2>4, <2>7, <4>1
        <5> QED BY <5>1 DEF RefRight
      <4>2. CASE g # f
        <5>1. RefRight(g)
          BY RefsRightIs
        <5> QED BY <1>1, <2>4, <2>6, <4>2, <5>1 DEF RefRight
      <4> QED BY <4>1, <4>2
    <3> QED BY <3>1, RefsRightIs
  <2>9. OpenedAnew'
    BY <1>1, <1>3, <2>2, <2>4 DEF OpenedAnew
  <2>10. SeenBefore'
    <3>1. ASSUME NEW u \in Task, NEW g \in File, file[u] = g PROVE Refs(g)' >= Refs(g)
      <4>1. Refs(g)' = Refs(g) /\ Refs(g) \in Int
        BY <2>3, <2>6, <3>1, RefsAreInts DEF FilesInv
      <4> QED BY <4>1
    <3>2. \A u \in Task : pc'[u] \in {"dup", "inc_ref"} =>
            pc[u] \in {"dup", "inc_ref"} /\ file'[u] = file[u] /\ val'[u] = val[u]
      BY <1>1, <1>3, <2>4
    <3> QED BY <3>1, <3>2, SeenStays
  <2>11. RowsFree'
    <3>1. ASSUME NEW u \in Task, u # t PROVE \A j \in Fd : file_table'[u][j] = file_table[u][j]
      BY <2>4, <3>1
    <3>2. \A u \in Task : Copies(u) => child[u] \in Task
      BY DEF FilesInv, Callers, ChildrenApart
    <3>3. ASSUME NEW u \in Task, Copies(u)', NEW j \in Fd, j >= fd'[u]
          PROVE  file_table'[child'[u]][j] = NoFile
      <4>1. Copies(u) /\ u # t /\ child'[u] = child[u] /\ child[u] # t /\ fd'[u] = fd[u] /\ child[u] \in Task
        BY <1>1, <1>3, <2>4, <3>2, <3>3
      <4> QED BY <3>1, <3>3, <4>1 DEF RowsFree
    <3>4. ASSUME NEW u \in Task, pc'[u] = "free", NEW j \in Fd PROVE file_table'[u][j] = NoFile
      BY <1>3, <3>1, <3>4 DEF RowsFree
    <3> QED BY <3>3, <3>4 DEF RowsFree
  <2> QED BY <2>8, <2>9, <2>10, <2>11
<1> QED BY <1>2, <1>4, <1>5 DEF open, Goes, FilesInv, OpenTypeOK

(* A process that is not in a call about a file any more.                  *)
LEMMA Returned ==
  ASSUME FilesInv, NEW t \in Task, NEW from \in {"open_dev", "open_failed", "dup"}, Returns(t, from)
  PROVE  /\ pc[t] = from /\ pc'[t] = "user"
         /\ file'[t] = NoFile /\ fd'[t] = NoFd
         /\ \A u \in Task : u # t => /\ pc'[u] = pc[u] /\ file'[u] = file[u] /\ fd'[u] = fd[u]
                                     /\ val'[u] = val[u] /\ child'[u] = child[u]
         /\ \A u \in Task : Copies(u)' => Copies(u) /\ u # t /\ child[u] \in Task /\ child[u] # t
         /\ \A u \in Task : Opens(u)' => Opens(u) /\ u # t
         /\ \A u \in Task : pc'[u] = "free" => pc[u] = "free" /\ u # t
         /\ \A u \in Task : pc'[u] \in {"dup", "inc_ref"} => pc[u] \in {"dup", "inc_ref"} /\ u # t
         /\ \A f : ~DupOf(t, f)' /\ ~FailedOf(t, f)'
         /\ \A u \in Task, f \in File : u # t => DupOf(u, f)' = DupOf(u, f) /\ FailedOf(u, f)' = FailedOf(u, f)
<1>1. /\ pc[t] = from /\ pc'[t] = "user"
      /\ file'[t] = NoFile /\ fd'[t] = NoFd
      /\ \A u \in Task : u # t => /\ pc'[u] = pc[u] /\ file'[u] = file[u] /\ fd'[u] = fd[u]
                                  /\ val'[u] = val[u] /\ child'[u] = child[u]
  BY DEF Returns, Goes, FilesInv, OpenTypeOK
<1>2. \A u \in Task : Copies(u)' => Copies(u) /\ u # t /\ child[u] \in Task /\ child[u] # t
  <2>1. ASSUME NEW u \in Task, Copies(u)' PROVE Copies(u) /\ u # t
    BY <1>1, <2>1 DEF Copies
  <2>2. ASSUME NEW u \in Task, Copies(u) PROVE child[u] \in Task /\ pc[child[u]] = "new"
    BY <2>2 DEF FilesInv, Callers, ChildrenApart
  <2> QED BY <1>1, <2>1, <2>2
<1>3. /\ \A u \in Task : Opens(u)' => Opens(u) /\ u # t
      /\ \A u \in Task : pc'[u] = "free" => pc[u] = "free" /\ u # t
      /\ \A u \in Task : pc'[u] \in {"dup", "inc_ref"} => pc[u] \in {"dup", "inc_ref"} /\ u # t
  BY <1>1 DEF Opens
<1>4. \A f : ~DupOf(t, f)' /\ ~FailedOf(t, f)'
  BY <1>1 DEF DupOf, FailedOf
<1>5. \A u \in Task, f \in File : u # t => DupOf(u, f)' = DupOf(u, f) /\ FailedOf(u, f)' = FailedOf(u, f)
  BY <1>1 DEF DupOf, FailedOf
<1> QED BY <1>1, <1>2, <1>3, <1>4, <1>5

(* The end of sys_open.                                                    *)
LEMMA OpenEndsRefs ==
  ASSUME FilesInv, FilesInv', RefsInv, NEW t \in Task, open_ends(t)
  PROVE  RefsInv'
<1> USE DEF RefsInv
<1>1. UNCHANGED << file_table, left, raced >> /\ Returns(t, "open_dev")
  BY DEF open_ends
<1>2. pc[t] = "open_dev" /\ Opens(t)
  BY <1>1, Returned DEF Opens
<1>3. ref' = ref
  <2>1. ref' = ref \/ (file[t] # NoFile /\ ref' = [ref EXCEPT ![file[t]] = 1])
    BY DEF open_ends
  <2>2. file[t] # NoFile => ref[file[t]] = 1
    BY <1>2 DEF FilesInv, Callers, OpenedAlone
  <2> QED BY <2>1, <2>2 DEF FilesInv, OpenTypeOK
<1>4. ASSUME NEW f \in File PROVE Refs(f)' = Refs(f)
  <2>1. ~DupOf(t, f) /\ ~FailedOf(t, f)
    BY <1>2 DEF DupOf, FailedOf
  <2>2. \A u \in Task : (DupOf(u, f)' <=> DupOf(u, f)) /\ (FailedOf(u, f)' <=> FailedOf(u, f))
    BY <1>1, <2>1, Returned
  <2>3. \A u \in Task : DupOf(u, f)' = DupOf(u, f) /\ FailedOf(u, f)' = FailedOf(u, f)
    BY <2>2 DEF DupOf, FailedOf
  <2> QED BY <1>1, <2>3, RefsStay
<1>5. RefsRight'
  <2>1. ASSUME NEW f \in File PROVE RefRight(f)'
    <3>1. RefRight(f)
      BY RefsRightIs
    <3> QED BY <1>1, <1>3, <1>4, <3>1 DEF RefRight
  <2> QED BY <2>1, RefsRightIs
<1>6. OpenedAnew'
  BY <1>1, Returned DEF OpenedAnew
<1>7. SeenBefore'
  <2>1. \A f \in File : Refs(f)' >= Refs(f)
    BY <1>4, RefsAreInts DEF FilesInv
  <2>2. \A u \in Task : pc'[u] \in {"dup", "inc_ref"} =>
          pc[u] \in {"dup", "inc_ref"} /\ file'[u] = file[u] /\ val'[u] = val[u]
    BY <1>1, Returned
  <2> QED BY <2>1, <2>2, SeenStays
<1>8. RowsFree'
  <2>1. ASSUME NEW u \in Task, Copies(u)', NEW j \in Fd, j >= fd'[u] PROVE file_table'[child'[u]][j] = NoFile
    <3>1. Copies(u) /\ child'[u] = child[u] /\ fd'[u] = fd[u]
      BY <1>1, <2>1, Returned
    <3> QED BY <1>1, <2>1, <3>1 DEF RowsFree
  <2>2. ASSUME NEW u \in Task, pc'[u] = "free", NEW j \in Fd PROVE file_table'[u][j] = NoFile
    <3>1. pc[u] = "free"
      BY <1>1, <2>2, Returned
    <3> QED BY <1>1, <3>1 DEF RowsFree
  <2> QED BY <2>1, <2>2 DEF RowsFree
<1> QED BY <1>5, <1>6, <1>7, <1>8

(* What sys_open gives back was counted once, as a descriptor or as the    *)
(* surplus.                                                                *)
LEMMA OpenFailedRefs ==
  ASSUME FilesInv, FilesInv', RefsInv, NEW t \in Task, open_failed(t)
  PROVE  RefsInv'
<1> USE DEF RefsInv
<1>1. /\ UNCHANGED << left, raced >> /\ Returns(t, "open_failed")
      /\ \A f \in File : ref'[f] = IF f = file[t] /\ ref[f] > 0 THEN ref[f] - 1 ELSE ref[f]
      /\ \A u \in Task, j \in Fd :
           file_table'[u][j] = IF u = t /\ j = fd[t] THEN NoFile ELSE file_table[u][j]
  BY DEF open_failed, pastVars, FilesInv, OpenTypeOK
<1>2. pc[t] = "open_failed" /\ Opens(t)
  BY <1>1, Returned DEF Opens
<1>3. fd[t] \in Fd \cup {NoFd} /\ file[t] \in File \cup {NoFile}
      /\ (fd[t] # NoFd => file[t] # NoFile /\ file_table[t][fd[t]] = file[t])
  BY <1>2 DEF FilesInv, Callers, CallsRight, OpenTypeOK
<1>4. ASSUME file[t] # NoFile
      PROVE  /\ ref[file[t]] = 1 /\ file[t] \notin raced
             /\ \A u \in Task : file[u] = file[t] => u = t
  BY <1>2, <1>4 DEF FilesInv, Callers, OpenedAlone, OpenedAnew
<1>5. ASSUME NEW f \in File
      PROVE  /\ ~DupOf(t, f) /\ (FailedOf(t, f) <=> fd[t] = NoFd /\ file[t] = f)
             /\ \A u \in Task : u # t => DupOf(u, f)' = DupOf(u, f) /\ FailedOf(u, f)' = FailedOf(u, f)
             /\ ~DupOf(t, f)' /\ ~FailedOf(t, f)'
  <2>1. ~DupOf(t, f) /\ (FailedOf(t, f) <=> fd[t] = NoFd /\ file[t] = f)
    BY <1>2 DEF DupOf, FailedOf
  <2> QED BY <1>1, <2>1, Returned
<1>6. ASSUME NEW f \in File, f # file[t] PROVE Refs(f)' = Refs(f)
  <2>1. Uncounted(f)' = Uncounted(f) /\ Surplus(f)' = Surplus(f)
    BY <1>5, <1>6, OneCalls
  <2>2. Descriptors(f)' = Descriptors(f)
    <3>1. CASE fd[t] \in Fd
      <4>1. file_table[t][fd[t]] # f /\ NoFile # f
        BY <1>3, <1>6, <3>1, NoFdNotFd DEF File, NoFile
      <4>2. PICK i \in Fd : i = fd[t]
        BY <3>1
      <4> QED BY <1>1, <4>1, <4>2, OneWritten
    <3>2. CASE fd[t] = NoFd
      <4>1. \A u \in Task, j \in Fd : file_table'[u][j] = file_table[u][j]
        BY <1>1, <3>2, NoFdNotFd
      <4> QED BY <4>1 DEF Descriptors
    <3> QED BY <1>3, <3>1, <3>2
  <2> QED BY <1>1, <2>1, <2>2 DEF Refs
<1>7. ASSUME NEW f \in File, f = file[t] PROVE Refs(f)' = Refs(f) - 1 /\ Refs(f) = 1
  <2>1. f # NoFile /\ ref[f] = 1 /\ f \notin raced
    BY <1>4, <1>7 DEF File, NoFile
  <2>2. Refs(f) = 1
    <3>1. RefRight(f)
      BY RefsRightIs
    <3> QED BY <2>1, <3>1 DEF RefRight
  <2>3. Uncounted(f)' = Uncounted(f)
    BY <1>5, OneCalls
  <2>4. /\ Descriptors(f) \in Nat /\ Uncounted(f) \in Nat /\ Surplus(f) \in Nat /\ left[f] \in Nat
        /\ Descriptors(f)' \in Nat /\ Surplus(f)' \in Nat
    BY CountsAreNumbers DEF FilesInv, OpenTypeOK
  <2>5. CASE fd[t] \in Fd
    <3>1. Surplus(f)' = Surplus(f)
      BY <1>5, <2>5, OneCalls, NoFdNotFd
    <3>2. PICK i \in Fd : i = fd[t] /\ file_table[t][i] = f /\ NoFile # f
      BY <1>3, <1>7, <2>1, <2>5, NoFdNotFd
    <3>3. Descriptors(f)' = Descriptors(f) - 1
      BY <1>1, <3>2, OneWritten
    <3> QED BY <1>1, <2>2, <2>3, <2>4, <3>1, <3>3 DEF Refs
  <2>6. CASE fd[t] = NoFd
    <3>1. Surplus(f)' = Surplus(f) - 1
      BY <1>5, <1>7, <2>6, OneCalls
    <3>2. Descriptors(f)' = Descriptors(f)
      <4>1. \A u \in Task, j \in Fd : file_table'[u][j] = file_table[u][j]
        BY <1>1, <2>6, NoFdNotFd
      <4> QED BY <4>1 DEF Descriptors
    <3> QED BY <1>1, <2>2, <2>3, <2>4, <3>1, <3>2 DEF Refs
  <2> QED BY <1>3, <2>5, <2>6
<1>8. RefsRight'
  <2>1. ASSUME NEW f \in File PROVE RefRight(f)'
    <3>1. CASE f = file[t]
      <4>1. Refs(f)' = 0 /\ ref'[f] = 0 /\ f \notin raced'
        BY <1>1, <1>4, <1>7, <3>1 DEF File, NoFile
      <4> QED BY <4>1 DEF RefRight
    <3>2. CASE f # file[t]
      <4>1. RefRight(f)
        BY RefsRightIs
      <4> QED BY <1>1, <1>6, <3>2, <4>1 DEF RefRight
    <3> QED BY <3>1, <3>2
  <2> QED BY <2>1, RefsRightIs
<1>9. OpenedAnew'
  BY <1>1, Returned DEF OpenedAnew
<1>10. SeenBefore'
  <2>1. ASSUME NEW u \in Task, NEW f \in File, pc[u] \in {"dup", "inc_ref"}, file[u] = f
        PROVE  Refs(f)' >= Refs(f)
    <3>1. u # t
      BY <1>2, <2>1
    <3>2. f # file[t]
      BY <1>4, <2>1, <3>1 DEF File, NoFile
    <3>3. Refs(f)' = Refs(f) /\ Refs(f) \in Int
      BY <1>6, <3>2, RefsAreInts DEF FilesInv
    <3> QED BY <3>3
  <2>2. \A u \in Task : pc'[u] \in {"dup", "inc_ref"} =>
          pc[u] \in {"dup", "inc_ref"} /\ file'[u] = file[u] /\ val'[u] = val[u]
    BY <1>1, Returned
  <2> QED BY <2>1, <2>2, SeenStays
<1>11. RowsFree'
  <2>1. ASSUME NEW u \in Task, Copies(u)', NEW j \in Fd, j >= fd'[u] PROVE file_table'[child'[u]][j] = NoFile
    <3>1. Copies(u) /\ child'[u] = child[u] /\ fd'[u] = fd[u] /\ child[u] \in Task /\ child[u] # t
      BY <1>1, <2>1, Returned
    <3>2. file_table[child[u]][j] = NoFile
      BY <2>1, <3>1 DEF RowsFree
    <3> QED BY <1>1, <3>1, <3>2
  <2>2. ASSUME NEW u \in Task, pc'[u] = "free", NEW j \in Fd PROVE file_table'[u][j] = NoFile
    <3>1. pc[u] = "free" /\ u # t
      BY <1>1, <2>2, Returned
    <3>2. file_table[u][j] = NoFile
      BY <3>1 DEF RowsFree
    <3> QED BY <1>1, <3>1, <3>2
  <2> QED BY <2>1, <2>2 DEF RowsFree
<1> QED BY <1>8, <1>9, <1>10, <1>11
------------------------------------------------------------------------------
(* The first half of a count.  A descriptor of sys_dup is there before it  *)
(* is counted.                                                             *)
LEMMA DupRefs ==
  ASSUME FilesInv, FilesInv', RefsInv, NEW t \in Task, NEW i \in Fd, dup(t, i)
  PROVE  RefsInv'
<1> USE DEF RefsInv
<1>1. PICK f \in File, j \in Fd :
        /\ f = file_table[t][i] /\ f # NoFile /\ file_table[t][j] = NoFile
        /\ file_table' = [file_table EXCEPT ![t][j] = f]
        /\ file' = [file EXCEPT ![t] = f]
        /\ val'  = [val EXCEPT ![t] = ref[f]]
  <2>1. PICK j \in Fd : task_alloc_fd(t, j) /\ file_table' = [file_table EXCEPT ![t][j] = file_table[t][i]]
    BY DEF dup
  <2>2. file_table[t][j] = NoFile
    BY <2>1, NoFdNotFd DEF task_alloc_fd, FreeFds
  <2>3. file_table[t][i] \in File \cup {NoFile}
    BY DEF FilesInv, OpenTypeOK
  <2> QED BY <2>1, <2>2, <2>3 DEF dup
<1>2. /\ pc[t] = "user" /\ pc' = [pc EXCEPT ![t] = "dup"]
      /\ UNCHANGED << ref, fd, child, left, raced >>
  BY DEF dup, Goes, pastVars
<1>3. /\ pc'[t] = "dup" /\ ~Opens(t)
      /\ \A u \in Task : u # t => pc'[u] = pc[u] /\ file'[u] = file[u] /\ val'[u] = val[u]
      /\ \A u \in Task : Opens(u)' = Opens(u) /\ (Copies(u)' <=> Copies(u))
      /\ file'[t] = f /\ val'[t] = ref[f]
      /\ \A u \in Task, k \in Fd : file_table'[u][k] = IF u = t /\ k = j THEN f ELSE file_table[u][k]
  <2>1. pc'[t] = "dup" /\ \A u \in Task : u # t => pc'[u] = pc[u] /\ file'[u] = file[u] /\ val'[u] = val[u]
    BY <1>1, <1>2 DEF FilesInv, OpenTypeOK
  <2>2. /\ file'[t] = f /\ val'[t] = ref[f]
        /\ \A u \in Task, k \in Fd : file_table'[u][k] = IF u = t /\ k = j THEN f ELSE file_table[u][k]
    BY <1>1 DEF FilesInv, OpenTypeOK
  <2> QED BY <1>2, <2>1, <2>2 DEF Opens, Copies
<1>4. ASSUME NEW g \in File
      PROVE  /\ \A u \in Task : u # t => DupOf(u, g)' = DupOf(u, g) /\ FailedOf(u, g)' = FailedOf(u, g)
             /\ ~DupOf(t, g) /\ ~FailedOf(t, g) /\ ~FailedOf(t, g)' /\ (DupOf(t, g)' <=> g = f)
  BY <1>2, <1>3 DEF DupOf, FailedOf
<1>5. ASSUME NEW g \in File PROVE Refs(g)' = Refs(g)
  <2>0. file_table[t][j] # g
    BY <1>1 DEF File, NoFile
  <2>1. Surplus(g)' = Surplus(g)
    BY <1>4, OneCalls
  <2>2. /\ Descriptors(g) \in Nat /\ Uncounted(g) \in Nat /\ Surplus(g) \in Nat /\ left[g] \in Nat
    BY CountsAreNumbers DEF FilesInv, OpenTypeOK
  <2>3. CASE g = f
    <3>1. Uncounted(g)' = Uncounted(g) + 1
      BY <1>4, <2>3, OneCalls
    <3>2. Descriptors(g)' = Descriptors(g) + 1
      BY <1>3, <2>0, <2>3, OneWritten
    <3> QED BY <1>2, <2>1, <2>2, <3>1, <3>2 DEF Refs
  <2>4. CASE g # f
    <3>1. Uncounted(g)' = Uncounted(g)
      BY <1>4, <2>4, OneCalls
    <3>2. Descriptors(g)' = Descriptors(g)
      BY SMTT(60), <1>3, <2>0, <2>4, OneWritten
    <3> QED BY <1>2, <2>1, <3>1, <3>2 DEF Refs
  <2> QED BY <2>3, <2>4
<1>6. RefsRight'
  <2>1. ASSUME NEW g \in File PROVE RefRight(g)'
    <3>1. RefRight(g)
      BY RefsRightIs
    <3> QED BY <1>2, <1>5, <3>1 DEF RefRight
  <2> QED BY <2>1, RefsRightIs
<1>7. OpenedAnew'
  BY <1>2, <1>3 DEF OpenedAnew
<1>8. SeenBefore'
  <2>1. \A g \in File : Refs(g)' >= Refs(g)
    BY <1>5, RefsAreInts DEF FilesInv
  <2>2. ref[f] <= Refs(f)'
    <3>1. RefRight(f)
      BY RefsRightIs
    <3>2. Refs(f) \in Int
      BY RefsAreInts DEF FilesInv
    <3> QED BY <1>5, <3>1, <3>2 DEF RefRight
  <2>3. \A u \in Task : pc'[u] \in {"dup", "inc_ref"} =>
           \/ pc[u] \in {"dup", "inc_ref"} /\ file'[u] = file[u] /\ val'[u] = val[u]
           \/ \E g \in File : g = file'[u] /\ val'[u] <= Refs(g)'
    BY <1>3, <2>2
  <2> QED BY <2>1, <2>3, SeenStays
<1>9. RowsFree'
  <2>1. ASSUME NEW u \in Task, Copies(u)', NEW k \in Fd, k >= fd'[u] PROVE file_table'[child'[u]][k] = NoFile
    <3>1. Copies(u) /\ child'[u] = child[u] /\ fd'[u] = fd[u]
      BY <1>2, <1>3, <2>1
    <3>2. child[u] \in Task /\ child[u] # t
      BY <1>2, <3>1 DEF FilesInv, Callers, ChildrenApart
    <3>3. file_table[child[u]][k] = NoFile
      BY <2>1, <3>1 DEF RowsFree
    <3> QED BY <1>3, <3>1, <3>2, <3>3
  <2>2. ASSUME NEW u \in Task, pc'[u] = "free", NEW k \in Fd PROVE file_table'[u][k] = NoFile
    <3>1. pc[u] = "free" /\ u # t
      BY <1>3, <2>2
    <3>2. file_table[u][k] = NoFile
      BY <3>1 DEF RowsFree
    <3> QED BY <1>3, <3>1, <3>2
  <2> QED BY <2>1, <2>2 DEF RowsFree
<1> QED BY <1>6, <1>7, <1>8, <1>9

(* file_inc_ref reads a count.                                             *)
LEMMA FileIncRefRefs ==
  ASSUME FilesInv, FilesInv', RefsInv, NEW t \in Task, file_inc_ref(t)
  PROVE  RefsInv'
<1> USE DEF RefsInv
<1>1. PICK f \in File, i \in Fd :
        /\ i >= fd[t]
        /\ fd' = [fd EXCEPT ![t] = i]
        /\ file' = [file EXCEPT ![t] = f]
        /\ val'  = [val EXCEPT ![t] = ref[f]]
  <2>1. PICK i \in ToCopy(t) :
          /\ fd' = [fd EXCEPT ![t] = i]
          /\ file' = [file EXCEPT ![t] = file_table[t][i]]
          /\ val'  = [val EXCEPT ![t] = ref[file_table[t][i]]]
    BY DEF file_inc_ref
  <2>2. i \in Fd /\ file_table[t][i] # NoFile /\ i >= fd[t]
    BY <2>1 DEF ToCopy
  <2>3. file_table[t][i] \in File \cup {NoFile}
    BY <2>2 DEF FilesInv, OpenTypeOK
  <2> QED BY <2>1, <2>2, <2>3
<1>2. /\ pc[t] = "copy" /\ pc' = [pc EXCEPT ![t] = "inc_ref"]
      /\ UNCHANGED << ref, file_table, child, left, raced >>
  BY DEF file_inc_ref, Goes, fileVars, pastVars
<1>3. /\ pc'[t] = "inc_ref" /\ file'[t] = f /\ val'[t] = ref[f] /\ fd'[t] = i
      /\ \A u \in Task : u # t => pc'[u] = pc[u] /\ file'[u] = file[u] /\ val'[u] = val[u] /\ fd'[u] = fd[u]
  BY <1>1, <1>2 DEF FilesInv, OpenTypeOK
<1>4. \A u \in Task : Opens(u)' = Opens(u) /\ (Copies(u)' <=> Copies(u)) /\ (Opens(u) => u # t)
  BY <1>2, <1>3 DEF Opens, Copies
<1>5. \A u \in Task, g \in File : DupOf(u, g)' = DupOf(u, g) /\ FailedOf(u, g)' = FailedOf(u, g)
  BY <1>2, <1>3 DEF DupOf, FailedOf
<1>6. ASSUME NEW g \in File PROVE Refs(g)' = Refs(g)
  BY <1>2, <1>5, RefsStay
<1>7. RefsRight'
  <2>1. ASSUME NEW g \in File PROVE RefRight(g)'
    <3>1. RefRight(g)
      BY RefsRightIs
    <3> QED BY <1>2, <1>6, <3>1 DEF RefRight
  <2> QED BY <2>1, RefsRightIs
<1>8. OpenedAnew'
  BY <1>2, <1>3, <1>4 DEF OpenedAnew
<1>9. SeenBefore'
  <2>1. \A g \in File : Refs(g)' >= Refs(g)
    BY <1>6, RefsAreInts DEF FilesInv
  <2>2. ref[f] <= Refs(f)'
    <3>1. RefRight(f)
      BY RefsRightIs
    <3>2. Refs(f) \in Int
      BY RefsAreInts DEF FilesInv
    <3> QED BY <1>6, <3>1, <3>2 DEF RefRight
  <2>3. \A u \in Task : pc'[u] \in {"dup", "inc_ref"} =>
           \/ pc[u] \in {"dup", "inc_ref"} /\ file'[u] = file[u] /\ val'[u] = val[u]
           \/ \E g \in File : g = file'[u] /\ val'[u] <= Refs(g)'
    BY <1>3, <2>2
  <2> QED BY <2>1, <2>3, SeenStays
<1>10. RowsFree'
  <2>1. fd \in [Task -> Int] /\ fd' \in [Task -> Int]
    BY FdsAreInts DEF FilesInv
  <2>2. \A u \in Task : Copies(u)' => Copies(u) /\ fd'[u] >= fd[u]
    BY <1>1, <1>3, <1>4, <2>1
  <2>3. \A u \in Task : pc'[u] = "free" => pc[u] = "free"
    BY <1>3
  <2> QED BY <1>2, <2>1, <2>2, <2>3, RowsStay
<1> QED BY <1>7, <1>8, <1>9, <1>10

(* The second half.  What is written is one more than what was seen: as    *)
(* much as there should be now, or less if another count came in between.  *)
LEMMA CountsRefs ==
  ASSUME FilesInv, RefsInv, NEW t \in Task, pc[t] \in {"dup", "inc_ref"}, Counts(t),
         \A g \in File : Refs(g)' = IF g = file[t] THEN Refs(g) + 1 ELSE Refs(g)
  PROVE  /\ RefsRight'
         /\ raced' \subseteq raced \cup {file[t]}
         /\ \A g \in File : Refs(g)' >= Refs(g)
         /\ file[t] \in File
         /\ \A u \in Task : Opens(u) /\ file[u] # NoFile => file[u] # file[t]
<1>1. /\ file[t] \in File
      /\ \A u \in Task : Opens(u) /\ file[u] # NoFile => file[u] # file[t]
      /\ \A g \in File : g # file[t] => ref'[g] = ref[g]
  BY CountsPositive
<1>2. PICK f \in File : f = file[t]
  BY <1>1
<1>3. ref'[f] = val[t] + 1 /\ raced' = IF ref[f] = val[t] THEN raced ELSE raced \cup {f}
  BY <1>2 DEF Counts, FilesInv, OpenTypeOK
<1>4. val[t] <= Refs(f) /\ val[t] \in Nat
  BY <1>2 DEF RefsInv, SeenBefore, FilesInv, OpenTypeOK
<1>5. \A g \in File : Refs(g) \in Int /\ RefRight(g)
  BY RefsAreInts, RefsRightIs DEF FilesInv, RefsInv
<1>6. ASSUME NEW g \in File PROVE RefRight(g)'
  <2>1. CASE g = f
    <3>1. Refs(f)' = Refs(f) + 1 /\ Refs(f) \in Int /\ RefRight(f)
      BY <1>2, <1>5
    <3>2. CASE ref[f] = val[t]
      BY <1>3, <1>4, <2>1, <3>1, <3>2 DEF RefRight
    <3>3. CASE ref[f] # val[t]
      BY <1>3, <1>4, <2>1, <3>1, <3>3 DEF RefRight
    <3> QED BY <3>2, <3>3
  <2>2. CASE g # f
    <3>1. Refs(g)' = Refs(g) /\ ref'[g] = ref[g] /\ (g \in raced' <=> g \in raced)
      BY <1>1, <1>2, <1>3, <2>2
    <3> QED BY <1>5, <3>1 DEF RefRight
  <2> QED BY <2>1, <2>2
<1>7. \A g \in File : Refs(g)' >= Refs(g)
  BY <1>5
<1> QED BY <1>1, <1>2, <1>3, <1>6, <1>7, RefsRightIs

(* sys_dup writes the count it has read.                                   *)
LEMMA DupEndsRefs ==
  ASSUME FilesInv, FilesInv', RefsInv, NEW t \in Task, dup_ends(t)
  PROVE  RefsInv'
<1> USE DEF RefsInv
<1>1. Returns(t, "dup") /\ Counts(t) /\ UNCHANGED << file_table, left >>
  BY DEF dup_ends
<1>2. pc[t] = "dup"
  BY <1>1, Returned
<1>3. ASSUME NEW g \in File PROVE Refs(g)' = IF g = file[t] THEN Refs(g) + 1 ELSE Refs(g)
  <2>1. ~FailedOf(t, g) /\ (DupOf(t, g) <=> g = file[t])
    BY <1>2 DEF DupOf, FailedOf
  <2>2. /\ \A u \in Task : u # t => DupOf(u, g)' = DupOf(u, g) /\ FailedOf(u, g)' = FailedOf(u, g)
        /\ ~DupOf(t, g)' /\ ~FailedOf(t, g)'
    BY <1>1, Returned
  <2>3. Surplus(g)' = Surplus(g)
    BY <2>1, <2>2, OneCalls
  <2>4. Uncounted(g)' = IF g = file[t] THEN Uncounted(g) - 1 ELSE Uncounted(g)
    BY <2>1, <2>2, OneCalls
  <2>5. Descriptors(g)' = Descriptors(g)
    BY <1>1 DEF Descriptors
  <2>6. /\ Descriptors(g) \in Nat /\ Uncounted(g) \in Nat /\ Surplus(g) \in Nat /\ left[g] \in Nat
    BY CountsAreNumbers DEF FilesInv, OpenTypeOK
  <2> QED BY <1>1, <2>3, <2>4, <2>5, <2>6 DEF Refs
<1>4. /\ RefsRight'
      /\ raced' \subseteq raced \cup {file[t]}
      /\ \A g \in File : Refs(g)' >= Refs(g)
      /\ \A u \in Task : Opens(u) /\ file[u] # NoFile => file[u] # file[t]
  BY <1>1, <1>2, <1>3, CountsRefs
<1>5. OpenedAnew'
  BY <1>1, <1>4, Returned DEF OpenedAnew
<1>6. SeenBefore'
  <2>1. \A u \in Task : pc'[u] \in {"dup", "inc_ref"} =>
          pc[u] \in {"dup", "inc_ref"} /\ file'[u] = file[u] /\ val'[u] = val[u]
    BY <1>1, Returned
  <2> QED BY <1>4, <2>1, SeenStays
<1>7. RowsFree'
  <2>1. ASSUME NEW u \in Task, Copies(u)', NEW j \in Fd, j >= fd'[u] PROVE file_table'[child'[u]][j] = NoFile
    <3>1. Copies(u) /\ child'[u] = child[u] /\ fd'[u] = fd[u]
      BY <1>1, <2>1, Returned
    <3> QED BY <1>1, <2>1, <3>1 DEF RowsFree
  <2>2. ASSUME NEW u \in Task, pc'[u] = "free", NEW j \in Fd PROVE file_table'[u][j] = NoFile
    <3>1. pc[u] = "free"
      BY <1>1, <2>2, Returned
    <3> QED BY <1>1, <3>1 DEF RowsFree
  <2> QED BY <2>1, <2>2 DEF RowsFree
<1> QED BY <1>4, <1>5, <1>6, <1>7

(* The descriptor of the child is written with the count, where none was.  *)
LEMMA CopyFileRefs ==
  ASSUME FilesInv, FilesInv', RefsInv, NEW t \in Task, copy_file(t)
  PROVE  RefsInv'
<1> USE DEF RefsInv
<1>1. /\ pc[t] = "inc_ref" /\ pc' = [pc EXCEPT ![t] = "copy"] /\ Counts(t)
      /\ file_table' = [file_table EXCEPT ![child[t]][fd[t]] = file[t]]
      /\ file' = [file EXCEPT ![t] = NoFile] /\ fd' = [fd EXCEPT ![t] = @ + 1]
      /\ val' = [val EXCEPT ![t] = 0]
      /\ UNCHANGED << child, left >>
  BY DEF copy_file, Goes
<1>2. PICK c \in Task, i \in Fd : c = child[t] /\ i = fd[t] /\ pc[c] = "new"
  BY <1>1 DEF FilesInv, Callers, CallsRight, ChildrenApart, Copies
<1>3. /\ pc'[t] = "copy" /\ fd'[t] = i + 1
      /\ \A u \in Task : u # t => pc'[u] = pc[u] /\ file'[u] = file[u] /\ val'[u] = val[u] /\ fd'[u] = fd[u]
      /\ \A u \in Task, j \in Fd :
           file_table'[u][j] = IF u = c /\ j = i THEN file[t] ELSE file_table[u][j]
  BY <1>1, <1>2 DEF FilesInv, OpenTypeOK
<1>4. \A u \in Task : Opens(u)' = Opens(u) /\ (Copies(u)' <=> Copies(u)) /\ (Opens(u) => u # t)
  BY <1>1, <1>3 DEF Opens, Copies
<1>5. file_table[c][i] = NoFile
  <2>1. Copies(t) /\ i >= fd[t]
    BY <1>1, <1>2, FilesAssumption DEF Copies, Fd
  <2> QED BY <1>2, <2>1 DEF RowsFree
<1>6. ASSUME NEW g \in File PROVE Refs(g)' = IF g = file[t] THEN Refs(g) + 1 ELSE Refs(g)
  <2>1. \A u \in Task : (DupOf(u, g)' <=> DupOf(u, g)) /\ (FailedOf(u, g)' <=> FailedOf(u, g))
    BY <1>1, <1>3 DEF DupOf, FailedOf
  <2>2. \A u \in Task : u # t => DupOf(u, g)' = DupOf(u, g) /\ FailedOf(u, g)' = FailedOf(u, g)
    BY <1>3 DEF DupOf, FailedOf
  <2>3. Surplus(g)' = Surplus(g) /\ Uncounted(g)' = Uncounted(g)
    BY <2>1, <2>2, OneCalls
  <2>4. file_table[c][i] # g
    BY <1>5 DEF File, NoFile
  <2>5. Descriptors(g)' = IF g = file[t] THEN Descriptors(g) + 1 ELSE Descriptors(g)
    <3>1. CASE g = file[t]
      <4>1. PICK h : h = file[t]
        OBVIOUS
      <4> QED BY <1>3, <2>4, <3>1, <4>1, OneWritten
    <3>2. CASE g # file[t]
      <4>1. PICK h : h = file[t]
        OBVIOUS
      <4> QED BY SMTT(60), <1>3, <2>4, <3>2, <4>1, OneWritten
    <3> QED BY <3>1, <3>2
  <2>6. /\ Descriptors(g) \in Nat /\ Uncounted(g) \in Nat /\ Surplus(g) \in Nat /\ left[g] \in Nat
    BY CountsAreNumbers DEF FilesInv, OpenTypeOK
  <2> QED BY <1>1, <2>3, <2>5, <2>6 DEF Refs
<1>7. /\ RefsRight'
      /\ raced' \subseteq raced \cup {file[t]}
      /\ \A g \in File : Refs(g)' >= Refs(g)
      /\ \A u \in Task : Opens(u) /\ file[u] # NoFile => file[u] # file[t]
  BY <1>1, <1>6, CountsRefs
<1>8. OpenedAnew'
  BY <1>3, <1>4, <1>7 DEF OpenedAnew
<1>9. SeenBefore'
  <2>1. \A u \in Task : pc'[u] \in {"dup", "inc_ref"} =>
          pc[u] \in {"dup", "inc_ref"} /\ file'[u] = file[u] /\ val'[u] = val[u]
    BY <1>3
  <2> QED BY <1>7, <2>1, SeenStays
<1>10. RowsFree'
  <2>1. ASSUME NEW u \in Task, Copies(u)', NEW j \in Fd, j >= fd'[u] PROVE file_table'[child'[u]][j] = NoFile
    <3>1. Copies(u) /\ Copies(t) /\ child'[u] = child[u] /\ child[u] \in Task
      BY <1>1, <1>4, <2>1 DEF Copies, FilesInv, Callers, ChildrenApart
    <3>2. CASE u = t
      <4>1. j >= i + 1 /\ i \in Int /\ j \in Int
        BY <1>3, <2>1, <3>2, FilesAssumption DEF Fd
      <4>2. j # i /\ j >= fd[t]
        BY <1>2, <4>1
      <4>3. file_table[c][j] = NoFile
        BY <1>2, <3>1, <4>2 DEF RowsFree
      <4> QED BY <1>2, <1>3, <3>1, <3>2, <4>2, <4>3
    <3>3. CASE u # t
      <4>1. child[u] # c /\ fd'[u] = fd[u]
        BY <1>2, <1>3, <3>1, <3>3 DEF FilesInv, Callers, ChildrenApart
      <4>2. file_table[child[u]][j] = NoFile
        BY <2>1, <3>1, <4>1 DEF RowsFree
      <4> QED BY <1>3, <3>1, <4>1, <4>2
    <3> QED BY <3>2, <3>3
  <2>2. ASSUME NEW u \in Task, pc'[u] = "free", NEW j \in Fd PROVE file_table'[u][j] = NoFile
    <3>1. pc[u] = "free" /\ u # c
      BY <1>2, <1>3, <2>2
    <3>2. file_table[u][j] = NoFile
      BY <3>1 DEF RowsFree
    <3> QED BY <1>3, <3>1, <3>2
  <2> QED BY <2>1, <2>2 DEF RowsFree
<1> QED BY <1>7, <1>8, <1>9, <1>10
------------------------------------------------------------------------------
(* The descriptors that go with a process are those left over.             *)
LEMMA ExitRefs ==
  ASSUME FilesInv, FilesInv', RefsInv, NEW t \in Task, exit(t)
  PROVE  RefsInv'
<1> USE DEF RefsInv
<1>1. /\ pc[t] = "user" /\ pc' = [pc EXCEPT ![t] = "free"]
      /\ file_table' = [file_table EXCEPT ![t] = NoFiles]
      /\ left' = [f \in File |-> left[f] + Cardinality({ i \in Fd : file_table[t][i] = f })]
      /\ UNCHANGED << ref, file, fd, val, child, raced >>
  BY DEF exit, Goes, callVars
<1>2. /\ pc'[t] = "free" /\ \A u \in Task : u # t => pc'[u] = pc[u]
      /\ \A u \in Task, i \in Fd : file_table'[u][i] = IF u = t THEN NoFile ELSE file_table[u][i]
  BY <1>1 DEF FilesInv, OpenTypeOK, NoFiles
<1>3. /\ \A u \in Task : Opens(u)' = Opens(u) /\ (Copies(u)' <=> Copies(u))
      /\ \A u \in Task : pc'[u] \in {"dup", "inc_ref"} => pc[u] \in {"dup", "inc_ref"}
      /\ \A u \in Task : pc'[u] = "free" => u = t \/ pc[u] = "free"
  BY <1>1, <1>2 DEF Opens, Copies
<1>4. \A u \in Task, f \in File : DupOf(u, f)' = DupOf(u, f) /\ FailedOf(u, f)' = FailedOf(u, f)
  BY <1>1, <1>2 DEF DupOf, FailedOf
<1>5. ASSUME NEW f \in File PROVE Refs(f)' = Refs(f)
  <2> DEFINE S == { x \in Task \X Fd : file_table[x[1]][x[2]] = f }
             T == { x \in Task \X Fd : file_table'[x[1]][x[2]] = f }
             I == { i \in Fd : file_table[t][i] = f }
             B == {t} \X I
  <2>1. Descriptors(f) = Cardinality(S) /\ Descriptors(f)' = Cardinality(T)
    BY DEF Descriptors
  <2>2. left'[f] = left[f] + Cardinality(I)
    BY <1>1
  <2>3. f # NoFile
    BY DEF File, NoFile
  <2>4. S = T \cup B /\ T \cap B = {}
    <3>1. ASSUME NEW u \in Task, NEW i \in Fd
          PROVE  /\ << u, i >> \in S <=> << u, i >> \in T \/ << u, i >> \in B
                 /\ ~(<< u, i >> \in T /\ << u, i >> \in B)
      BY <1>2, <2>3
    <3>2. S \subseteq Task \X Fd /\ T \subseteq Task \X Fd /\ B \subseteq Task \X Fd
      OBVIOUS
    <3> HIDE DEF S, T, B
    <3> QED BY <3>1, <3>2
  <2>5. IsFiniteSet(T) /\ IsFiniteSet(I)
    <3>1. T \in SUBSET (Task \X Fd) /\ I \in SUBSET Fd
      OBVIOUS
    <3> QED BY <3>1, CountedFinite, FS_Subset
  <2>6. IsFiniteSet(B) /\ Cardinality(B) = Cardinality(I)
    <3>1. IsFiniteSet({t}) /\ Cardinality({t}) = 1
      BY FS_Singleton
    <3>2. Cardinality(I) \in Nat
      BY <2>5, FS_CardinalityType
    <3>3. IsFiniteSet(B) /\ Cardinality(B) = 1 * Cardinality(I)
      BY <2>5, <3>1, FS_Product
    <3> QED BY <3>2, <3>3
  <2>7. Cardinality(S) = Cardinality(T) + Cardinality(I)
    <3>1. Cardinality(T \cup B) = Cardinality(T) + Cardinality(B) - Cardinality(T \cap B)
      BY <2>5, <2>6, FS_Union
    <3>2. Cardinality(T \cap B) = 0
      BY <2>4, FS_EmptySet
    <3>3. Cardinality(T) \in Nat /\ Cardinality(B) \in Nat
      BY <2>5, <2>6, FS_CardinalityType
    <3> HIDE DEF S, T, B, I
    <3> QED BY <2>4, <2>6, <3>1, <3>2, <3>3
  <2>8. Uncounted(f)' = Uncounted(f) /\ Surplus(f)' = Surplus(f)
    <3>1. /\ \A u \in Task : u # t => DupOf(u, f)' = DupOf(u, f) /\ FailedOf(u, f)' = FailedOf(u, f)
          /\ DupOf(t, f)' = DupOf(t, f) /\ FailedOf(t, f)' = FailedOf(t, f)
      BY <1>4
    <3> QED BY <3>1, OneCalls
  <2>9. /\ Cardinality(T) \in Nat /\ Cardinality(I) \in Nat /\ left[f] \in Nat
        /\ Uncounted(f) \in Nat /\ Surplus(f) \in Nat
    BY <2>5, FS_CardinalityType, CountsAreNumbers DEF FilesInv, OpenTypeOK
  <2> HIDE DEF S, T, I
  <2> QED BY <2>1, <2>2, <2>7, <2>8, <2>9 DEF Refs
<1>6. RefsRight'
  <2>1. ASSUME NEW g \in File PROVE RefRight(g)'
    <3>1. RefRight(g)
      BY RefsRightIs
    <3> QED BY <1>1, <1>5, <3>1 DEF RefRight
  <2> QED BY <2>1, RefsRightIs
<1>7. OpenedAnew'
  BY <1>1, <1>3 DEF OpenedAnew
<1>8. SeenBefore'
  <2>1. \A g \in File : Refs(g)' >= Refs(g)
    BY <1>5, RefsAreInts DEF FilesInv
  <2> QED BY <1>1, <1>3, <2>1, SeenStays
<1>9. RowsFree'
  <2>1. ASSUME NEW u \in Task, Copies(u)', NEW j \in Fd, j >= fd'[u] PROVE file_table'[child'[u]][j] = NoFile
    <3>1. Copies(u) /\ child[u] \in Task
      BY <1>3, <2>1 DEF FilesInv, Callers, ChildrenApart
    <3>2. file_table[child[u]][j] = NoFile
      BY <1>1, <2>1, <3>1 DEF RowsFree
    <3> QED BY <1>1, <1>2, <3>1, <3>2
  <2>2. ASSUME NEW u \in Task, pc'[u] = "free", NEW j \in Fd PROVE file_table'[u][j] = NoFile
    BY <1>2, <1>3, <2>2 DEF RowsFree
  <2> QED BY <2>1, <2>2 DEF RowsFree
<1> QED BY <1>6, <1>7, <1>8, <1>9

(* At the start there are no references.                                   *)
LEMMA InitRefs == Init => RefsInv
<1> SUFFICES ASSUME Init PROVE RefsInv
  OBVIOUS
<1>1. /\ \A t \in Task : file[t] = NoFile /\ pc[t] \in {"user", "free"}
      /\ \A t \in Task, i \in Fd : file_table[t][i] = NoFile
      /\ \A f \in File : left[f] = 0 /\ ref[f] = 0 /\ f # NoFile
      /\ raced = {}
  BY DEF Init, NoFiles, File, NoFile
<1>2. ASSUME NEW f \in File PROVE RefRight(f)
  <2>1. { x \in Task \X Fd : file_table[x[1]][x[2]] = f } = {}
    BY <1>1
  <2>2. { u \in Task : pc[u] = "dup" /\ file[u] = f } = {}
    BY <1>1
  <2>3. { u \in Task : pc[u] = "open_failed" /\ file[u] = f /\ fd[u] = NoFd } = {}
    BY <1>1
  <2>4. Descriptors(f) = 0 /\ Uncounted(f) = 0 /\ Surplus(f) = 0
    BY <2>1, <2>2, <2>3, FS_EmptySet DEF Descriptors, Uncounted, Surplus
  <2> QED BY <1>1, <2>4 DEF RefRight, Refs
<1>3. RowsFree /\ OpenedAnew /\ SeenBefore
  BY <1>1 DEF RowsFree, OpenedAnew, SeenBefore, Copies, Opens
<1> QED BY <1>2, <1>3, RefsRightIs DEF RefsInv

(* Loads change no reference.                                              *)
LEMMA LoadRefs ==
  ASSUME FilesInv, FilesInv', RefsInv, NEW t \in Task, Loads(t)
  PROVE  RefsInv'
<1>1. UNCHANGED << fileVars, devVars, callVars, pastVars >>
  BY DEF Loads, read_disk, open_image, image_call, read_elf_header, seek_header, read_header,
         seek_segment, read_segment, load_ends
<1>2. pc' = pc \/ \E to \in Elsewhere : pc[t] \in Elsewhere /\ pc' = [pc EXCEPT ![t] = to]
  BY DEF Loads, read_disk, open_image, image_call, read_elf_header, seek_header, read_header,
         seek_segment, read_segment, load_ends, Goes, Elsewhere, Loading
<1> QED BY <1>1, <1>2, QuietRefs

(* So every step of the system keeps the references right.                 *)
LEMMA NextRefs == FilesInv /\ FilesInv' /\ RefsInv /\ [Next]_vars => RefsInv'
<1> SUFFICES ASSUME FilesInv, FilesInv', RefsInv, [Next]_vars PROVE RefsInv'
  OBVIOUS
<1>1. ASSUME NEW t \in Task, Proceeds(t) PROVE RefsInv'
  BY <1>1, OpenEndsRefs, OpenDevFailedRefs, OpenFailedRefs, DupEndsRefs, FileIncRefRefs,
     CopyFileRefs, ForkEndsRefs, LoadRefs DEF Proceeds, Loads
<1>2. ASSUME NEW t \in Task, Begins(t) PROVE RefsInv'
  BY <1>2, OpenRefs, DupRefs, ForkRefs, ExitRefs, LoadRefs DEF Begins, Loads
<1>3. CASE UNCHANGED vars
  BY <1>3, QuietRefs DEF vars
<1> QED BY <1>1, <1>2, <1>3 DEF Next, Rest

(***************************************************************************)
(* Every reference is accounted for: a file has as many as descriptors,    *)
(* there or gone with their process, and the calls half way explain the    *)
(* difference; a file on which two counts have met has fewer, but never    *)
(* none, so sys_open never takes a file that somebody still has.           *)
(***************************************************************************)
THEOREM ReferencesAreRight == Spec => []RefsRight
<1>1. Init => RefsInv
  BY InitRefs
<1>2. FilesInv /\ FilesInv' /\ RefsInv /\ [Next]_vars => RefsInv'
  BY NextRefs
<1>3. RefsInv => RefsRight
  BY DEF RefsInv
<1> QED BY <1>1, <1>2, <1>3, FilesInvariant, PTL DEF Spec
------------------------------------------------------------------------------
(***************************************************************************)
(* The loads of programs.  Functions that are defined by recursion over    *)
(* the program headers are what their definitions say by RecursionTo and   *)
(* RecursOnce of Numbers; what a load has read is then compared with the   *)
(* plan, place by place.                                                   *)
(***************************************************************************)

(* The program headers are counted, and so are the pages of each.          *)
LEMMA SegmentTypes ==
  /\ Len(Segments) \in Nat
  /\ \A h \in Headers : Segments[h] \in Nat
BY FilesAssumption DEF Headers

(* How many pages there are up to a program header.                        *)
LEMMA PagesToIs ==
  /\ PagesTo \in [0..Len(Segments) -> Nat]
  /\ PagesTo[0] = 0
  /\ \A h \in Headers : PagesTo[h] = PagesTo[h - 1] + Segments[h]
<1> DEFINE n == Len(Segments)
           step == [i \in 1..n |-> [a \in Nat |-> a + Segments[i]]]
           IsIt(f) == f = [h \in 0..n |-> IF h = 0 THEN 0 ELSE f[h - 1] + Segments[h]]
<1>1. n \in Nat /\ \A h \in 1..n : Segments[h] \in Nat
  BY SegmentTypes DEF Headers
<1>2. \A i \in 1..n, a \in Nat : step[i][a] = a + Segments[i] /\ step[i][a] \in Nat
  BY <1>1
<1>3. PICK f \in [0..n -> Nat] : f[0] = 0 /\ \A i \in 1..n : f[i] = step[i][f[i - 1]]
  <2>1. step \in [1..n -> [Nat -> Nat]]
    BY <1>2
  <2>2. 0 \in Nat
    OBVIOUS
  <2> HIDE DEF step, n, IsIt
  <2>3. PICK f : Recurs(f, n, Nat, 0, step)
    BY <1>1, <2>1, <2>2, RecursionTo
  <2> QED BY <2>3 DEF Recurs
<1>4. IsIt(f)
  <2>1. \A i \in 1..n : i - 1 \in 0..n /\ f[i - 1] \in Nat
    BY <1>1
  <2>2. \A i \in 1..n : f[i] = f[i - 1] + Segments[i]
    <3> HIDE DEF step
    <3> QED BY <1>2, <1>3, <2>1
  <2> QED BY <1>1, <1>3, <2>2
<1>5. IsIt(PagesTo)
  <2>1. PagesTo = CHOOSE g : IsIt(g)
    BY DEF PagesTo
  <2> HIDE DEF IsIt
  <2> QED BY <1>4, <2>1
<1>6. \A h \in 1..n : f[h] = f[h - 1] + Segments[h]
  BY SMTT(60), <1>1, <1>4
<1>7. PagesTo = f
  <2>1. /\ f = [i \in 0..n |-> f[i]] /\ PagesTo = [i \in 0..n |-> PagesTo[i]]
        /\ f[0] = PagesTo[0]
    BY <1>1, <1>3, <1>5
  <2>2. \A i \in 1..n : PagesTo[i] = PagesTo[i - 1] + Segments[i]
    BY <1>1, <1>5
  <2>3. \A i \in 1..n : f[i - 1] = PagesTo[i - 1] => f[i] = PagesTo[i]
    BY <1>6, <2>2
  <2>4. Alike(f, PagesTo, n)
    BY <2>1, <2>3 DEF Alike
  <2> HIDE DEF n, IsIt, step
  <2> QED BY <1>1, <2>4, RecursOnce
<1> QED BY <1>1, <1>3, <1>7, <1>6 DEF Headers

(* The pages of a segment, one after the other.                            *)
SegPages(h) == [k \in 1..Segments[h] |-> SegmentAt(h) + k - 1]

(* They are what the definition says.                                      *)
LEMMA SegPagesIs ==
  ASSUME NEW h \in Headers
  PROVE  /\ SegmentAt(h) \in Nat
         /\ SegPages(h) \in Seq(Nat) /\ Len(SegPages(h)) = Segments[h]
         /\ \A k \in 1..Segments[h] : SegPages(h)[k] = SegmentAt(h) + k - 1
<1>1. Segments[h] \in Nat /\ Len(Segments) \in Nat
  BY SegmentTypes
<1>2. SegmentAt(h) \in Nat
  BY <1>1, PagesToIs DEF SegmentAt, Headers
<1>3. PICK m \in Nat, s \in Nat : m = Segments[h] /\ s = SegmentAt(h)
  BY <1>1, <1>2
<1>4. SegPages(h) = [k \in 1..m |-> s + k - 1]
  BY <1>3 DEF SegPages
<1>5. [k \in 1..m |-> s + k - 1] \in [1..m -> Nat]
  OBVIOUS
<1>6. SegPages(h) \in Seq(Nat) /\ Len(SegPages(h)) = m
  <2>1. ASSUME NEW f \in [1..m -> Nat] PROVE f \in Seq(Nat) /\ Len(f) = m
    OBVIOUS
  <2> QED BY <1>4, <1>5, <2>1
<1> QED BY <1>2, <1>3, <1>4, <1>6

(* The plan up to a program header.                                        *)
LEMMA PlanToIs ==
  /\ PlanTo \in [0..Len(Segments) -> Seq(Nat)]
  /\ PlanTo[0] = << 0 >>
  /\ \A h \in Headers : PlanTo[h] = PlanTo[h - 1] \o << h >> \o SegPages(h)
<1> DEFINE n == Len(Segments)
           step == [i \in 1..n |-> [s \in Seq(Nat) |-> s \o << i >> \o SegPages(i)]]
           IsIt(f) == f = [h \in 0..n |-> IF h = 0 THEN << 0 >> ELSE f[h - 1] \o << h >> \o SegPages(h)]
<1>1. n \in Nat /\ 1..n = Headers
  BY SegmentTypes DEF Headers
<1>2. ASSUME NEW i \in 1..n, NEW s \in Seq(Nat) PROVE s \o << i >> \o SegPages(i) \in Seq(Nat)
  <2>1. SegPages(i) \in Seq(Nat)
    BY <1>1, SegPagesIs
  <2>2. << i >> \in Seq(Nat)
    OBVIOUS
  <2>3. s \o << i >> \in Seq(Nat)
    BY <2>2, ConcatProperties
  <2> QED BY <2>1, <2>3, ConcatProperties
<1>3. step \in [1..n -> [Seq(Nat) -> Seq(Nat)]]
  BY <1>2
<1>4. PICK f : Recurs(f, n, Seq(Nat), << 0 >>, step)
  <2>1. << 0 >> \in Seq(Nat)
    OBVIOUS
  <2> HIDE DEF step, n
  <2> QED BY <1>1, <1>3, <2>1, RecursionTo
<1>5. f \in [0..n -> Seq(Nat)] /\ f[0] = << 0 >>
  BY <1>4 DEF Recurs
<1>6. \A i \in 1..n : f[i] = f[i - 1] \o << i >> \o SegPages(i)
  <2>1. ASSUME NEW i \in 1..n PROVE f[i] = step[i][f[i - 1]] /\ f[i - 1] \in Seq(Nat)
    <3> HIDE DEF step
    <3> QED BY <1>1, <1>4, <1>5 DEF Recurs
  <2> QED BY <2>1
<1>7. IsIt(f)
  <2> DEFINE value(h) == IF h = 0 THEN << 0 >> ELSE f[h - 1] \o << h >> \o SegPages(h)
  <2>1. \A h \in 0..n : f[h] = value(h)
    <3>1. ASSUME NEW h \in 0..n, h # 0 PROVE h \in 1..n
      BY <1>1, <3>1
    <3>2. ASSUME NEW h \in 0..n, h # 0 PROVE f[h] = value(h)
      BY <1>6, <3>1, <3>2
    <3> QED BY <1>5, <3>2
  <2>2. f = [h \in 0..n |-> f[h]]
    BY <1>5
  <2>3. f = [h \in 0..n |-> value(h)]
    <3> HIDE DEF value, step, n
    <3> QED BY <2>1, <2>2
  <2> QED BY <2>3
<1>8. IsIt(PlanTo)
  <2>1. PlanTo = CHOOSE g : IsIt(g)
    BY DEF PlanTo, SegPages
  <2> HIDE DEF IsIt
  <2> QED BY <1>7, <2>1
<1>9. \A h \in 1..n : PlanTo[h] = PlanTo[h - 1] \o << h >> \o SegPages(h)
  <2>1. ASSUME NEW h \in 1..n PROVE h \in 0..n /\ h # 0
    BY <1>1
  <2>2. ASSUME NEW h \in 0..n, h # 0 PROVE PlanTo[h] = PlanTo[h - 1] \o << h >> \o SegPages(h)
    BY <1>8, <2>2
  <2> HIDE DEF IsIt
  <2> QED BY <2>1, <2>2
<1>10. PlanTo = [h \in 0..n |-> PlanTo[h]] /\ PlanTo[0] = << 0 >>
  BY <1>1, <1>8
<1>11. PlanTo = f
  <2>1. f = [h \in 0..n |-> f[h]]
    BY <1>5
  <2>2. \A i \in 1..n : f[i - 1] = PlanTo[i - 1] => f[i] = PlanTo[i]
    BY <1>6, <1>9
  <2>3. Alike(f, PlanTo, n)
    BY <1>5, <1>10, <2>1, <2>2 DEF Alike
  <2> HIDE DEF n, IsIt, step
  <2> QED BY <1>1, <2>3, RecursOnce
<1> QED BY <1>1, <1>5, <1>6, <1>11

(* Two sequences, one after the other.                                     *)
LEMMA SeqJoined ==
  ASSUME NEW s \in Seq(Nat), NEW u \in Seq(Nat)
  PROVE  /\ s \o u \in Seq(Nat) /\ Len(s \o u) = Len(s) + Len(u)
         /\ \A i \in 1..Len(s) : (s \o u)[i] = s[i]
         /\ \A k \in 1..Len(u) : (s \o u)[Len(s) + k] = u[k]
<1>1. /\ s \o u \in Seq(Nat) /\ Len(s \o u) = Len(s) + Len(u)
      /\ \A i \in 1..(Len(s) + Len(u)) :
           (s \o u)[i] = IF i <= Len(s) THEN s[i] ELSE u[i - Len(s)]
  BY ConcatProperties
<1>2. Len(s) \in Nat /\ Len(u) \in Nat
  BY LenProperties
<1>3. PICK w, m, k : m \in Nat /\ k \in Nat /\ w = s \o u /\ m = Len(s) /\ k = Len(u)
  BY <1>2
<1>4. \A i \in 1..m : i \in 1..(m + k) /\ i <= m
  BY <1>2, <1>3
<1>5. \A i \in 1..k : m + i \in 1..(m + k) /\ ~(m + i <= m) /\ (m + i) - m = i
  BY <1>2, <1>3
<1> QED BY <1>1, <1>3, <1>4, <1>5

(* What one program header and its segment add to the plan.                *)
LEMMA PlanGrows ==
  ASSUME NEW h \in Headers
  PROVE  /\ h - 1 \in 0..Len(Segments) /\ h \in 0..Len(Segments)
         /\ PlanTo[h - 1] \in Seq(Nat) /\ PlanTo[h] \in Seq(Nat)
         /\ Len(PlanTo[h]) = Len(PlanTo[h - 1]) + 1 + Segments[h]
         /\ \A i \in 1..Len(PlanTo[h - 1]) : PlanTo[h][i] = PlanTo[h - 1][i]
         /\ PlanTo[h][Len(PlanTo[h - 1]) + 1] = h
         /\ \A k \in 1..Segments[h] :
              PlanTo[h][Len(PlanTo[h - 1]) + 1 + k] = SegmentAt(h) + k - 1
<1>1. h - 1 \in 0..Len(Segments) /\ h \in 0..Len(Segments) /\ h \in Nat
  BY SegmentTypes DEF Headers
<1>2. PICK s \in Seq(Nat) : s = PlanTo[h - 1]
  BY <1>1, PlanToIs
<1>3. PICK u \in Seq(Nat) : u = SegPages(h)
  BY SegPagesIs
<1>4. PICK one \in Seq(Nat) : one = << h >> /\ Len(one) = 1 /\ one[1] = h
  <2>1. << h >> \in Seq(Nat) /\ Len(<< h >>) = 1 /\ << h >>[1] = h
    BY <1>1
  <2> QED BY <2>1, Zenon
<1>5. PICK v \in Seq(Nat) : /\ v = s \o << h >>
                            /\ Len(v) = Len(s) + 1
                            /\ \A i \in 1..Len(s) : v[i] = s[i]
                            /\ v[Len(s) + 1] = h
  <2>1. /\ s \o one \in Seq(Nat) /\ Len(s \o one) = Len(s) + 1
        /\ \A i \in 1..Len(s) : (s \o one)[i] = s[i]
        /\ (s \o one)[Len(s) + 1] = one[1]
    BY <1>4, SeqJoined
  <2> QED BY <1>4, <2>1
<1>6. PICK w \in Seq(Nat) : /\ w = v \o u
                            /\ Len(w) = Len(v) + Len(u)
                            /\ \A i \in 1..Len(v) : w[i] = v[i]
                            /\ \A k \in 1..Len(u) : w[Len(v) + k] = u[k]
  BY SeqJoined
<1>7. w = PlanTo[h]
  BY <1>2, <1>3, <1>5, <1>6, PlanToIs
<1>8. Len(u) = Segments[h] /\ \A k \in 1..Segments[h] : u[k] = SegmentAt(h) + k - 1
  BY <1>3, SegPagesIs
<1>9. Len(s) \in Nat /\ \A i \in 1..Len(s) : i \in 1..Len(v)
  BY <1>5
<1>10. \A i \in 1..Len(s) : w[i] = s[i]
  BY <1>5, <1>6, <1>9
<1>11. w[Len(s) + 1] = h
  BY <1>5, <1>6, <1>9
<1>12. \A k \in 1..Segments[h] : w[Len(s) + 1 + k] = SegmentAt(h) + k - 1
  BY <1>5, <1>6, <1>8
<1>13. Len(w) = Len(s) + 1 + Segments[h]
  BY <1>5, <1>6, <1>8
<1> QED BY <1>1, <1>2, <1>7, <1>10, <1>11, <1>12, <1>13

(* s is the first part of u.                                               *)
IsStartOf(s, u) == Len(s) <= Len(u) /\ \A i \in 1..Len(s) : s[i] = u[i]

(* The plan begins with the plan up to any of the program headers.         *)
LEMMA PlanBegins ==
  ASSUME NEW h \in 0..Len(Segments)
  PROVE  IsStartOf(PlanTo[h], Plan)
<1> DEFINE n == Len(Segments)
           S == { m \in 0..n : \A k \in 0..m : IsStartOf(PlanTo[k], PlanTo[m]) }
<1>1. n \in Nat /\ \A m \in 1..n : m \in Headers
  BY SegmentTypes DEF Headers
<1>2. \A k \in 0..n : PlanTo[k] \in Seq(Nat) /\ Len(PlanTo[k]) \in Nat
  BY PlanToIs, LenProperties
<1>3. \A k \in 0..n : IsStartOf(PlanTo[k], PlanTo[k])
  BY <1>2 DEF IsStartOf
<1>4. 0 \in S
  BY <1>1, <1>3
<1>5. ASSUME NEW m \in 0..(n - 1), m \in S PROVE m + 1 \in S
  <2>1. m + 1 \in 1..n /\ (m + 1) - 1 = m /\ m \in 0..n
    BY <1>1
  <2>2. /\ Len(PlanTo[m + 1]) = Len(PlanTo[m]) + 1 + Segments[m + 1]
        /\ \A i \in 1..Len(PlanTo[m]) : PlanTo[m + 1][i] = PlanTo[m][i]
        /\ Segments[m + 1] \in Nat
    BY <1>1, <2>1, PlanGrows, SegmentTypes
  <2>3. ASSUME NEW k \in 0..m PROVE IsStartOf(PlanTo[k], PlanTo[m + 1])
    <3>1. k \in 0..n
      BY <1>1
    <3>2. Len(PlanTo[k]) <= Len(PlanTo[m]) /\ \A i \in 1..Len(PlanTo[k]) : PlanTo[k][i] = PlanTo[m][i]
      BY <1>5 DEF IsStartOf
    <3>3. Len(PlanTo[k]) \in Nat /\ Len(PlanTo[m]) \in Nat
      BY <1>2, <2>1, <3>1
    <3>4. Len(PlanTo[k]) <= Len(PlanTo[m + 1])
      BY SMTT(60), <2>2, <3>2, <3>3
    <3>5. \A i \in 1..Len(PlanTo[k]) : i \in 1..Len(PlanTo[m])
      BY <3>2, <3>3
    <3> QED BY <2>2, <3>2, <3>4, <3>5 DEF IsStartOf
  <2>4. \A k \in 0..(m + 1) : k \in 0..m \/ k = m + 1
    OBVIOUS
  <2>5. m + 1 \in 0..n
    BY <2>1
  <2>6. \A k \in 0..(m + 1) : IsStartOf(PlanTo[k], PlanTo[m + 1])
    <3> HIDE DEF n
    <3> QED BY <1>3, <2>3, <2>4, <2>5
  <2> QED BY <2>5, <2>6
<1>6. n \in S
  <2>1. 0..n \subseteq S
    <3> HIDE DEF S, n
    <3> QED BY <1>1, <1>4, <1>5, InductionTo
  <2> QED BY <1>1, <2>1
<1> QED BY <1>6 DEF Plan

(* What is read at every place of the plan.                                *)
PlanLen(h) == Len(PlanTo[h])

(* So this is what is to be read at every place.                           *)
LEMMA PlanAt ==
  /\ Plan \in Seq(Nat) /\ Len(Plan) = PlanLen(Len(Segments))
  /\ PlanLen(0) = 1 /\ Plan[1] = 0 /\ Len(Plan) >= 1
  /\ \A h \in Headers :
       /\ PlanLen(h - 1) \in Nat /\ PlanLen(h) \in Nat
       /\ PlanLen(h) = PlanLen(h - 1) + 1 + Segments[h]
       /\ PlanLen(h) <= Len(Plan)
       /\ Plan[PlanLen(h - 1) + 1] = h
       /\ \A k \in 1..Segments[h] : Plan[PlanLen(h - 1) + 1 + k] = SegmentAt(h) + k - 1
<1>1. Len(Segments) \in Nat /\ Len(Segments) \in 0..Len(Segments) /\ 0 \in 0..Len(Segments)
  BY SegmentTypes
<1>2. Plan \in Seq(Nat) /\ Len(Plan) = PlanLen(Len(Segments)) /\ Len(Plan) \in Nat
  BY <1>1, PlanToIs, LenProperties DEF Plan, PlanLen
<1>3. PlanLen(0) = 1 /\ PlanTo[0][1] = 0
  BY PlanToIs DEF PlanLen
<1>4. Len(Plan) >= 1 /\ Plan[1] = 0
  <2>1. 1 <= Len(Plan) /\ \A i \in 1..1 : PlanTo[0][i] = Plan[i]
    BY <1>1, <1>3, PlanBegins DEF IsStartOf, PlanLen
  <2>2. 1 \in 1..1
    OBVIOUS
  <2> QED BY <1>2, <1>3, <2>1, <2>2
<1>5. ASSUME NEW h \in Headers
      PROVE  /\ PlanLen(h - 1) \in Nat /\ PlanLen(h) \in Nat
             /\ PlanLen(h) = PlanLen(h - 1) + 1 + Segments[h]
             /\ PlanLen(h) <= Len(Plan)
             /\ Plan[PlanLen(h - 1) + 1] = h
             /\ \A k \in 1..Segments[h] : Plan[PlanLen(h - 1) + 1 + k] = SegmentAt(h) + k - 1
  <2>1. /\ PlanLen(h - 1) \in Nat /\ PlanLen(h) \in Nat
        /\ PlanLen(h) = PlanLen(h - 1) + 1 + Segments[h]
        /\ PlanTo[h][PlanLen(h - 1) + 1] = h
        /\ \A k \in 1..Segments[h] : PlanTo[h][PlanLen(h - 1) + 1 + k] = SegmentAt(h) + k - 1
    BY PlanGrows, LenProperties DEF PlanLen
  <2>2. PlanLen(h) <= Len(Plan) /\ \A i \in 1..PlanLen(h) : PlanTo[h][i] = Plan[i]
    BY PlanGrows, PlanBegins DEF IsStartOf, PlanLen
  <2>3. Segments[h] \in Nat
    BY SegmentTypes
  <2>4. PlanLen(h - 1) + 1 \in 1..PlanLen(h)
    BY <2>1, <2>3
  <2>5. \A k \in 1..Segments[h] : PlanLen(h - 1) + 1 + k \in 1..PlanLen(h)
    BY <2>1, <2>3
  <2> QED BY <2>1, <2>2, <2>4, <2>5
<1> QED BY <1>2, <1>3, <1>4, <1>5
------------------------------------------------------------------------------
(* What has been read is the first m places of the plan.                   *)
Follows(s, m) ==
  s \in Seq(Nat) /\ Len(s) = m /\ m <= Len(Plan) /\ \A i \in 1..m : s[i] = Plan[i]

(* It goes on with the next place of the plan.                             *)
LEMMA FollowsNext ==
  ASSUME NEW m \in Nat, NEW s, Follows(s, m), m + 1 <= Len(Plan),
         NEW x \in Nat, x = Plan[m + 1]
  PROVE  Follows(Append(s, x), m + 1)
<1>1. s \in Seq(Nat) /\ Len(s) = m /\ \A i \in 1..m : s[i] = Plan[i]
  BY DEF Follows
<1>2. /\ Append(s, x) \in Seq(Nat) /\ Len(Append(s, x)) = m + 1
      /\ \A i \in 1..m : Append(s, x)[i] = s[i]
      /\ Append(s, x)[m + 1] = x
  BY <1>1, AppendProperties
<1>3. \A i \in 1..(m + 1) : i \in 1..m \/ i = m + 1
  OBVIOUS
<1>4. \A i \in 1..(m + 1) : Append(s, x)[i] = Plan[i]
  BY <1>1, <1>2, <1>3
<1> QED BY <1>2, <1>4 DEF Follows

(* It is a beginning of the plan, or all of it.                            *)
LEMMA FollowsBegins ==
  ASSUME NEW m \in Nat, NEW s, Follows(s, m)
  PROVE  s = SubSeq(Plan, 1, Len(s)) /\ (m = Len(Plan) => s = Plan)
<1>1. Plan \in Seq(Nat) /\ Len(Plan) \in Nat
  BY PlanAt, LenProperties
<1>2. s \in Seq(Nat) /\ Len(s) = m /\ m <= Len(Plan) /\ \A i \in 1..m : s[i] = Plan[i]
  BY DEF Follows
<1>3. /\ SubSeq(Plan, 1, m) \in Seq(Nat) /\ Len(SubSeq(Plan, 1, m)) = m
      /\ \A i \in 1..m : SubSeq(Plan, 1, m)[i] = Plan[i]
  <2>1. PICK p \in Seq(Nat) : p = Plan
    BY <1>1
  <2>2. m <= Len(p)
    BY <1>2, <2>1
  <2>3. /\ SubSeq(p, 1, m) \in Seq(Nat) /\ Len(SubSeq(p, 1, m)) = m
        /\ \A i \in 1..m : SubSeq(p, 1, m)[i] = p[i]
    BY <2>2
  <2> QED BY <2>1, <2>3
<1>4. s = SubSeq(Plan, 1, m)
  BY <1>2, <1>3, SeqEqual
<1>5. m = Len(Plan) => s = Plan
  BY <1>1, <1>2, SeqEqual
<1> QED BY <1>2, <1>4, <1>5

(***************************************************************************)
(* Where a load is, while the position has been its own.                   *)
(***************************************************************************)
Placed(t) ==
  LET h == header[t]
      before == PlanLen(h - 1)
  IN  /\ pc[t] = "read_disk" => read[t] = << >>
      /\ pc[t] = "load" => temp_pos = 0 /\ h = 1 /\ read[t] = << >>
      /\ pc[t] = "seek_header" => h \in 1..(Len(Segments) + 1) /\ Follows(read[t], before)
      /\ pc[t] = "read_header" => temp_pos = h /\ Follows(read[t], before)
      /\ pc[t] = "seek_segment" => page[t] = Segments[h] /\ Follows(read[t], before + 1)
      /\ pc[t] = "read_segment" =>
           /\ page[t] <= Segments[h]
           /\ temp_pos = SegmentAt(h) + (Segments[h] - page[t])
           /\ Follows(read[t], before + 1 + (Segments[h] - page[t]))
      /\ pc[t] \notin Loading => read[t] = << >> \/ Follows(read[t], Len(Plan))

(* What a load has in hand, whatever the others do to the position.        *)
InHand(t) ==
  /\ pc[t] \in {"read_header", "seek_segment", "read_segment"} => header[t] \in Headers
  /\ pc[t] \in {"seek_segment", "read_segment"} => page[t] > 0

LoadOK(t) == InHand(t) /\ (~disturbed[t] => Placed(t))

LoadsInv == LoadTypeOK /\ read \in [Task -> Seq(Nat)] /\ \A t \in Task : LoadOK(t)
------------------------------------------------------------------------------
(* A step of t leaves the others what they have, and the position or the   *)
(* mark that it has been moved.                                            *)
OthersWait(t) ==
  \A u \in Task : u # t =>
    /\ pc'[u] = pc[u] /\ header'[u] = header[u] /\ page'[u] = page[u] /\ read'[u] = read[u]
    /\ \/ temp_pos' = temp_pos /\ disturbed'[u] = disturbed[u]
       \/ disturbed'[u] <=> (disturbed[u] \/ pc[u] \in Loading)

(* So it is enough to look at t.                                           *)
LEMMA LoadsGoOn ==
  ASSUME LoadsInv, NEW t \in Task, OthersWait(t), LoadOK(t)',
         LoadTypeOK', read' \in [Task -> Seq(Nat)]
  PROVE  LoadsInv'
<1>1. ASSUME NEW u \in Task, u # t PROVE LoadOK(u)'
  <2>1. LoadOK(u)
    BY DEF LoadsInv
  <2>2. pc'[u] = pc[u] /\ header'[u] = header[u] /\ page'[u] = page[u] /\ read'[u] = read[u]
    BY <1>1 DEF OthersWait
  <2>3. InHand(u)'
    BY <2>1, <2>2 DEF LoadOK, InHand
  <2>4. CASE temp_pos' = temp_pos /\ disturbed'[u] = disturbed[u]
    <3>1. Placed(u) => Placed(u)'
      BY <2>2, <2>4 DEF Placed
    <3> QED BY <2>1, <2>3, <2>4, <3>1 DEF LoadOK
  <2>5. CASE disturbed'[u] <=> (disturbed[u] \/ pc[u] \in Loading)
    <3>1. ASSUME ~disturbed'[u] PROVE Placed(u)'
      <4>1. ~disturbed[u] /\ pc[u] \notin Loading
        BY <2>5, <3>1
      <4>2. read[u] = << >> \/ Follows(read[u], Len(Plan))
        BY <2>1, <4>1 DEF LoadOK, Placed
      <4> QED BY <2>2, <4>1, <4>2 DEF Placed, Loading
    <3> QED BY <2>3, <3>1 DEF LoadOK
  <2> QED BY <1>1, <2>4, <2>5 DEF OthersWait
<1> QED BY <1>1 DEF LoadsInv

(* Nobody loads, and nothing of a load changes.                            *)
LEMMA LoadsRest ==
  ASSUME LoadsInv, UNCHANGED << temp_pos, header, page >>,
         read' \in [Task -> Seq(Nat)], disturbed' \in [Task -> BOOLEAN],
         \A u \in Task : \/ pc'[u] = pc[u] /\ read'[u] = read[u] /\ disturbed'[u] = disturbed[u]
                         \/ /\ pc[u] \notin Loading /\ pc'[u] \notin Loading
                            /\ read'[u] = << >> \/ (read'[u] = read[u] /\ disturbed'[u] = disturbed[u])
  PROVE  LoadsInv'
<1>1. LoadTypeOK'
  BY DEF LoadsInv, LoadTypeOK
<1>2. ASSUME NEW u \in Task PROVE LoadOK(u)'
  <2>1. LoadOK(u)
    BY DEF LoadsInv
  <2>2. CASE pc'[u] = pc[u] /\ read'[u] = read[u] /\ disturbed'[u] = disturbed[u]
    <3>1. InHand(u)'
      BY <2>1, <2>2 DEF LoadOK, InHand
    <3>2. Placed(u) => Placed(u)'
      BY <2>2 DEF Placed
    <3> QED BY <2>1, <2>2, <3>1, <3>2 DEF LoadOK
  <2>3. CASE /\ pc[u] \notin Loading /\ pc'[u] \notin Loading
             /\ read'[u] = << >> \/ (read'[u] = read[u] /\ disturbed'[u] = disturbed[u])
    <3>1. InHand(u)'
      BY <2>3 DEF InHand, Loading
    <3>2. ~disturbed'[u] => read'[u] = << >> \/ Follows(read'[u], Len(Plan))
      BY <2>1, <2>3 DEF LoadOK, Placed
    <3>3. ~disturbed'[u] => Placed(u)'
      BY <2>3, <3>2 DEF Placed, Loading
    <3> QED BY <3>1, <3>3 DEF LoadOK
  <2> QED BY <2>2, <2>3
<1> QED BY <1>1, <1>2 DEF LoadsInv

(* A read, as far as it is the same for all,                               *)
LEMMA ReadStep ==
  ASSUME LoadsInv, NEW t \in Task, image_read(t)
  PROVE  /\ temp_pos' = temp_pos + 1 /\ temp_pos \in Nat /\ temp_pos' \in Nat
         /\ read' \in [Task -> Seq(Nat)] /\ disturbed' \in [Task -> BOOLEAN]
         /\ disturbed'[t] = disturbed[t]
         /\ ~disturbed[t] => read'[t] = Append(read[t], temp_pos)
         /\ \A u \in Task : u # t =>
              read'[u] = read[u] /\ (disturbed'[u] <=> (disturbed[u] \/ pc[u] \in Loading))
<1>1. temp_pos \in Nat /\ read \in [Task -> Seq(Nat)] /\ disturbed \in [Task -> BOOLEAN]
  BY DEF LoadsInv, LoadTypeOK
<1>2. Append(read[t], temp_pos) \in Seq(Nat) /\ << >> \in Seq(Nat)
  BY <1>1, AppendProperties
<1>3. PICK s \in Seq(Nat) : /\ s = IF disturbed[t] THEN << >> ELSE Append(read[t], temp_pos)
                            /\ read' = [read EXCEPT ![t] = s]
  BY <1>2 DEF image_read
<1>4. read' \in [Task -> Seq(Nat)] /\ read'[t] = s /\ \A u \in Task : u # t => read'[u] = read[u]
  BY <1>1, <1>3
<1>5. /\ disturbed' \in [Task -> BOOLEAN] /\ disturbed'[t] = disturbed[t]
      /\ \A u \in Task : u # t => (disturbed'[u] <=> (disturbed[u] \/ pc[u] \in Loading))
  BY <1>1, Zenon DEF image_read, Disturbs
<1>6. temp_pos' = temp_pos + 1 /\ temp_pos' \in Nat
  BY <1>1 DEF image_read
<1> QED BY <1>1, <1>3, <1>4, <1>5, <1>6

(* and a seek.                                                             *)
LEMMA SeekStep ==
  ASSUME LoadsInv, NEW t \in Task, NEW pos \in Nat, sys_lseek(t, pos)
  PROVE  /\ temp_pos' = pos /\ disturbed' \in [Task -> BOOLEAN]
         /\ disturbed'[t] = disturbed[t]
         /\ \A u \in Task : u # t => (disturbed'[u] <=> (disturbed[u] \/ pc[u] \in Loading))
<1>1. disturbed \in [Task -> BOOLEAN]
  BY DEF LoadsInv, LoadTypeOK
<1> QED BY <1>1, Zenon DEF sys_lseek, Disturbs

(* The steps of a load, one by one.  The image is fetched,                 *)
LEMMA FetchLoad ==
  ASSUME FilesInv, LoadsInv, NEW t \in Task, read_disk(t)
  PROVE  LoadsInv'
<1> DEFINE alone == \A u \in Task : pc[u] # "read_disk"
<1>1. /\ pc[t] = "user" /\ pc' = [pc EXCEPT ![t] = "read_disk"]
      /\ UNCHANGED << temp_pos, header, page >>
      /\ read' = [read EXCEPT ![t] = << >>] /\ disturbed' = [Disturbs(t) EXCEPT ![t] = ~alone]
  BY DEF read_disk, Goes
<1>2. /\ LoadTypeOK /\ read \in [Task -> Seq(Nat)] /\ DOMAIN pc = Task
  BY DEF LoadsInv, FilesInv, OpenTypeOK
<1>3. /\ disturbed' \in [Task -> BOOLEAN]
      /\ \A u \in Task : u # t => (disturbed'[u] <=> (disturbed[u] \/ pc[u] \in Loading))
  <2>1. (~alone) \in BOOLEAN
    OBVIOUS
  <2> HIDE DEF alone
  <2> QED BY <1>1, <1>2, <2>1, Zenon DEF Disturbs, LoadTypeOK
<1>4. LoadTypeOK'
  BY <1>1, <1>2, <1>3 DEF LoadTypeOK
<1>5. << >> \in Seq(Nat) /\ read' \in [Task -> Seq(Nat)]
  BY <1>1, <1>2
<1>6. pc'[t] = "read_disk" /\ read'[t] = << >> /\ \A u \in Task : u # t => pc'[u] = pc[u] /\ read'[u] = read[u]
  BY <1>1, <1>2
<1>7. LoadOK(t)'
  <2>1. InHand(t)'
    BY <1>6 DEF InHand
  <2>2. Placed(t)'
    BY <1>6 DEF Placed, Loading
  <2> QED BY <2>1, <2>2 DEF LoadOK
<1>8. OthersWait(t)
  BY <1>1, <1>3, <1>6 DEF OthersWait
<1> QED BY <1>4, <1>5, <1>7, <1>8, LoadsGoOn

(* the position goes to its beginning,                                     *)
LEMMA BeginLoad ==
  ASSUME FilesInv, LoadsInv, NEW t \in Task, open_image(t)
  PROVE  LoadsInv'
<1>1. /\ pc[t] = "read_disk" /\ sys_lseek(t, 0) /\ UNCHANGED << page, read >>
      /\ \/ pc' = [pc EXCEPT ![t] = "load"] /\ header' = [header EXCEPT ![t] = 1]
         \/ pc' = [pc EXCEPT ![t] = "user"] /\ header' = header
  BY DEF open_image, Goes
<1>2. LoadTypeOK /\ LoadOK(t) /\ read \in [Task -> Seq(Nat)] /\ DOMAIN pc = Task
  BY DEF LoadsInv, FilesInv, OpenTypeOK
<1>3. /\ temp_pos' = 0 /\ disturbed' \in [Task -> BOOLEAN] /\ disturbed'[t] = disturbed[t]
      /\ \A u \in Task : u # t => (disturbed'[u] <=> (disturbed[u] \/ pc[u] \in Loading))
  BY <1>1, SeekStep
<1>4. LoadTypeOK' /\ read' \in [Task -> Seq(Nat)]
  <2>1. 1 \in 0..(Len(Segments) + 1)
    BY SegmentTypes
  <2>2. header' \in [Task -> 0..(Len(Segments) + 1)]
    BY <1>1, <1>2, <2>1 DEF LoadTypeOK
  <2> QED BY <1>1, <1>2, <1>3, <2>2 DEF LoadTypeOK
<1>5. \/ pc'[t] = "load" /\ header'[t] = 1
      \/ pc'[t] = "user"
  BY <1>1, <1>2 DEF LoadTypeOK
<1>6. \A u \in Task : u # t => pc'[u] = pc[u] /\ header'[u] = header[u]
  BY <1>1, <1>2 DEF LoadTypeOK
<1>7. InHand(t)'
  BY <1>5 DEF InHand
<1>8. ASSUME ~disturbed'[t] PROVE Placed(t)'
  <2>1. read[t] = << >>
    BY <1>1, <1>2, <1>3, <1>8 DEF LoadOK, Placed
  <2> QED BY <1>1, <1>3, <1>5, <2>1 DEF Placed, Loading
<1>9. OthersWait(t)
  BY <1>1, <1>3, <1>6 DEF OthersWait
<1> QED BY <1>4, <1>7, <1>8, <1>9, LoadsGoOn DEF LoadOK

(* where the header is read.                                               *)
LEMMA HeaderOfFile ==
  ASSUME FilesInv, LoadsInv, NEW t \in Task, read_elf_header(t)
  PROVE  LoadsInv'
<1>1. /\ pc[t] = "load" /\ image_read(t) /\ header' = header /\ page' = page
  BY DEF read_elf_header
<1>2. PICK to \in {"seek_header", "user"} :
        pc' = [pc EXCEPT ![t] = to] /\ (to = "seek_header" <=> temp_pos = 0)
  BY DEF read_elf_header, Goes
<1>3. LoadTypeOK /\ LoadOK(t) /\ read \in [Task -> Seq(Nat)] /\ DOMAIN pc = Task
  BY DEF LoadsInv, FilesInv, OpenTypeOK
<1>4. LoadTypeOK' /\ read' \in [Task -> Seq(Nat)]
  BY <1>1, <1>3, ReadStep DEF LoadTypeOK
<1>5. pc'[t] = to /\ header'[t] = header[t] /\ \A u \in Task : u # t => pc'[u] = pc[u]
  BY <1>1, <1>2, <1>3
<1>6. InHand(t)'
  BY <1>5 DEF InHand
<1>7. ASSUME ~disturbed'[t] PROVE Placed(t)'
  <2>1. ~disturbed[t] /\ temp_pos = 0 /\ header[t] = 1 /\ read[t] = << >>
    BY <1>1, <1>3, <1>7, ReadStep DEF LoadOK, Placed
  <2>2. to = "seek_header" /\ read'[t] = Append(<< >>, 0)
    BY <1>1, <1>2, <2>1, ReadStep
  <2>3. Follows(<< >>, 0)
    BY PlanAt DEF Follows
  <2>4. Follows(Append(<< >>, 0), 1)
    <3>1. 0 \in Nat /\ 0 + 1 = 1 /\ 1 <= Len(Plan) /\ Plan[1] = 0
      BY PlanAt
    <3> QED BY <2>3, <3>1, FollowsNext
  <2>5. PlanLen(1 - 1) = 1 /\ 1 \in 1..(Len(Segments) + 1)
    BY PlanAt, SegmentTypes
  <2> QED BY <1>5, <2>1, <2>2, <2>4, <2>5 DEF Placed, Loading
<1>8. OthersWait(t)
  BY <1>1, <1>5, ReadStep DEF OthersWait
<1> QED BY <1>4, <1>6, <1>7, <1>8, LoadsGoOn DEF LoadOK

(* The position is set to the next program header,                         *)
LEMMA SeekHeaderLoad ==
  ASSUME FilesInv, LoadsInv, NEW t \in Task, seek_header(t)
  PROVE  LoadsInv'
<1>1. /\ pc[t] = "seek_header" /\ pc' = [pc EXCEPT ![t] = "read_header"]
      /\ sys_lseek(t, header[t]) /\ header[t] \in Headers
      /\ header' = header /\ page' = page /\ read' = read
  BY DEF seek_header, Goes
<1>2. LoadTypeOK /\ LoadOK(t) /\ read \in [Task -> Seq(Nat)] /\ DOMAIN pc = Task
  BY DEF LoadsInv, FilesInv, OpenTypeOK
<1>3. /\ temp_pos' = header[t] /\ header[t] \in Nat /\ disturbed' \in [Task -> BOOLEAN]
      /\ disturbed'[t] = disturbed[t]
      /\ \A u \in Task : u # t => (disturbed'[u] <=> (disturbed[u] \/ pc[u] \in Loading))
  <2>1. header[t] \in Nat
    BY <1>1 DEF Headers
  <2> QED BY <1>1, <2>1, SeekStep
<1>4. LoadTypeOK' /\ read' \in [Task -> Seq(Nat)]
  BY <1>1, <1>2, <1>3 DEF LoadTypeOK
<1>5. pc'[t] = "read_header" /\ \A u \in Task : u # t => pc'[u] = pc[u]
  BY <1>1, <1>2
<1>6. InHand(t)'
  BY <1>1, <1>5 DEF InHand
<1>7. ASSUME ~disturbed'[t] PROVE Placed(t)'
  <2>1. Follows(read[t], PlanLen(header[t] - 1))
    BY <1>1, <1>2, <1>3, <1>7 DEF LoadOK, Placed
  <2> QED BY <1>1, <1>3, <1>5, <2>1 DEF Placed, Loading
<1>8. OthersWait(t)
  BY <1>1, <1>3, <1>5 DEF OthersWait
<1> QED BY <1>4, <1>6, <1>7, <1>8, LoadsGoOn DEF LoadOK

(* which is read: it has a segment, or it has none.                        *)
LEMMA ReadHeaderLoad ==
  ASSUME FilesInv, LoadsInv, NEW t \in Task, read_header(t)
  PROVE  LoadsInv'
<1>1. pc[t] = "read_header" /\ image_read(t)
  BY DEF read_header
<1>2. LoadTypeOK /\ LoadOK(t) /\ read \in [Task -> Seq(Nat)] /\ DOMAIN pc = Task
  BY DEF LoadsInv, FilesInv, OpenTypeOK
<1>3. PICK h \in Headers, s \in Nat : h = header[t] /\ s = Segments[h] /\ h + 1 \in 0..(Len(Segments) + 1)
  <2>1. header[t] \in Headers
    BY <1>1, <1>2 DEF LoadOK, InHand
  <2>2. header[t] + 1 \in 0..(Len(Segments) + 1)
    BY <2>1, SegmentTypes DEF Headers
  <2> QED BY <2>1, <2>2, SegmentTypes
<1>4. \/ /\ temp_pos # h /\ pc' = [pc EXCEPT ![t] = "user"]
         /\ header' = header /\ page' = page
      \/ /\ temp_pos = h /\ s = 0 /\ pc' = [pc EXCEPT ![t] = "seek_header"]
         /\ header' = [header EXCEPT ![t] = h + 1] /\ page' = page
      \/ /\ temp_pos = h /\ s > 0 /\ pc' = [pc EXCEPT ![t] = "seek_segment"]
         /\ page' = [page EXCEPT ![t] = s] /\ header' = header
  BY <1>3 DEF read_header, Goes
<1>5. LoadTypeOK' /\ read' \in [Task -> Seq(Nat)]
  <2>1. header' \in [Task -> 0..(Len(Segments) + 1)]
    BY <1>2, <1>3, <1>4 DEF LoadTypeOK
  <2>2. page' \in [Task -> Nat]
    BY <1>2, <1>4 DEF LoadTypeOK
  <2> QED BY <1>1, <2>1, <2>2, ReadStep DEF LoadTypeOK
<1>6. \A u \in Task : u # t => pc'[u] = pc[u] /\ header'[u] = header[u] /\ page'[u] = page[u]
  BY <1>2, <1>4 DEF LoadTypeOK
<1>7. OthersWait(t)
  BY <1>1, <1>6, ReadStep DEF OthersWait
<1>8. \/ temp_pos # h /\ pc'[t] = "user"
      \/ s = 0 /\ pc'[t] = "seek_header" /\ header'[t] = h + 1
      \/ s > 0 /\ pc'[t] = "seek_segment" /\ header'[t] = h /\ page'[t] = s
  BY <1>2, <1>3, <1>4 DEF LoadTypeOK
<1>9. InHand(t)'
  BY <1>3, <1>8 DEF InHand
<1>10. ASSUME ~disturbed'[t] PROVE Placed(t)'
  <2>1. ~disturbed[t] /\ temp_pos = h /\ Follows(read[t], PlanLen(h - 1))
    BY <1>1, <1>2, <1>3, <1>10, ReadStep DEF LoadOK, Placed
  <2>2. PICK m \in Nat : /\ m = PlanLen(h - 1) /\ m + 1 <= Len(Plan) /\ Plan[m + 1] = h
                         /\ PlanLen(h) = m + 1 + s
    <3>1. /\ PlanLen(h - 1) \in Nat /\ PlanLen(h) = PlanLen(h - 1) + 1 + s
          /\ PlanLen(h) <= Len(Plan) /\ Plan[PlanLen(h - 1) + 1] = h
      BY <1>3, PlanAt
    <3>2. Len(Plan) \in Nat
      BY PlanAt, LenProperties
    <3> QED BY <3>1, <3>2
  <2>3. read'[t] = Append(read[t], h)
    BY <1>1, <2>1, ReadStep
  <2>4. h \in Nat /\ Follows(read[t], m)
    BY <1>3, <2>1, <2>2 DEF Headers
  <2>5. Follows(read'[t], m + 1)
    BY <2>2, <2>3, <2>4, FollowsNext
  <2>6. CASE s = 0 /\ pc'[t] = "seek_header" /\ header'[t] = h + 1
    <3>1. (h + 1) - 1 = h /\ PlanLen(h) = m + 1 /\ h + 1 \in 1..(Len(Segments) + 1)
      BY <1>3, <2>2, <2>4, <2>6, SegmentTypes
    <3> QED BY <2>5, <2>6, <3>1 DEF Placed, Loading
  <2>7. CASE s > 0 /\ pc'[t] = "seek_segment" /\ header'[t] = h /\ page'[t] = s
    BY <1>3, <2>2, <2>5, <2>7 DEF Placed, Loading
  <2> QED BY <1>8, <2>1, <2>6, <2>7
<1> QED BY <1>5, <1>7, <1>9, <1>10, LoadsGoOn DEF LoadOK

(* The position is set to the segment,                                     *)
LEMMA SeekSegmentLoad ==
  ASSUME FilesInv, LoadsInv, NEW t \in Task, seek_segment(t)
  PROVE  LoadsInv'
<1>1. /\ pc[t] = "seek_segment" /\ pc' = [pc EXCEPT ![t] = "read_segment"]
      /\ sys_lseek(t, SegmentAt(header[t]))
      /\ header' = header /\ page' = page /\ read' = read
  BY DEF seek_segment, Goes
<1>2. LoadTypeOK /\ LoadOK(t) /\ read \in [Task -> Seq(Nat)] /\ DOMAIN pc = Task
  BY DEF LoadsInv, FilesInv, OpenTypeOK
<1>3. PICK h \in Headers, s \in Nat : h = header[t] /\ s = Segments[h] /\ SegmentAt(h) \in Nat
  <2>1. header[t] \in Headers
    BY <1>1, <1>2 DEF LoadOK, InHand
  <2> QED BY <2>1, SegmentTypes, SegPagesIs
<1>4. /\ temp_pos' = SegmentAt(h) /\ disturbed' \in [Task -> BOOLEAN]
      /\ disturbed'[t] = disturbed[t]
      /\ \A u \in Task : u # t => (disturbed'[u] <=> (disturbed[u] \/ pc[u] \in Loading))
  BY <1>1, <1>3, SeekStep
<1>5. LoadTypeOK' /\ read' \in [Task -> Seq(Nat)]
  BY <1>1, <1>2, <1>3, <1>4 DEF LoadTypeOK
<1>6. pc'[t] = "read_segment" /\ \A u \in Task : u # t => pc'[u] = pc[u]
  BY <1>1, <1>2
<1>7. InHand(t)'
  BY <1>1, <1>2, <1>3, <1>6 DEF LoadOK, InHand
<1>8. ASSUME ~disturbed'[t] PROVE Placed(t)'
  <2>1. page[t] = s /\ Follows(read[t], PlanLen(h - 1) + 1)
    BY <1>1, <1>2, <1>3, <1>4, <1>8 DEF LoadOK, Placed
  <2>2. PlanLen(h - 1) \in Nat
    BY PlanAt
  <2>3. s <= s /\ SegmentAt(h) = SegmentAt(h) + (s - s) /\ PlanLen(h - 1) + 1 = PlanLen(h - 1) + 1 + (s - s)
    BY <1>3, <2>2
  <2> QED BY <1>1, <1>3, <1>4, <1>6, <2>1, <2>3 DEF Placed, Loading
<1>9. OthersWait(t)
  BY <1>1, <1>4, <1>6 DEF OthersWait
<1> QED BY <1>5, <1>7, <1>8, <1>9, LoadsGoOn DEF LoadOK

(* of which one page after the other is read.                              *)
LEMMA ReadSegmentLoad ==
  ASSUME FilesInv, LoadsInv, NEW t \in Task, read_segment(t)
  PROVE  LoadsInv'
<1>1. pc[t] = "read_segment" /\ image_read(t)
  BY DEF read_segment
<1>2. LoadTypeOK /\ LoadOK(t) /\ read \in [Task -> Seq(Nat)] /\ DOMAIN pc = Task
  BY DEF LoadsInv, FilesInv, OpenTypeOK
<1>3. PICK h \in Headers, s \in Nat : h = header[t] /\ s = Segments[h] /\ h + 1 \in 0..(Len(Segments) + 1)
  <2>1. header[t] \in Headers
    BY <1>1, <1>2 DEF LoadOK, InHand
  <2>2. header[t] + 1 \in 0..(Len(Segments) + 1)
    BY <2>1, SegmentTypes DEF Headers
  <2> QED BY <2>1, <2>2, SegmentTypes
<1>4. PICK p \in Nat : p = page[t] /\ p > 0
  BY <1>1, <1>2 DEF LoadOK, InHand, LoadTypeOK
<1>5. /\ page' = [page EXCEPT ![t] = p - 1]
      /\ \/ p > 1 /\ pc' = pc /\ header' = header
         \/ /\ p = 1 /\ pc' = [pc EXCEPT ![t] = "seek_header"]
            /\ header' = [header EXCEPT ![t] = h + 1]
  BY <1>3, <1>4 DEF read_segment, Goes
<1>6. LoadTypeOK' /\ read' \in [Task -> Seq(Nat)]
  <2>1. header' \in [Task -> 0..(Len(Segments) + 1)]
    BY <1>2, <1>3, <1>5 DEF LoadTypeOK
  <2>2. p - 1 \in Nat
    BY <1>4
  <2>3. page' \in [Task -> Nat]
    BY <1>2, <1>5, <2>2 DEF LoadTypeOK
  <2> QED BY <1>1, <2>1, <2>3, ReadStep DEF LoadTypeOK
<1>7. \A u \in Task : u # t => pc'[u] = pc[u] /\ header'[u] = header[u] /\ page'[u] = page[u]
  BY <1>2, <1>5 DEF LoadTypeOK
<1>8. OthersWait(t)
  BY <1>1, <1>7, ReadStep DEF OthersWait
<1>9. \/ p > 1 /\ pc'[t] = "read_segment" /\ header'[t] = h /\ page'[t] = p - 1
      \/ p = 1 /\ pc'[t] = "seek_header" /\ header'[t] = h + 1
  BY <1>1, <1>2, <1>3, <1>5 DEF LoadTypeOK
<1>10. InHand(t)'
  BY <1>3, <1>9 DEF InHand
<1>11. ASSUME ~disturbed'[t] PROVE Placed(t)'
  <2>1. /\ ~disturbed[t] /\ p <= s /\ temp_pos = SegmentAt(h) + (s - p)
        /\ Follows(read[t], PlanLen(h - 1) + 1 + (s - p))
    BY <1>1, <1>2, <1>3, <1>4, <1>11, ReadStep DEF LoadOK, Placed
  <2>2. PICK b \in Nat, a \in Nat :
          /\ b = PlanLen(h - 1) /\ a = SegmentAt(h) /\ PlanLen(h) = b + 1 + s
          /\ PlanLen(h) <= Len(Plan) /\ \A k \in 1..s : Plan[b + 1 + k] = a + k - 1
    <3>1. /\ PlanLen(h - 1) \in Nat /\ SegmentAt(h) \in Nat
          /\ PlanLen(h) = PlanLen(h - 1) + 1 + s /\ PlanLen(h) <= Len(Plan)
          /\ \A k \in 1..s : Plan[PlanLen(h - 1) + 1 + k] = SegmentAt(h) + k - 1
      BY <1>3, PlanAt, SegPagesIs
    <3> QED BY <3>1
  <2>3. PICK m \in Nat, k \in 1..s : k = s - p + 1 /\ m = b + 1 + (s - p) /\ m + 1 = b + 1 + k
    <3>1. s - p + 1 \in 1..s /\ b + 1 + (s - p) \in Nat
      BY <1>4, <2>1
    <3>2. (b + 1 + (s - p)) + 1 = b + 1 + (s - p + 1)
      BY <1>4, <2>1
    <3> QED BY <3>1, <3>2
  <2>4. m + 1 <= Len(Plan) /\ Plan[m + 1] = a + k - 1 /\ temp_pos = a + k - 1
    <3>1. Len(Plan) \in Nat
      BY PlanAt, LenProperties
    <3>2. temp_pos = a + (s - p) /\ a + k - 1 = a + (s - p)
      <4>1. temp_pos = a + (s - p)
        BY <2>1, <2>2, Zenon
      <4>2. k = s - p + 1 /\ a \in Nat /\ s \in Nat /\ p \in Nat
        BY <2>3
      <4>3. a + k - 1 = a + (s - p)
        BY <4>2
      <4> QED BY <4>1, <4>3
    <3>3. b + 1 + k <= Len(Plan)
      BY <2>2, <3>1
    <3>4. Plan[b + 1 + k] = a + k - 1
      BY <2>2
    <3> QED BY <2>3, <3>2, <3>3, <3>4
  <2>5. temp_pos \in Nat /\ read'[t] = Append(read[t], temp_pos) /\ temp_pos' = temp_pos + 1
    BY <1>1, <2>1, ReadStep
  <2>6. Follows(read[t], m)
    BY <2>1, <2>2, <2>3
  <2>7. Follows(read'[t], m + 1)
    BY <2>4, <2>5, <2>6, FollowsNext
  <2>8. CASE p > 1 /\ pc'[t] = "read_segment" /\ header'[t] = h /\ page'[t] = p - 1
    <3>1. /\ p - 1 <= s /\ temp_pos' = a + (s - (p - 1)) /\ m + 1 = b + 1 + (s - (p - 1))
      <4>1. temp_pos' = a + k - 1 + 1
        BY <2>4, <2>5
      <4> QED BY <1>4, <2>1, <2>3, <4>1
    <3> QED BY <1>3, <2>2, <2>7, <2>8, <3>1 DEF Placed, Loading
  <2>9. CASE p = 1 /\ pc'[t] = "seek_header" /\ header'[t] = h + 1
    <3>1. (h + 1) - 1 = h /\ h + 1 \in 1..(Len(Segments) + 1)
      BY <1>3, SegmentTypes DEF Headers
    <3>2. PlanLen(h) = m + 1
      BY <2>2, <2>3, <2>9
    <3> QED BY <2>7, <2>9, <3>1, <3>2 DEF Placed, Loading
  <2> QED BY <1>9, <2>8, <2>9
<1> QED BY <1>6, <1>8, <1>10, <1>11, LoadsGoOn DEF LoadOK

(* After the last program header all has been read.                        *)
LEMMA EndLoad ==
  ASSUME FilesInv, LoadsInv, NEW t \in Task, load_ends(t)
  PROVE  LoadsInv'
<1>1. /\ pc[t] = "seek_header" /\ pc' = [pc EXCEPT ![t] = "user"]
      /\ header[t] = Len(Segments) + 1 /\ header' = [header EXCEPT ![t] = 0]
      /\ UNCHANGED << temp_pos, page, read, disturbed >>
  BY DEF load_ends, Goes
<1>2. LoadTypeOK /\ LoadOK(t) /\ read \in [Task -> Seq(Nat)] /\ DOMAIN pc = Task
  BY DEF LoadsInv, FilesInv, OpenTypeOK
<1>3. LoadTypeOK' /\ read' \in [Task -> Seq(Nat)]
  <2>1. 0 \in 0..(Len(Segments) + 1)
    BY SegmentTypes
  <2> QED BY <1>1, <1>2, <2>1 DEF LoadTypeOK
<1>4. pc'[t] = "user" /\ \A u \in Task : u # t => pc'[u] = pc[u] /\ header'[u] = header[u]
  BY <1>1, <1>2 DEF LoadTypeOK
<1>5. InHand(t)'
  BY <1>4 DEF InHand
<1>6. ASSUME ~disturbed'[t] PROVE Placed(t)'
  <2>1. Follows(read[t], PlanLen(header[t] - 1))
    BY <1>1, <1>2, <1>6 DEF LoadOK, Placed
  <2>2. PlanLen(header[t] - 1) = Len(Plan)
    <3>1. header[t] - 1 = Len(Segments)
      BY <1>1, SegmentTypes
    <3> QED BY <3>1, PlanAt
  <2> QED BY <1>1, <1>4, <2>1, <2>2 DEF Placed, Loading
<1>7. OthersWait(t)
  BY <1>1, <1>4 DEF OthersWait
<1> QED BY <1>3, <1>5, <1>6, <1>7, LoadsGoOn DEF LoadOK

(* A program that reads the image itself disturbs every load.              *)
LEMMA ImageCallLoad ==
  ASSUME FilesInv, LoadsInv, NEW t \in Task, image_call(t)
  PROVE  LoadsInv'
<1>1. /\ pc[t] = "user" /\ UNCHANGED << pc, header, page, read >>
  BY DEF image_call
<1>2. LoadTypeOK /\ LoadOK(t) /\ read \in [Task -> Seq(Nat)]
  BY DEF LoadsInv
<1>3. PICK pos \in Nat : sys_lseek(t, pos)
  <2>1. {0, temp_pos + 1} \subseteq Nat
    BY <1>2 DEF LoadTypeOK
  <2> QED BY <2>1 DEF image_call
<1>4. /\ temp_pos' \in Nat /\ disturbed' \in [Task -> BOOLEAN] /\ disturbed'[t] = disturbed[t]
      /\ \A u \in Task : u # t => (disturbed'[u] <=> (disturbed[u] \/ pc[u] \in Loading))
  BY <1>3, SeekStep
<1>5. LoadTypeOK' /\ read' \in [Task -> Seq(Nat)]
  BY <1>1, <1>2, <1>4 DEF LoadTypeOK
<1>6. InHand(t)'
  BY <1>1 DEF InHand
<1>7. ASSUME ~disturbed'[t] PROVE Placed(t)'
  <2>1. read[t] = << >> \/ Follows(read[t], Len(Plan))
    BY <1>1, <1>2, <1>4, <1>7 DEF LoadOK, Placed, Loading
  <2> QED BY <1>1, <2>1 DEF Placed, Loading
<1>8. OthersWait(t)
  BY <1>1, <1>4 DEF OthersWait
<1> QED BY <1>5, <1>6, <1>7, <1>8, LoadsGoOn DEF LoadOK

(* sys_exit forgets what was read.                                         *)
LEMMA ExitLoads ==
  ASSUME FilesInv, LoadsInv, NEW t \in Task, exit(t)
  PROVE  LoadsInv'
<1>1. /\ pc[t] = "user" /\ pc' = [pc EXCEPT ![t] = "free"]
      /\ read' = [read EXCEPT ![t] = << >>] /\ disturbed' = [disturbed EXCEPT ![t] = FALSE]
      /\ UNCHANGED << temp_pos, header, page >>
  BY DEF exit, Goes
<1>2. /\ read \in [Task -> Seq(Nat)] /\ disturbed \in [Task -> BOOLEAN] /\ DOMAIN pc = Task
      /\ << >> \in Seq(Nat)
  BY DEF LoadsInv, LoadTypeOK, FilesInv, OpenTypeOK
<1>3. read' \in [Task -> Seq(Nat)] /\ disturbed' \in [Task -> BOOLEAN]
  BY <1>1, <1>2
<1>4. /\ pc'[t] = "free" /\ read'[t] = << >>
      /\ \A u \in Task : u # t => pc'[u] = pc[u] /\ read'[u] = read[u] /\ disturbed'[u] = disturbed[u]
  BY <1>1, <1>2
<1>5. pc[t] \notin Loading /\ pc'[t] \notin Loading
  BY <1>1, <1>4 DEF Loading
<1> QED BY <1>1, <1>3, <1>4, <1>5, LoadsRest

(* The calls on files move nothing of a load.                              *)
LEMMA CallLoads ==
  ASSUME FilesInv, LoadsInv, NEW t \in Task,
         \/ open_ends(t) \/ open_dev_failed(t) \/ open_failed(t) \/ dup_ends(t)
         \/ file_inc_ref(t) \/ copy_file(t)
         \/ (\E n \in 0..TooShort : open(t, n)) \/ (\E i \in Fd : dup(t, i))
  PROVE  LoadsInv'
<1>1. UNCHANGED << temp_pos, header, page, read, disturbed >>
  BY DEF open_ends, open_dev_failed, open_failed, dup_ends, file_inc_ref, copy_file, open, dup, loadVars
<1>2. PICK to \in {"user", "open_dev", "open_failed", "dup", "copy", "inc_ref"} :
        pc[t] \notin Loading /\ pc' = [pc EXCEPT ![t] = to]
  BY DEF open_ends, open_dev_failed, open_failed, dup_ends, file_inc_ref, copy_file, open, dup,
         Returns, Goes, Loading
<1>3. /\ read' \in [Task -> Seq(Nat)] /\ disturbed' \in [Task -> BOOLEAN] /\ DOMAIN pc = Task
  BY <1>1 DEF LoadsInv, LoadTypeOK, FilesInv, OpenTypeOK
<1>4. pc'[t] \notin Loading /\ \A u \in Task : u # t => pc'[u] = pc[u]
  BY <1>2, <1>3 DEF Loading
<1> QED BY <1>1, <1>2, <1>3, <1>4, LoadsRest

(* Nor does sys_fork.                                                      *)
LEMMA ForkLoads ==
  ASSUME FilesInv, LoadsInv, NEW t \in Task, fork_ends(t) \/ \E c \in Task : fork(t, c)
  PROVE  LoadsInv'
<1>1. UNCHANGED << temp_pos, header, page, read, disturbed >>
  BY DEF fork_ends, fork, loadVars
<1>2. /\ read' \in [Task -> Seq(Nat)] /\ disturbed' \in [Task -> BOOLEAN] /\ DOMAIN pc = Task
  BY <1>1 DEF LoadsInv, LoadTypeOK, FilesInv, OpenTypeOK
<1>3. PICK c \in Task, to \in {"copy", "user"}, new \in {"new", "user"} :
        pc[t] \notin Loading /\ pc[c] \notin Loading /\ pc' = [pc EXCEPT ![t] = to, ![c] = new]
  <2>1. CASE fork_ends(t)
    <3>1. pc[t] = "copy" /\ pc' = [pc EXCEPT ![t] = "user", ![child[t]] = "user"]
      BY <2>1 DEF fork_ends
    <3>2. child[t] \in Task /\ pc[child[t]] = "new"
      BY <3>1 DEF FilesInv, Callers, ChildrenApart, Copies
    <3> QED BY <3>1, <3>2 DEF Loading
  <2>2. ASSUME NEW c \in Task, fork(t, c)
        PROVE  /\ pc[t] \notin Loading /\ pc[c] \notin Loading
               /\ pc' = [pc EXCEPT ![t] = "copy", ![c] = "new"]
    BY <2>2 DEF fork, Loading
  <2>3. CASE \E c \in Task : fork(t, c)
    <3>1. PICK c \in Task : fork(t, c)
      BY <2>3
    <3>2. /\ pc[t] \notin Loading /\ pc[c] \notin Loading
          /\ pc' = [pc EXCEPT ![t] = "copy", ![c] = "new"]
      BY <2>2, <3>1
    <3> QED BY <3>2
  <2> QED BY <2>1, <2>3
<1>4. \A u \in Task : pc'[u] = pc[u] \/ (pc[u] \notin Loading /\ pc'[u] \notin Loading)
  <2>1. \A u \in Task : pc'[u] = pc[u] \/ (u \in {t, c} /\ pc'[u] \in {"copy", "new", "user"})
    BY <1>2, <1>3
  <2>2. \A p \in {"copy", "new", "user"} : p \notin Loading
    BY DEF Loading
  <2> QED BY <1>3, <2>1, <2>2
<1> QED BY <1>1, <1>2, <1>4, LoadsRest

(* At the start nobody loads.                                              *)
LEMMA InitLoads == Init => LoadsInv
<1> SUFFICES ASSUME Init PROVE LoadsInv
  OBVIOUS
<1>1. LoadTypeOK
  <2>1. 0 \in 0..(Len(Segments) + 1)
    BY SegmentTypes
  <2> QED BY <2>1 DEF Init, LoadTypeOK
<1>2. << >> \in Seq(Nat) /\ read \in [Task -> Seq(Nat)]
  BY DEF Init
<1>3. ASSUME NEW t \in Task PROVE LoadOK(t)
  <2>1. pc[t] \in {"user", "free"} /\ read[t] = << >>
    BY DEF Init
  <2> QED BY <2>1 DEF LoadOK, InHand, Placed, Loading
<1> QED BY <1>1, <1>2, <1>3 DEF LoadsInv

(* So every step of the system keeps the loads right.                      *)
LEMMA NextLoads == FilesInv /\ LoadsInv /\ [Next]_vars => LoadsInv'
<1> SUFFICES ASSUME FilesInv, LoadsInv, [Next]_vars PROVE LoadsInv'
  OBVIOUS
<1>1. ASSUME NEW t \in Task, Proceeds(t) PROVE LoadsInv'
  BY <1>1, CallLoads, ForkLoads, BeginLoad, HeaderOfFile, SeekHeaderLoad, ReadHeaderLoad, SeekSegmentLoad,
     ReadSegmentLoad, EndLoad DEF Proceeds
<1>2. ASSUME NEW t \in Task, Begins(t) PROVE LoadsInv'
  BY <1>2, CallLoads, ForkLoads, ExitLoads, FetchLoad, ImageCallLoad DEF Begins
<1>3. CASE UNCHANGED vars
  <2>1. UNCHANGED << pc, temp_pos, header, page, read, disturbed >>
    BY <1>3 DEF vars, loadVars
  <2>2. read' \in [Task -> Seq(Nat)] /\ disturbed' \in [Task -> BOOLEAN]
    BY <2>1 DEF LoadsInv, LoadTypeOK
  <2> QED BY <2>1, <2>2, LoadsRest
<1> QED BY <1>1, <1>2, <1>3 DEF Next, Rest

(* And this is what LoadsRight says.                                       *)
LEMMA LoadsRightHolds == LoadsInv => LoadsRight
<1> SUFFICES ASSUME LoadsInv, NEW t \in Task, ~disturbed[t]
             PROVE  IF pc[t] \in Loading THEN read[t] = SubSeq(Plan, 1, Len(read[t]))
                    ELSE read[t] \in { << >>, Plan }
  BY DEF LoadsRight
<1>1. Placed(t) /\ InHand(t) /\ header[t] \in 0..(Len(Segments) + 1) /\ page[t] \in Nat
  BY DEF LoadsInv, LoadOK, LoadTypeOK
<1>2. ASSUME NEW m \in Nat, Follows(read[t], m)
      PROVE  read[t] = SubSeq(Plan, 1, Len(read[t]))
  BY <1>2, FollowsBegins
<1>3. CASE pc[t] \in {"read_disk", "load"}
  <2>1. read[t] = << >>
    BY <1>1, <1>3 DEF Placed
  <2>2. Follows(<< >>, 0)
    BY PlanAt DEF Follows
  <2> QED BY <1>2, <1>3, <2>1, <2>2 DEF Loading
<1>4. ASSUME NEW h \in 1..(Len(Segments) + 1) PROVE PlanLen(h - 1) \in Nat
  <2>1. h - 1 \in 0..Len(Segments)
    BY SegmentTypes
  <2> QED BY <2>1, PlanToIs, LenProperties DEF PlanLen
<1>5. CASE pc[t] = "seek_header"
  BY <1>1, <1>2, <1>4, <1>5 DEF Placed, Loading
<1>6. CASE pc[t] \in {"read_header", "seek_segment", "read_segment"}
  <2>1. PICK h \in Headers : h = header[t]
    BY <1>1, <1>6 DEF InHand
  <2>2. PICK b \in Nat, s \in Nat : b = PlanLen(h - 1) /\ s = Segments[h]
    BY PlanAt, SegmentTypes
  <2>3. b + 1 \in Nat /\ (page[t] <= s => b + 1 + (s - page[t]) \in Nat)
    BY <1>1
  <2>4. \E m \in Nat : Follows(read[t], m)
    BY <1>1, <1>6, <2>1, <2>2, <2>3 DEF Placed
  <2> QED BY <1>2, <1>6, <2>4 DEF Loading
<1>7. CASE pc[t] \notin Loading
  <2>1. Len(Plan) \in Nat
    BY PlanAt, LenProperties
  <2>2. Follows(read[t], Len(Plan)) => read[t] = Plan
    BY <2>1, FollowsBegins
  <2> QED BY <1>1, <1>7, <2>2 DEF Placed
<1> QED BY <1>3, <1>5, <1>6, <1>7 DEF Loading

(***************************************************************************)
(* All the variables of the files and of the loads keep their types.       *)
(***************************************************************************)
THEOREM FilesTypes == Spec => []FilesTypeOK
<1>1. FilesInv /\ LoadsInv /\ OpenedInv => FilesTypeOK
  BY DEF FilesInv, LoadsInv, OpenedInv, OpenedType, FilesTypeOK
<1> QED BY <1>1, InitHolds, NextHolds, InitLoads, NextLoads, InitOpened, NextOpened, PTL DEF Spec

(***************************************************************************)
(* A load that no other process disturbs reads the header of the image,    *)
(* its program headers and every page of every segment, each from its      *)
(* place, whatever the image is made of and whenever the clock gives the   *)
(* CPU to the others.                                                      *)
(***************************************************************************)
THEOREM LoadsAreRight == Spec => []LoadsRight
BY InitHolds, NextHolds, InitLoads, NextLoads, LoadsRightHolds, PTL DEF Spec
==============================================================================
