---------------------------- MODULE MemoryProofs ----------------------------
(***************************************************************************)
(* Proofs about Memory, for any number of pages, tables, entries, tasks    *)
(* and programs.                                                           *)
(*                                                                         *)
(* The invariant MemInv says who owns each page (a stop of a space, of the *)
(* directory a call fills or destroys, a kernel stack, the page in hand)   *)
(* and that these are exactly the pages in use, each owned once; and it    *)
(* says for each place a call can be at what its variables mean there:     *)
(* which part of the copy is there, which ranges are still to be mapped.   *)
(* A step is looked at from the outside first: StepOf(t, c) is what it     *)
(* leaves alone of every task but its own and one other, its child; then   *)
(* from the inside, action by action.  At the end are the theorems.        *)
(***************************************************************************)
EXTENDS Memory, Numbers, SequenceTheorems

(***************************************************************************)
(* The stops of a walk in rows: a row has a stop for each frame of a       *)
(* table, and then one for the table.                                      *)
(***************************************************************************)
W == PteCount + 1
Row(n)    == ((n - 1) \div W) + 1
Col(n)    == ((n - 1) % W) + 1
RowEnd(n) == Row(n) * W

FrameStop(v) == (pde_index(v) - 1) * W + pte_index(v)
TableStop(v) == pde_index(v) * W

(* How many stops, pages and entries there are.                            *)
LEMMA Sizes ==
  /\ PdeCount \in Nat \ {0} /\ PteCount \in Nat \ {0} /\ W \in Nat \ {0}
  /\ LastStop = PdeCount * W + 1 /\ LastStop \in Nat \ {0} /\ PdeCount * W \in Nat
  /\ VPages = PdeCount * PteCount /\ VPages \in Nat \ {0} /\ VPages + 1 <= LastStop
  /\ 1..PdeCount \subseteq Entry /\ 1..PteCount \subseteq Entry
<1>1. PdeCount \in Nat \ {0} /\ PteCount \in Nat \ {0} /\ W \in Nat \ {0}
  BY MemoryAssumption DEF W
<1>2. PdeCount * W = PdeCount * PteCount + PdeCount
  BY <1>1 DEF W
<1>3. PdeCount * PteCount \in Nat \ {0}
  BY <1>1
<1>4. LastStop = PdeCount * W + 1 /\ VPages = PdeCount * PteCount
  BY DEF LastStop, VPages, W
<1>5. Max({PdeCount, PteCount}) \in Nat /\ PdeCount <= Max({PdeCount, PteCount})
        /\ PteCount <= Max({PdeCount, PteCount})
  <2>1. \E m \in {PdeCount, PteCount} : \A n \in {PdeCount, PteCount} : m >= n
    BY <1>1
  <2> QED BY <1>1, <2>1 DEF Max
<1> QED BY <1>1, <1>2, <1>3, <1>4, <1>5 DEF Entry

(* A stop is where its row and its column say.                             *)
LEMMA RowAndCol ==
  ASSUME NEW n \in 1..(LastStop - 1)
  PROVE  /\ Row(n) \in 1..PdeCount /\ Col(n) \in 1..W
         /\ n = (Row(n) - 1) * W + Col(n)
<1> USE Sizes
<1>1. n - 1 \in Nat /\ n - 1 < PdeCount * W
  OBVIOUS
<1>2. PICK q \in Nat, r \in 0..(W - 1) :
        n - 1 = W * q + r /\ (n - 1) \div W = q /\ (n - 1) % W = r
  BY <1>1, QuotientExists
<1>3. q < PdeCount
  BY <1>1, <1>2, QuotientBelow
<1>4. Row(n) = q + 1 /\ Col(n) = r + 1
  BY <1>2 DEF Row, Col
<1>5. (Row(n) - 1) * W = W * q
  BY <1>4
<1>6. W * q \in Nat
  OBVIOUS
<1> HIDE Sizes
<1> QED BY <1>2, <1>3, <1>4, <1>5, <1>6, Sizes

(* and no other is there.                                                  *)
LEMMA RowsApart ==
  ASSUME NEW n \in 1..(LastStop - 1), NEW m \in 1..(LastStop - 1),
         Row(n) = Row(m), Col(n) = Col(m)
  PROVE  n = m
BY RowAndCol

(* Every row and column have their stop.                                   *)
LEMMA StopAtCoordinates ==
  ASSUME NEW i \in 1..PdeCount, NEW j \in 1..W
  PROVE  LET n == (i - 1) * W + j
         IN  n \in 1..(LastStop - 1) /\ Row(n) = i /\ Col(n) = j
<1> DEFINE n == (i - 1) * W + j
<1> USE Sizes
<1>1. i - 1 \in Nat /\ j - 1 \in 0..(W - 1)
  OBVIOUS
<1>2. (i - 1) * W \in Nat /\ (i - 1) * W = W * (i - 1)
  BY <1>1
<1>3. n - 1 = W * (i - 1) + (j - 1)
  BY <1>2
<1>4. (n - 1) \div W = i - 1 /\ (n - 1) % W = j - 1
  <2> HIDE Sizes DEF n
  <2>1. PICK q \in Nat, r \in 0..(W - 1) : q = i - 1 /\ r = j - 1
    BY <1>1
  <2>2. (W * q + r) \div W = q /\ (W * q + r) % W = r
    BY Sizes, QuotientUnique
  <2>3. n - 1 = W * q + r
    BY <1>3, <2>1
  <2> QED BY <2>1, <2>2, <2>3
<1>5. i * W <= PdeCount * W /\ i * W = (i - 1) * W + W
  BY ProductMonotonic
<1>6. n \in 1..(LastStop - 1)
  BY <1>2, <1>5
<1>7. Row(n) = i /\ Col(n) = j
  BY <1>4 DEF Row, Col
<1> QED BY <1>6, <1>7

(* The last stop of a row is the stop of its table.                        *)
LEMMA RowEnds ==
  ASSUME NEW n \in 1..(LastStop - 1)
  PROVE  /\ RowEnd(n) \in n..(LastStop - 1)
         /\ Row(RowEnd(n)) = Row(n) /\ Col(RowEnd(n)) = W
<1>1. Row(n) \in 1..PdeCount /\ Col(n) \in 1..W /\ n = (Row(n) - 1) * W + Col(n)
  BY RowAndCol
<1>2. (Row(n) - 1) * W + W = RowEnd(n) /\ (Row(n) - 1) * W \in Nat
  BY <1>1, Sizes DEF RowEnd
<1>3. W \in 1..W
  BY Sizes
<1>4. /\ (Row(n) - 1) * W + W \in 1..(LastStop - 1)
      /\ Row((Row(n) - 1) * W + W) = Row(n) /\ Col((Row(n) - 1) * W + W) = W
  BY <1>1, <1>3, StopAtCoordinates
<1> QED BY <1>1, <1>2, <1>4, Sizes

(* pde_index and pte_index say which page it is.                           *)
LEMMA PageIndices ==
  ASSUME NEW v \in VPage
  PROVE  /\ pde_index(v) \in 1..PdeCount /\ pte_index(v) \in 1..PteCount
         /\ v = (pde_index(v) - 1) * PteCount + pte_index(v)
<1> USE Sizes
<1>1. v - 1 \in Nat /\ v - 1 < PdeCount * PteCount
  BY DEF VPage
<1>2. PICK q \in Nat, r \in 0..(PteCount - 1) :
        v - 1 = PteCount * q + r /\ (v - 1) \div PteCount = q /\ (v - 1) % PteCount = r
  BY <1>1, QuotientExists
<1>3. q < PdeCount
  BY <1>1, <1>2, QuotientBelow
<1>4. pde_index(v) = q + 1 /\ pte_index(v) = r + 1
  BY <1>2 DEF pde_index, pte_index
<1>5. (pde_index(v) - 1) * PteCount = PteCount * q
  BY <1>4
<1>6. PteCount * q \in Nat
  OBVIOUS
<1> HIDE Sizes
<1> QED BY <1>2, <1>3, <1>4, <1>5, <1>6, Sizes DEF VPage

(* Where the stops of a page are.                                          *)
LEMMA StopsOfAPage ==
  ASSUME NEW v \in VPage
  PROVE  /\ FrameStop(v) \in 1..(LastStop - 1)
         /\ Row(FrameStop(v)) = pde_index(v) /\ Col(FrameStop(v)) = pte_index(v)
         /\ TableStop(v) \in 1..(LastStop - 1)
         /\ Row(TableStop(v)) = pde_index(v) /\ Col(TableStop(v)) = W
<1>1. pde_index(v) \in 1..PdeCount /\ pte_index(v) \in 1..PteCount
  BY PageIndices
<1>2. pte_index(v) \in 1..W /\ W \in 1..W
  BY <1>1, Sizes DEF W
<1>3. TableStop(v) = (pde_index(v) - 1) * W + W
  BY <1>1, Sizes DEF TableStop
<1> QED BY <1>1, <1>2, <1>3, StopAtCoordinates DEF FrameStop

(* Two pages do not share the stop of a frame.                             *)
LEMMA FrameStopsApart ==
  ASSUME NEW v \in VPage, NEW u \in VPage, FrameStop(v) = FrameStop(u)
  PROVE  v = u
BY StopsOfAPage, PageIndices

(* Every stop but the last is that of a frame or of a table.               *)
LEMMA StopIsOfAPage ==
  ASSUME NEW n \in 1..(LastStop - 1)
  PROVE  \E v \in VPage : n = IF Col(n) = W THEN TableStop(v) ELSE FrameStop(v)
<1>1. Row(n) \in 1..PdeCount /\ Col(n) \in 1..W
  BY RowAndCol
<1>2. ASSUME NEW i \in 1..PdeCount, NEW j \in 1..PteCount
      PROVE  \E v \in VPage : pde_index(v) = i /\ pte_index(v) = j
  <2> DEFINE v == (i - 1) * PteCount + j
  <2> USE Sizes
  <2>1. i - 1 \in Nat /\ j - 1 \in 0..(PteCount - 1)
    OBVIOUS
  <2>2. (i - 1) * PteCount \in Nat /\ (i - 1) * PteCount = PteCount * (i - 1)
    BY <2>1
  <2>3. v - 1 = PteCount * (i - 1) + (j - 1)
    BY <2>2
  <2>4. (v - 1) \div PteCount = i - 1 /\ (v - 1) % PteCount = j - 1
    <3>1. /\ (PteCount * (i - 1) + (j - 1)) \div PteCount = i - 1
          /\ (PteCount * (i - 1) + (j - 1)) % PteCount = j - 1
      BY <2>1, QuotientUnique
    <3> HIDE Sizes DEF v
    <3> QED BY <2>3, <3>1
  <2>5. i * PteCount <= PdeCount * PteCount /\ i * PteCount = (i - 1) * PteCount + PteCount
    BY ProductMonotonic
  <2>6. v \in VPage
    BY <2>2, <2>5 DEF VPage
  <2> QED BY <2>4, <2>6 DEF pde_index, pte_index
<1>3. CASE Col(n) = W
  <2>1. 1 \in 1..PteCount
    BY Sizes
  <2>2. PICK v \in VPage : pde_index(v) = Row(n)
    BY <1>1, <1>2, <2>1
  <2>3. TableStop(v) = n
    BY <1>3, <2>2, StopsOfAPage, RowsApart
  <2> QED BY <1>3, <2>3
<1>4. CASE Col(n) # W
  <2>1. Col(n) \in 1..PteCount
    BY <1>1, <1>4, Sizes DEF W
  <2>2. PICK v \in VPage : pde_index(v) = Row(n) /\ pte_index(v) = Col(n)
    BY <1>1, <1>2, <2>1
  <2>3. FrameStop(v) = n
    BY <2>2, StopsOfAPage, RowsApart
  <2> QED BY <1>4, <2>3
<1> QED BY <1>3, <1>4
------------------------------------------------------------------------------
(***************************************************************************)
(* Who owns what.  A tree of pages is the space of a process, or what a    *)
(* call has in hand: its stops from a first one on.  Owns(k, x, n, p) says *)
(* that page p is at stop n of the space or call of x, or its stack, or    *)
(* the page it has allocated last, or forgotten.                           *)
(***************************************************************************)
HasDir(t) == dir[t] \notin {0, cr3[t]} /\ pc[t] \notin {"copy_failed", "exec_failed", "reap_stack"}
From(t)   == IF pc[t] \in {"copy_undo", "exec_undo", "reap"} THEN at[t] ELSE 1

InSpace(x, n, p) == x \in Spaces /\ n \in Stops /\ p = StopAt(cr3[x], n) /\ p # 0
InCall(x, n, p)  ==
  x \in Task /\ HasDir(x) /\ n \in From(x)..LastStop /\ p = StopAt(dir[x], n) /\ p # 0
IsStack(x, p) == x \in Task /\ ~FreedStack(x) /\ p = esp0[x] /\ p # 0
IsPage(x, p)  == x \in Task /\ p = page[x] /\ p # 0

Owns(k, x, n, p) ==
  \/ k = "space" /\ InSpace(x, n, p)
  \/ k = "call"  /\ InCall(x, n, p)
  \/ k = "stack" /\ IsStack(x, p) /\ n = 0
  \/ k = "page"  /\ IsPage(x, p) /\ n = 0
  \/ k = "lost"  /\ p \in lost /\ x = 0 /\ n = 0

Apart == \A k, x, n, l, y, m, p : Owns(k, x, n, p) /\ Owns(l, y, m, p) => k = l /\ x = y /\ n = m
Accounted == \A p : p \in used <=> \E k, x, n : Owns(k, x, n, p)

(***************************************************************************)
(* Where each task is in its call, and what its variables then mean.       *)
(***************************************************************************)
CopyPc == {"copy_dir", "copy", "copy_table", "copy_undo", "copy_failed"}
ForkPc == {"fork_stack", "fork_dir", "fork_undo"} \cup CopyPc
MapPc  == {"map", "map_table"}

Caller(t) ==
  /\ pc[t] \in {"free", "new", "user", "zombie", "fork_stack", "fork_dir", "fork_undo", "copy_dir"} =>
       dir[t] = 0
  /\ pc[t] \in {"copy", "copy_table", "copy_undo", "copy_failed", "exec_undo", "exec_failed",
                "reap", "reap_stack"} =>
       dir[t] \in Page /\ dir[t] # cr3[t]
  /\ pc[t] \in MapPc => dir[t] \in Page
  /\ page[t] # 0 <=> pc[t] \in {"copy_table", "map_table"}
  /\ pc[t] \in {"copy_undo", "exec_undo", "reap"} => at[t] \in Stops
  /\ pc[t] \in {"copy", "copy_table"} => at[t] \in 1..(VPages + 1)
  /\ pc[t] = "free" => cr3[t] = 0 /\ esp0[t] = 0
  /\ pc[t] = "user" => cr3[t] \in Page \cup {BadDir}
  /\ pc[t] \notin {"free", "new", "user"} => cr3[t] \in Page

Parental(t) ==
  /\ pc[t] \in ForkPc => child[t] \in Slot /\ pc[child[t]] = "new"
  /\ pc[t] \in {"fork_stack", "fork_dir", "fork_undo"} => cr3[child[t]] = 0
  /\ pc[t] = "fork_stack" => esp0[child[t]] = 0
  /\ pc[t] = "fork_dir" => esp0[child[t]] # 0
  /\ pc[t] \in CopyPc =>
       cr3[child[t]] \in Page /\ \A n \in 1..(LastStop - 1) : StopAt(cr3[child[t]], n) = 0
  /\ pc[t] \in ReapPc => child[t] \in Slot /\ pc[child[t]] = "zombie" /\ dir[t] = cr3[child[t]]

ChildrenApart ==
  \A t, u \in Task :
    pc[t] \in ForkPc \cup ReapPc /\ pc[u] \in ForkPc \cup ReapPc /\ child[t] = child[u] => t = u

OneReaper == \A t, u \in Task : pc[t] \in ReapPc /\ pc[u] \in ReapPc => t = u

(* The frame and the table of page v in the directory d.                   *)
FrameIn(d, v) == StopAt(d, FrameStop(v))
TableIn(d, v) == StopAt(d, TableStop(v))

(* What is copied is there, and what is yet to be copied has no place yet. *)
Copying(t) ==
  /\ pc[t] \in {"copy", "copy_table"} =>
       \A v \in VPage :
         IF v >= at[t] THEN FrameIn(dir[t], v) = 0
         ELSE FrameIn(dir[t], v) # 0 <=> FrameIn(cr3[t], v) # 0
  /\ pc[t] = "copy_table" =>
       \E v \in VPage :
         /\ v >= at[t] /\ FrameIn(cr3[t], v) # 0
         /\ \A u \in VPage : u >= at[t] /\ u < v => FrameIn(cr3[t], u) = 0
         /\ TableIn(dir[t], v) = 0

(* One or two ranges of pages, in order, or none.                          *)
Ranges ==
  { s \in Seq(VPage \X VPage) :
      /\ Len(s) <= 2
      /\ \A i \in 1..Len(s) : s[i][1] <= s[i][2]
      /\ Len(s) = 2 => s[1][2] < s[2][1] }
Pending(s, v) == \E i \in 1..Len(s) : s[i][1] <= v /\ v <= s[i][2]

Mapping(t) ==
  /\ pc[t] \in MapPc => todo[t] \in Ranges
  /\ pc[t] = "map_table" => todo[t] # <<>> /\ TableIn(dir[t], NextV(t)) = 0

(***************************************************************************)
(* As long as memory has not run out the pages of a process are those      *)
(* below its heap_end and those of its stack; while they are being mapped, *)
(* together with those still to be mapped.                                 *)
(***************************************************************************)
HeapTop == (StackFrom - 1) * PageSize
InUse(end, v) == v <= PagesIn(end) \/ v >= StackFrom

Hungry(t) ==
  /\ pc[t] \in {"fork_undo", "copy_undo", "copy_failed"} => starved
  /\ cr3[t] = BadDir => starved

HeapRight(t) ==
  ~starved =>
    /\ pc[t] \notin {"free", "new", "zombie"} \cup MapPc /\ heap_end[t] # NoHeap =>
         /\ heap_end[t] \in 0..HeapTop
         /\ \A v \in VPage : FrameIn(cr3[t], v) # 0 <=> InUse(heap_end[t], v)
    /\ pc[t] \in MapPc =>
         /\ goal[t] \in 0..HeapTop
         /\ \A v \in VPage :
              /\ FrameIn(dir[t], v) # 0 \/ Pending(todo[t], v) <=> InUse(goal[t], v)
              /\ Pending(todo[t], v) => FrameIn(dir[t], v) = 0
         /\ todo[t] = <<>> => heap_end[t] = goal[t]

TaskInv(t) == Caller(t) /\ Parental(t) /\ Copying(t) /\ Mapping(t) /\ Hungry(t) /\ HeapRight(t)

Pages == Apart /\ Accounted
Tasks == (\A t \in Task : TaskInv(t)) /\ ChildrenApart /\ OneReaper

(***************************************************************************)
(* Once a stack is freed twice nothing can be said of the pages, and       *)
(* nothing happens any more.                                               *)
(***************************************************************************)
MemInv ==
  /\ MemTypeOK
  /\ HaltsOnlyWhenStarved
  /\ halted # "freed twice" => Pages /\ Tasks
------------------------------------------------------------------------------
(* What is at the stops of a directory.                                    *)
LEMMA StopIs ==
  ASSUME NEW d, NEW n \in 1..(LastStop - 1)
  PROVE  StopAt(d, n) = IF mem[d][Row(n)] = 0 THEN 0
                        ELSE IF Col(n) = W THEN mem[d][Row(n)]
                        ELSE mem[mem[d][Row(n)]][Col(n)]
<1>1. Row(n) = ((n - 1) \div (PteCount + 1)) + 1 /\ Col(n) = ((n - 1) % (PteCount + 1)) + 1
  BY DEF Row, Col, W
<1>2. n # LastStop /\ (Col(n) > PteCount <=> Col(n) = W)
  <2>1. Col(n) \in 1..W /\ W = PteCount + 1
    BY RowAndCol DEF W
  <2> QED BY <2>1, Sizes
<1> QED BY <1>1, <1>2 DEF StopAt

(* The same, after a step.                                                 *)
LEMMA StopIsNext ==
  ASSUME NEW CONSTANT d, NEW CONSTANT n \in 1..(LastStop - 1)
  PROVE  StopAt(d, n)' = IF mem'[d][Row(n)] = 0 THEN 0
                         ELSE IF Col(n) = W THEN mem'[d][Row(n)]
                         ELSE mem'[mem'[d][Row(n)]][Col(n)]
<1>1. Row(n) = ((n - 1) \div (PteCount + 1)) + 1 /\ Col(n) = ((n - 1) % (PteCount + 1)) + 1
  BY DEF Row, Col, W
<1>2. n # LastStop /\ (Col(n) > PteCount <=> Col(n) = W)
  <2>1. Col(n) \in 1..W /\ W = PteCount + 1
    BY RowAndCol DEF W
  <2> QED BY <2>1, Sizes
<1> QED BY <1>1, <1>2 DEF StopAt

(* The last stop is that of the directory.                                 *)
LEMMA LastStopIs ==
  ASSUME NEW CONSTANT d
  PROVE  StopAt(d, LastStop) = d /\ StopAt(d, LastStop)' = d
BY DEF StopAt

(* At the end of a row is its table.                                       *)
LEMMA RowEndIs ==
  ASSUME NEW d, NEW n \in 1..(LastStop - 1)
  PROVE  StopAt(d, RowEnd(n)) = mem[d][Row(n)]
BY RowEnds, StopIs, Sizes

(* What is at a stop of a page is a page, or 0.                            *)
LEMMA StopType ==
  ASSUME MemTypeOK, NEW d \in Page, NEW n \in Stops
  PROVE  StopAt(d, n) \in 0..PageCount
<1>1. CASE n = LastStop
  BY <1>1, LastStopIs, MemoryAssumption DEF Page
<1>2. CASE n # LastStop
  <2>1. n \in 1..(LastStop - 1)
    BY <1>2, Sizes DEF Stops
  <2>2. Row(n) \in Entry /\ (Col(n) # W => Col(n) \in Entry)
    BY <2>1, RowAndCol, Sizes DEF W
  <2>3. mem[d][Row(n)] \in 0..PageCount
    BY <2>2 DEF MemTypeOK
  <2>4. mem[d][Row(n)] # 0 => mem[d][Row(n)] \in Page
    BY <2>3, MemoryAssumption DEF Page
  <2> QED BY <2>1, <2>2, <2>3, <2>4, StopIs, MemoryAssumption DEF MemTypeOK
<1> QED BY <1>1, <1>2

(* Frame and Table, which the actions look at, are what is at the stops.   *)
LEMMA FramesAreStops ==
  ASSUME NEW d, NEW v \in VPage
  PROVE  Frame(d, v) = FrameIn(d, v) /\ Table(d, v) = TableIn(d, v)
<1>1. pte_index(v) # W
  BY PageIndices, Sizes DEF W
<1> QED BY <1>1, StopsOfAPage, StopIs DEF Frame, Table, FrameIn, TableIn

(* The same for frames, after a step.                                      *)
LEMMA FramesAreStopsNext ==
  ASSUME NEW CONSTANT d, NEW CONSTANT v \in VPage
  PROVE  Frame(d, v)' = FrameIn(d, v)'
<1>1. pte_index(v) # W
  BY PageIndices, Sizes DEF W
<1> QED BY <1>1, StopsOfAPage, StopIsNext DEF Frame, Table, FrameIn, TableIn

(* A tree is what it was if its directory and its tables are.              *)
LEMMA StopsStay ==
  ASSUME NEW CONSTANT d, NEW CONSTANT g \in Stops,
         mem'[d] = mem[d],
         \A n \in g..(LastStop - 1) :
           StopAt(d, n) # 0 => mem'[StopAt(d, n)] = mem[StopAt(d, n)]
  PROVE  \A n \in g..LastStop : StopAt(d, n)' = StopAt(d, n)
<1> SUFFICES ASSUME NEW CONSTANT n \in g..LastStop PROVE StopAt(d, n)' = StopAt(d, n)
  OBVIOUS
<1>1. CASE n = LastStop
  BY <1>1, LastStopIs
<1>2. CASE n # LastStop
  <2>1. n \in 1..(LastStop - 1) /\ n \in g..(LastStop - 1)
    BY <1>2, Sizes DEF Stops
  <2>2. RowEnd(n) \in g..(LastStop - 1) /\ StopAt(d, RowEnd(n)) = mem[d][Row(n)]
    BY <2>1, RowEnds, RowEndIs, Sizes DEF Stops
  <2>3. mem[d][Row(n)] # 0 => mem'[mem[d][Row(n)]] = mem[mem[d][Row(n)]]
    BY <2>2
  <2> QED BY <2>1, <2>3, StopIs, StopIsNext
<1> QED BY <1>1, <1>2

(* A space none of whose pages is written is what it was.                  *)
LEMMA SpaceStays ==
  ASSUME NEW CONSTANT x \in Spaces, cr3'[x] = cr3[x],
         \A p : mem'[p] = mem[p] \/ \A n : ~InSpace(x, n, p)
  PROVE  \A n \in Stops : StopAt(cr3[x], n)' = StopAt(cr3[x], n)
<1> SUFFICES ASSUME NEW CONSTANT d, d = cr3[x]
             PROVE  \A n \in 1..LastStop : StopAt(d, n)' = StopAt(d, n)
  BY DEF Stops
<1>1. d # 0 /\ LastStop \in Stops /\ 1 \in Stops
  BY Sizes DEF Spaces, Stops
<1>2. mem'[d] = mem[d]
  BY <1>1, LastStopIs DEF InSpace
<1>3. \A n \in 1..(LastStop - 1) : StopAt(d, n) # 0 => mem'[StopAt(d, n)] = mem[StopAt(d, n)]
  BY Sizes DEF InSpace, Stops
<1> QED BY <1>1, <1>2, <1>3, StopsStay

(* What a call has in hand is what it was if none of it is written.        *)
LEMMA CallStays ==
  ASSUME NEW CONSTANT x \in Task, HasDir(x), NEW CONSTANT g \in Stops, g >= From(x), From(x) \in Stops,
         dir'[x] = dir[x],
         \A p : mem'[p] = mem[p] \/ \A n \in g..LastStop : ~InCall(x, n, p)
  PROVE  \A n \in g..LastStop : StopAt(dir[x], n)' = StopAt(dir[x], n)
<1> SUFFICES ASSUME NEW CONSTANT d, d = dir[x]
             PROVE  \A n \in g..LastStop : StopAt(d, n)' = StopAt(d, n)
  OBVIOUS
<1>1. d # 0 /\ LastStop \in g..LastStop /\ g..LastStop \subseteq From(x)..LastStop
  BY Sizes DEF HasDir, Stops
<1>2. mem'[d] = mem[d]
  BY <1>1, LastStopIs DEF InCall
<1>3. \A n \in g..(LastStop - 1) : StopAt(d, n) # 0 => mem'[StopAt(d, n)] = mem[StopAt(d, n)]
  BY <1>1, Sizes DEF InCall, Stops
<1> QED BY <1>2, <1>3, StopsStay
------------------------------------------------------------------------------
(* What is owned is in use, and what is free is nobody's.                  *)
LEMMA OwnedIsUsed ==
  ASSUME Pages, NEW k, NEW x, NEW n, NEW p, Owns(k, x, n, p)
  PROVE  p \in used
BY DEF Pages, Accounted

(* A page of a space is owned by the space.                                *)
LEMMA SpaceOwns == ASSUME NEW x, NEW n, NEW p, InSpace(x, n, p) PROVE Owns("space", x, n, p)
BY DEF Owns

(* A page a call has in hand is owned by the call.                         *)
LEMMA CallOwns == ASSUME NEW x, NEW n, NEW p, InCall(x, n, p) PROVE Owns("call", x, n, p)
BY DEF Owns

(* The page of a kernel stack is owned as a stack.                         *)
LEMMA StackOwns == ASSUME NEW x, NEW p, IsStack(x, p) PROVE Owns("stack", x, 0, p)
BY DEF Owns

(* The page just allocated is owned as that.                               *)
LEMMA PageOwns == ASSUME NEW x, NEW p, IsPage(x, p) PROVE Owns("page", x, 0, p)
BY DEF Owns

(* What the five kinds of places own, one by one.                          *)
LEMMA Owners ==
  ASSUME NEW x, NEW n, NEW p
  PROVE  /\ Owns("space", x, n, p) <=> InSpace(x, n, p)
         /\ Owns("call", x, n, p) <=> InCall(x, n, p)
         /\ Owns("stack", x, n, p) <=> IsStack(x, p) /\ n = 0
         /\ Owns("page", x, n, p) <=> IsPage(x, p) /\ n = 0
         /\ Owns("lost", x, n, p) <=> p \in lost /\ x = 0 /\ n = 0
BY DEF Owns

(* A page is taken by a place, given back by one, or only changes its owner. *)
OwnsAlso(q, K, X, N) ==
  \A k, x, n, p : Owns(k, x, n, p)' <=>
    Owns(k, x, n, p) \/ (k = K /\ x = X /\ n = N /\ p = q)

(* A page that is taken and has one new owner keeps the books right.       *)
LEMMA PagesTaken ==
  ASSUME Pages, NEW CONSTANT q, q \notin used, used' = used \cup {q},
         NEW CONSTANT K, NEW CONSTANT X, NEW CONSTANT N, OwnsAlso(q, K, X, N)
  PROVE  Pages'
<1>1. \A k, x, n : ~Owns(k, x, n, q)
  BY OwnedIsUsed
<1>2. Apart'
  BY <1>1 DEF Pages, Apart, OwnsAlso
<1>3. Accounted'
  BY <1>1 DEF Pages, Accounted, OwnsAlso
<1> QED BY <1>2, <1>3 DEF Pages

(* and so does a page given back that has no owner any more,               *)
LEMMA PagesGiven ==
  ASSUME Pages, NEW CONSTANT q, used' = used \ {q},
         \A k, x, n, p : Owns(k, x, n, p)' <=> Owns(k, x, n, p) /\ p # q
  PROVE  Pages'
BY DEF Pages, Apart, Accounted

(* a step that changes no owner,                                           *)
LEMMA PagesSame ==
  ASSUME Pages, used' = used,
         \A k, x, n, p : Owns(k, x, n, p)' <=> Owns(k, x, n, p)
  PROVE  Pages'
BY DEF Pages, Apart, Accounted

OwnsInstead(q, L, Y, M) ==
  \A k, x, n, p : Owns(k, x, n, p)' <=>
    (Owns(k, x, n, p) /\ p # q) \/ (k = L /\ x = Y /\ n = M /\ p = q)

(* and a page that changes its owner.                                      *)
LEMMA PageMoved ==
  ASSUME Pages, used' = used, NEW CONSTANT q,
         NEW CONSTANT K, NEW CONSTANT X, NEW CONSTANT N, Owns(K, X, N, q),
         NEW CONSTANT L, NEW CONSTANT Y, NEW CONSTANT M, OwnsInstead(q, L, Y, M)
  PROVE  Pages'
<1>1. Apart'
  BY DEF Pages, Apart, OwnsInstead
<1>2. Accounted'
  BY DEF Pages, Accounted, OwnsInstead
<1> QED BY <1>1, <1>2 DEF Pages

(* The space of z goes to the call of t, which had nothing in hand.        *)
SpaceToCall(z, t) ==
  \A k, x, n, p : Owns(k, x, n, p)' <=>
    IF k = "call" /\ x = t THEN Owns("space", z, n, p)
    ELSE Owns(k, x, n, p) /\ ~(k = "space" /\ x = z)

(* The space of a zombie becomes what its parent has in hand.              *)
LEMMA TreeTaken ==
  ASSUME Pages, used' = used, NEW CONSTANT z, NEW CONSTANT t, SpaceToCall(z, t),
         \A n, p : ~Owns("call", t, n, p)
  PROVE  Pages'
<1>1. Apart'
  BY DEF Pages, Apart, SpaceToCall
<1>2. Accounted'
  BY DEF Pages, Accounted, SpaceToCall
<1> QED BY <1>1, <1>2 DEF Pages

(* What the call of t has in hand becomes the space of c, whose old one is *)
(* forgotten.                                                              *)
CallToSpace(t, c) ==
  \A k, x, n, p : Owns(k, x, n, p)' <=>
    IF k = "space" /\ x = c THEN Owns("call", t, n, p)
    ELSE \/ Owns(k, x, n, p) /\ ~(k = "call" /\ x = t)
         \/ k = "lost" /\ x = 0 /\ n = 0 /\ \E m : Owns("space", c, m, p)

(* What a call has built becomes the space of a process.                   *)
LEMMA TreeHanded ==
  ASSUME Pages, used' = used, NEW CONSTANT t, NEW CONSTANT c, CallToSpace(t, c)
  PROVE  Pages'
<1>1. Apart'
  BY DEF Pages, Apart, CallToSpace
<1>2. Accounted'
  <2>1. ASSUME NEW CONSTANT p, p \in used PROVE \E k, x, n : Owns(k, x, n, p)'
    <3>1. PICK k, x, n : Owns(k, x, n, p)
      BY <2>1 DEF Pages, Accounted
    <3>2. CASE k = "call" /\ x = t
      BY <3>1, <3>2 DEF CallToSpace
    <3>3. CASE k = "space" /\ x = c
      <4>1. Owns("lost", 0, 0, p)'
        BY <3>1, <3>3 DEF CallToSpace
      <4> QED BY <4>1
    <3>4. CASE ~(k = "call" /\ x = t) /\ ~(k = "space" /\ x = c)
      BY <3>1, <3>4 DEF CallToSpace
    <3> QED BY <3>2, <3>3, <3>4
  <2>2. ASSUME NEW CONSTANT p, \E k, x, n : Owns(k, x, n, p)' PROVE p \in used
    BY <2>2 DEF CallToSpace, Pages, Accounted
  <2> QED BY <2>1, <2>2 DEF Accounted
<1> QED BY <1>1, <1>2 DEF Pages
------------------------------------------------------------------------------
(* A step of task t, on a child c or on itself alone, is nothing to the    *)
(* other tasks: what they own and where they are stays.                    *)
Same(u) ==
  /\ pc'[u] = pc[u] /\ cr3'[u] = cr3[u] /\ esp0'[u] = esp0[u] /\ heap_end'[u] = heap_end[u]
  /\ child'[u] = child[u] /\ dir'[u] = dir[u] /\ at'[u] = at[u] /\ page'[u] = page[u]
  /\ todo'[u] = todo[u] /\ goal'[u] = goal[u]

SpaceKept(u) == \A n \in Stops : StopAt(cr3[u], n)' = StopAt(cr3[u], n)
CallKept(u)  == \A n \in From(u)..LastStop : StopAt(dir[u], n)' = StopAt(dir[u], n)

(* Only zombies are reaped.                                                *)
LEMMA ReapedAreZombies ==
  ASSUME Tasks, NEW u \in Reaped
  PROVE  pc[u] = "zombie" /\ u \in Slot
BY DEF Reaped, Tasks, TaskInv, Parental

(***************************************************************************)
(* Only a zombie is being reaped, and only of a new child a stack is       *)
(* freed.                                                                  *)
(***************************************************************************)
LEMMA Whole ==
  ASSUME Tasks, NEW u
  PROVE  (pc[u] # "zombie" => u \notin Reaped) /\ (pc[u] # "new" => ~FreedStack(u))
BY DEF Reaped, FreedStack, Tasks, TaskInv, Parental, ForkPc

(* The same, after a step.                                                 *)
LEMMA WholeNext ==
  ASSUME Tasks', NEW CONSTANT u
  PROVE  (pc'[u] # "zombie" => u \notin Reaped') /\ (pc'[u] # "new" => ~FreedStack(u)')
BY DEF Reaped, FreedStack, Tasks, TaskInv, Parental, ForkPc

(* A process with a directory that is not a zombie has a space.            *)
LEMMA SpaceOfATask ==
  ASSUME Tasks, NEW u \in Task, pc[u] # "zombie", cr3[u] \in Page
  PROVE  u \in Spaces
BY ReapedAreZombies, MemoryAssumption DEF Spaces, Page, BadDir

(* A walk begins at a stop.                                                *)
LEMMA FromIsAStop ==
  ASSUME NEW u \in Task, Caller(u)
  PROVE  From(u) \in Stops
BY Sizes DEF Caller, From, Stops

(* The stops of a page are stops.                                          *)
LEMMA FrameStopIn ==
  ASSUME NEW v \in VPage
  PROVE  FrameStop(v) \in Stops /\ TableStop(v) \in Stops
BY StopsOfAPage, Sizes DEF Stops

(* What is true of a task stays true when nothing it relies on changes.    *)
LEMMA TaskStays ==
  ASSUME Tasks, NEW CONSTANT u \in Task, Same(u), starved => starved',
         u \in Spaces => SpaceKept(u),
         HasDir(u) => CallKept(u),
         pc[u] \in ForkPc \cup ReapPc =>
           /\ pc'[child[u]] = pc[child[u]] /\ cr3'[child[u]] = cr3[child[u]]
           /\ esp0'[child[u]] = esp0[child[u]],
         pc[u] \in CopyPc => \A n \in Stops : StopAt(cr3[child[u]], n)' = StopAt(cr3[child[u]], n)
  PROVE  TaskInv(u)'
<1> USE DEF Same
<1>0. TaskInv(u)
  BY DEF Tasks
<1>1. Caller(u)'
  BY <1>0 DEF TaskInv, Caller
<1>2. Parental(u)'
  BY <1>0, Sizes DEF TaskInv, Parental, Stops, ForkPc, CopyPc, ReapPc
<1>3. Mapping(u)' /\ Hungry(u)' /\ Copying(u)' /\ HeapRight(u)'
  <2>1. pc[u] \notin {"free", "new", "user", "zombie"} => SpaceKept(u)
    BY <1>0, SpaceOfATask DEF TaskInv, Caller
  <2>2. pc[u] \in {"copy", "copy_table"} => CallKept(u)
    BY <1>0, MemoryAssumption DEF TaskInv, Caller, HasDir, Page
  <2>3. pc[u] \in {"copy", "copy_table"} => From(u) = 1
    BY DEF From
  <2>4. pc[u] \in MapPc => From(u) = 1 /\ dir[u] # 0
    BY <1>0, MemoryAssumption DEF TaskInv, Caller, From, Page, MapPc
  <2>5. pc[u] \in MapPc => \A n \in Stops : StopAt(dir[u], n)' = StopAt(dir[u], n)
    <3>1. CASE dir[u] = cr3[u]
      BY <2>1, <3>1 DEF SpaceKept, MapPc
    <3>2. CASE dir[u] # cr3[u]
      BY <2>4, <3>2 DEF HasDir, MapPc, CallKept, Stops
    <3> QED BY <3>1, <3>2
  <2>6. pc[u] \in {"copy", "copy_table"} =>
          \A v \in VPage : /\ FrameIn(dir[u], v)' = FrameIn(dir[u], v)
                           /\ TableIn(dir[u], v)' = TableIn(dir[u], v)
                           /\ FrameIn(cr3[u], v)' = FrameIn(cr3[u], v)
    BY <2>1, <2>2, <2>3, FrameStopIn DEF SpaceKept, CallKept, FrameIn, TableIn, Stops
  <2>7. pc[u] \in MapPc =>
          \A v \in VPage : /\ FrameIn(dir[u], v)' = FrameIn(dir[u], v)
                           /\ TableIn(dir[u], v)' = TableIn(dir[u], v)
    BY <2>5, FrameStopIn DEF FrameIn, TableIn
  <2>8. u \in Spaces => \A v \in VPage : FrameIn(cr3[u], v)' = FrameIn(cr3[u], v)
    BY FrameStopIn DEF SpaceKept, FrameIn
  <2>9. Copying(u)'
    BY <1>0, <2>6 DEF TaskInv, Copying
  <2>10. Hungry(u)'
    BY <1>0 DEF TaskInv, Hungry
  <2>11. Mapping(u)'
    <3>1. NextV(u)' = NextV(u)
      BY DEF NextV
    <3>2. pc[u] = "map_table" => todo[u] \in Ranges /\ todo[u] # <<>>
      BY <1>0 DEF TaskInv, Mapping, MapPc
    <3>3. pc[u] = "map_table" => NextV(u) \in VPage
      BY <3>2 DEF Ranges, NextV
    <3> QED BY <1>0, <2>7, <3>1, <3>3 DEF TaskInv, Mapping, MapPc
  <2>12. HeapRight(u)'
    <3>1. ~starved' => ~starved
      OBVIOUS
    <3>2. ~starved /\ pc[u] \notin {"free", "new", "zombie"} => u \in Spaces
      BY <1>0, SpaceOfATask DEF TaskInv, Caller, Hungry
    <3> QED BY <1>0, <2>7, <2>8, <3>1, <3>2 DEF TaskInv, HeapRight
  <2> QED BY <2>9, <2>10, <2>11, <2>12
<1> QED BY <1>1, <1>2, <1>3 DEF TaskInv

CallPc == ForkPc \cup ReapPc

StepOf(t, c) ==
  /\ pc[t] \notin {"free", "new", "zombie"}
  /\ \A u \in Task \ {t, c} : Same(u)
  /\ \A u \in Task \ {t, c} : pc[u] \in CallPc => child[u] # c
  /\ starved => starved'
  /\ \A p : mem'[p] = mem[p] \/ \A u \in Task \ {t, c} : \A n : ~InSpace(u, n, p) /\ ~InCall(u, n, p)
  /\ pc[t] \in CallPc => child[t] = c
  /\ pc'[t] \in CallPc => child'[t] = c
  /\ c = t \/ (pc[c] \notin CallPc /\ pc'[c] \notin CallPc)
  /\ pc'[t] \in ReapPc => pc[t] \in ReapPc \/ TableFree

(* A step of t that is about c leaves the others as they are,              *)
LEMMA OthersStay ==
  ASSUME Tasks, NEW CONSTANT t \in Task, NEW CONSTANT c \in Task, StepOf(t, c)
  PROVE  \A u \in Task \ {t, c} :
           TaskInv(u)' /\ (u \in Spaces => SpaceKept(u)) /\ (HasDir(u) => CallKept(u))
<1> SUFFICES ASSUME NEW CONSTANT u \in Task \ {t, c}
             PROVE  TaskInv(u)' /\ (u \in Spaces => SpaceKept(u)) /\ (HasDir(u) => CallKept(u))
  OBVIOUS
<1> USE DEF StepOf, CallPc
<1>1. Same(u) /\ TaskInv(u)
  BY DEF Tasks
<1>2. ASSUME NEW CONSTANT w \in Task \ {t, c}, w \in Spaces
      PROVE  \A n \in Stops : StopAt(cr3[w], n)' = StopAt(cr3[w], n)
  <2>1. cr3'[w] = cr3[w]
    BY DEF Same
  <2> QED BY <1>2, <2>1, SpaceStays
<1>3. HasDir(u) => CallKept(u)
  <2>1. From(u) \in Stops /\ dir'[u] = dir[u]
    BY <1>1, FromIsAStop DEF TaskInv, Same
  <2>2. From(u) >= From(u)
    BY <2>1, Sizes DEF Stops
  <2>3. ASSUME HasDir(u), NEW CONSTANT g, g = From(u)
        PROVE  \A n \in g..LastStop : StopAt(dir[u], n)' = StopAt(dir[u], n)
    BY <2>1, <2>2, <2>3, CallStays
  <2> QED BY <2>3 DEF CallKept
<1>4. pc[u] \in ForkPc \cup ReapPc => child[u] \in Task \ {t, c} /\ pc[child[u]] \in {"new", "zombie"}
  BY <1>1 DEF TaskInv, Parental, Task
<1>5. pc[u] \in ForkPc \cup ReapPc => Same(child[u])
  BY <1>4
<1>6. pc[u] \in CopyPc => \A n \in Stops : StopAt(cr3[child[u]], n)' = StopAt(cr3[child[u]], n)
  <2>1. pc[u] \in CopyPc => child[u] \in Spaces
    BY <1>1, <1>4, SpaceOfATask DEF TaskInv, Parental, ForkPc, CopyPc
  <2>2. pc[u] \in CopyPc => child[u] \in Task \ {t, c} /\ child'[u] = child[u]
    BY <1>1, <1>4 DEF Same, ForkPc
  <2> QED BY <1>2, <2>1, <2>2
<1>7. u \in Spaces => SpaceKept(u)
  BY <1>2 DEF SpaceKept
<1>8. TaskInv(u)'
  BY <1>1, <1>3, <1>5, <1>6, <1>7, TaskStays DEF Same
<1> QED BY <1>3, <1>7, <1>8

(* leaves different callers with different children,                       *)
LEMMA CallersStayApart ==
  ASSUME Tasks, NEW CONSTANT t \in Task, NEW CONSTANT c \in Task, StepOf(t, c)
  PROVE  ChildrenApart' /\ OneReaper'
<1>1. \A u \in Task \ {t} : pc'[u] \in CallPc =>
        pc'[u] = pc[u] /\ child'[u] = child[u] /\ child[u] # c
  BY DEF StepOf, Same
<1>2. ChildrenApart'
  BY <1>1 DEF StepOf, Tasks, ChildrenApart, CallPc
<1>3. OneReaper'
  <2>1. \A u \in Task \ {t} : pc'[u] \in ReapPc => pc[u] \in ReapPc
    BY <1>1 DEF CallPc
  <2> QED BY <2>1 DEF StepOf, Tasks, OneReaper, TableFree
<1> QED BY <1>2, <1>3

(* and takes no page from the others and gives them none.                  *)
LEMMA OthersOwn ==
  ASSUME Tasks, NEW CONSTANT t \in Task, NEW CONSTANT c \in Task, StepOf(t, c)
  PROVE  /\ \A u \in Task \ {t, c} : u \in Spaces' <=> u \in Spaces
         /\ \A u \in Task \ {t, c} : \A n, p :
              /\ InSpace(u, n, p)' <=> InSpace(u, n, p)
              /\ InCall(u, n, p)' <=> InCall(u, n, p)
              /\ IsStack(u, p)' <=> IsStack(u, p)
              /\ IsPage(u, p)' <=> IsPage(u, p)
<1>1. \A u \in Task \ {t, c} :
        /\ Same(u)
        /\ u \in Spaces => SpaceKept(u)
        /\ HasDir(u) => CallKept(u)
  BY OthersStay DEF StepOf
<1>2. ASSUME NEW CONSTANT u \in Task \ {t, c}
      PROVE  (u \in Reaped' <=> u \in Reaped) /\ (FreedStack(u)' <=> FreedStack(u))
  <2>1. \A s \in Task : pc'[s] \in CallPc /\ child'[s] = u <=> pc[s] \in CallPc /\ child[s] = u
    BY DEF StepOf, Same
  <2>2. \A s \in Task : pc[s] \in CallPc /\ child[s] = u => pc'[s] = pc[s] /\ child'[s] = child[s]
    BY DEF StepOf, Same
  <2>3. \A s \in Task : pc'[s] \in CallPc /\ child'[s] = u => pc'[s] = pc[s] /\ child'[s] = child[s]
    BY <2>1, <2>2
  <2>4. u \in Reaped' <=> u \in Reaped
    BY <2>2, <2>3 DEF Reaped, CallPc
  <2>5. FreedStack(u)' <=> FreedStack(u)
    BY <2>2, <2>3 DEF FreedStack, CallPc, ForkPc
  <2> QED BY <2>4, <2>5
<1>3. \A u \in Task \ {t, c} : u \in Spaces' <=> u \in Spaces
  BY <1>1, <1>2 DEF Spaces, Same
<1>4. \A u \in Task \ {t, c} : \A n, p : InSpace(u, n, p)' <=> InSpace(u, n, p)
  BY <1>1, <1>3 DEF InSpace, SpaceKept
<1>5. \A u \in Task \ {t, c} : (HasDir(u)' <=> HasDir(u)) /\ From(u)' = From(u)
  BY <1>1 DEF HasDir, From, Same
<1>6. \A u \in Task \ {t, c} : \A n, p : InCall(u, n, p)' <=> InCall(u, n, p)
  BY <1>1, <1>5 DEF InCall, CallKept
<1>7. \A u \in Task \ {t, c} : \A p : IsStack(u, p)' <=> IsStack(u, p)
  BY <1>1, <1>2 DEF IsStack, Same
<1> QED BY <1>1, <1>3, <1>4, <1>6, <1>7 DEF Same, IsPage
------------------------------------------------------------------------------
(* Without a write every stop is what it was.                              *)
LEMMA CalmStops ==
  ASSUME mem' = mem, NEW CONSTANT d, NEW CONSTANT n
  PROVE  StopAt(d, n)' = StopAt(d, n)
BY DEF StopAt

(* Only tasks own pages (and what is lost is nobody's).                    *)
LEMMA PlacesAreTasks ==
  \A x, n, p : /\ InSpace(x, n, p)' => x \in Task
               /\ InSpace(x, n, p) => x \in Task
               /\ InCall(x, n, p)' => x \in Task
               /\ InCall(x, n, p) => x \in Task
               /\ IsStack(x, p)' => x \in Task
               /\ IsStack(x, p) => x \in Task
               /\ IsPage(x, p)' => x \in Task
               /\ IsPage(x, p) => x \in Task
BY DEF InSpace, InCall, IsStack, IsPage, Spaces

(***************************************************************************)
(* A step that changes no page, takes one, or gives one back: what it does *)
(* to the places of the two tasks it is about.                             *)
(***************************************************************************)
Calm(t, c) ==
  \A x \in {t, c} : \A n, p : /\ InSpace(x, n, p)' <=> InSpace(x, n, p)
                              /\ InCall(x, n, p)' <=> InCall(x, n, p)
                              /\ IsStack(x, p)' <=> IsStack(x, p)
                              /\ IsPage(x, p)' <=> IsPage(x, p)

Takes(t, c, q, K, X, N) ==
  \A x \in {t, c} : \A n, p :
    /\ InSpace(x, n, p)' <=> InSpace(x, n, p) \/ (K = "space" /\ x = X /\ n = N /\ p = q)
    /\ InCall(x, n, p)' <=> InCall(x, n, p) \/ (K = "call" /\ x = X /\ n = N /\ p = q)
    /\ IsStack(x, p)' <=> IsStack(x, p) \/ (K = "stack" /\ x = X /\ p = q)
    /\ IsPage(x, p)' <=> IsPage(x, p) \/ (K = "page" /\ x = X /\ p = q)

Gives(t, c, q) ==
  \A x \in {t, c} : \A n, p : /\ InSpace(x, n, p)' <=> InSpace(x, n, p) /\ p # q
                              /\ InCall(x, n, p)' <=> InCall(x, n, p) /\ p # q
                              /\ IsStack(x, p)' <=> IsStack(x, p) /\ p # q
                              /\ IsPage(x, p)' <=> IsPage(x, p) /\ p # q

(* A step that changes no owner.                                           *)
LEMMA CalmPages ==
  ASSUME Tasks, Pages, NEW CONSTANT t \in Task, NEW CONSTANT c \in Task, StepOf(t, c),
         used' = used, lost' = lost, Calm(t, c)
  PROVE  Pages'
<1>1. \A x \in Task : \A n, p : /\ InSpace(x, n, p)' <=> InSpace(x, n, p)
                                /\ InCall(x, n, p)' <=> InCall(x, n, p)
                                /\ IsStack(x, p)' <=> IsStack(x, p)
                                /\ IsPage(x, p)' <=> IsPage(x, p)
  BY OthersOwn DEF Calm
<1>2. \A k, x, n, p : Owns(k, x, n, p)' <=> Owns(k, x, n, p)
  BY <1>1, PlacesAreTasks DEF Owns
<1> QED BY <1>2, PagesSame

(* A step that takes a page for one of its two tasks.                      *)
LEMMA TakenPage ==
  ASSUME Tasks, Pages, NEW CONSTANT t \in Task, NEW CONSTANT c \in Task, StepOf(t, c),
         NEW CONSTANT q, q \notin used, used' = used \cup {q}, lost' = lost,
         NEW CONSTANT K, NEW CONSTANT X \in {t, c}, NEW CONSTANT N,
         K \in {"space", "call"} \/ (K \in {"stack", "page"} /\ N = 0),
         Takes(t, c, q, K, X, N)
  PROVE  Pages'
<1>1. \A x \in Task : \A n, p :
        /\ InSpace(x, n, p)' <=> InSpace(x, n, p) \/ (K = "space" /\ x = X /\ n = N /\ p = q)
        /\ InCall(x, n, p)' <=> InCall(x, n, p) \/ (K = "call" /\ x = X /\ n = N /\ p = q)
        /\ IsStack(x, p)' <=> IsStack(x, p) \/ (K = "stack" /\ x = X /\ p = q)
        /\ IsPage(x, p)' <=> IsPage(x, p) \/ (K = "page" /\ x = X /\ p = q)
  <2>1. ASSUME NEW CONSTANT x \in Task, x \notin {t, c}, NEW CONSTANT n, NEW CONSTANT p
        PROVE  /\ x # X
               /\ InSpace(x, n, p)' <=> InSpace(x, n, p)
               /\ InCall(x, n, p)' <=> InCall(x, n, p)
               /\ IsStack(x, p)' <=> IsStack(x, p)
               /\ IsPage(x, p)' <=> IsPage(x, p)
    BY <2>1, OthersOwn
  <2>2. ASSUME NEW CONSTANT x \in Task, x \in {t, c}, NEW CONSTANT n, NEW CONSTANT p
        PROVE  /\ InSpace(x, n, p)' <=> InSpace(x, n, p) \/ (K = "space" /\ x = X /\ n = N /\ p = q)
               /\ InCall(x, n, p)' <=> InCall(x, n, p) \/ (K = "call" /\ x = X /\ n = N /\ p = q)
               /\ IsStack(x, p)' <=> IsStack(x, p) \/ (K = "stack" /\ x = X /\ p = q)
               /\ IsPage(x, p)' <=> IsPage(x, p) \/ (K = "page" /\ x = X /\ p = q)
    BY <2>2 DEF Takes
  <2> QED BY <2>1, <2>2
<1>2. ASSUME NEW CONSTANT k, NEW CONSTANT x, NEW CONSTANT n, NEW CONSTANT p
      PROVE  Owns(k, x, n, p)' <=> Owns(k, x, n, p) \/ (k = K /\ x = X /\ n = N /\ p = q)
  <2>1. CASE x \in Task
    <3>1. /\ InSpace(x, n, p)' <=> InSpace(x, n, p) \/ (K = "space" /\ x = X /\ n = N /\ p = q)
          /\ InCall(x, n, p)' <=> InCall(x, n, p) \/ (K = "call" /\ x = X /\ n = N /\ p = q)
          /\ IsStack(x, p)' <=> IsStack(x, p) \/ (K = "stack" /\ x = X /\ p = q)
          /\ IsPage(x, p)' <=> IsPage(x, p) \/ (K = "page" /\ x = X /\ p = q)
      BY <1>1, <2>1
    <3> QED BY <3>1 DEF Owns
  <2>2. CASE x \notin Task
    <3>1. x # X
      BY <2>2
    <3> QED BY <2>2, <3>1, PlacesAreTasks DEF Owns
  <2> QED BY <2>1, <2>2
<1>3. OwnsAlso(q, K, X, N)
  BY <1>2 DEF OwnsAlso
<1> QED BY <1>3, PagesTaken

(* A step that gives back a page of one of its two tasks.                  *)
LEMMA GivenPage ==
  ASSUME Tasks, Pages, NEW CONSTANT t \in Task, NEW CONSTANT c \in Task, StepOf(t, c),
         NEW CONSTANT q, used' = used \ {q}, lost' = lost,
         NEW CONSTANT K, NEW CONSTANT X \in {t, c}, NEW CONSTANT N,
         K \in {"space", "call", "stack", "page"}, Owns(K, X, N, q),
         Gives(t, c, q)
  PROVE  Pages'
<1>1. \A k, x, n : Owns(k, x, n, q) => k = K /\ x = X
  BY DEF Pages, Apart
<1>2. \A x \in Task : \A n :
        /\ InSpace(x, n, q) => x = X
        /\ InCall(x, n, q) => x = X
        /\ IsStack(x, q) => x = X
        /\ IsPage(x, q) => x = X
  BY <1>1, SpaceOwns, CallOwns, StackOwns, PageOwns
<1>3. \A x \in Task : \A n, p :
        /\ InSpace(x, n, p)' <=> InSpace(x, n, p) /\ p # q
        /\ InCall(x, n, p)' <=> InCall(x, n, p) /\ p # q
        /\ IsStack(x, p)' <=> IsStack(x, p) /\ p # q
        /\ IsPage(x, p)' <=> IsPage(x, p) /\ p # q
  BY <1>2, OthersOwn DEF Gives
<1>4. q \notin lost
  BY <1>1 DEF Owns
<1>5. \A k, x, n, p : Owns(k, x, n, p)' <=> Owns(k, x, n, p) /\ p # q
  BY <1>3, <1>4, PlacesAreTasks DEF Owns
<1> QED BY <1>5, PagesGiven

(* A step that forgets a page of one of its two tasks.                     *)
LEMMA LostPage ==
  ASSUME Tasks, Pages, NEW CONSTANT t \in Task, NEW CONSTANT c \in Task, StepOf(t, c),
         NEW CONSTANT q, used' = used, lost' = lost \cup {q},
         NEW CONSTANT K, NEW CONSTANT X \in {t, c}, NEW CONSTANT N,
         K \in {"space", "call", "stack", "page"}, Owns(K, X, N, q),
         Gives(t, c, q)
  PROVE  Pages'
<1>1. \A k, x, n : Owns(k, x, n, q) => k = K /\ x = X
  BY DEF Pages, Apart
<1>2. \A x \in Task : \A n :
        /\ InSpace(x, n, q) => x = X
        /\ InCall(x, n, q) => x = X
        /\ IsStack(x, q) => x = X
        /\ IsPage(x, q) => x = X
  BY <1>1, SpaceOwns, CallOwns, StackOwns, PageOwns
<1>3. \A x \in Task : \A n, p :
        /\ InSpace(x, n, p)' <=> InSpace(x, n, p) /\ p # q
        /\ InCall(x, n, p)' <=> InCall(x, n, p) /\ p # q
        /\ IsStack(x, p)' <=> IsStack(x, p) /\ p # q
        /\ IsPage(x, p)' <=> IsPage(x, p) /\ p # q
  BY <1>2, OthersOwn DEF Gives
<1>4. ASSUME NEW CONSTANT k, NEW CONSTANT x, NEW CONSTANT n, NEW CONSTANT p
      PROVE  Owns(k, x, n, p)' <=>
               (Owns(k, x, n, p) /\ p # q) \/ (k = "lost" /\ x = 0 /\ n = 0 /\ p = q)
  <2>1. CASE x \in Task
    <3>1. /\ InSpace(x, n, p)' <=> InSpace(x, n, p) /\ p # q
          /\ InCall(x, n, p)' <=> InCall(x, n, p) /\ p # q
          /\ IsStack(x, p)' <=> IsStack(x, p) /\ p # q
          /\ IsPage(x, p)' <=> IsPage(x, p) /\ p # q
      BY <1>3, <2>1
    <3> QED BY <3>1 DEF Owns
  <2>2. CASE x \notin Task
    BY <2>2, PlacesAreTasks DEF Owns
  <2> QED BY <2>1, <2>2
<1>5. OwnsInstead(q, "lost", 0, 0)
  BY <1>4 DEF OwnsInstead
<1> QED BY <1>5, PageMoved

(* A step that makes what the call of t has in hand the space of c.        *)
LEMMA HandedOver ==
  ASSUME NEW CONSTANT t \in Task, NEW CONSTANT c \in Task,
         \A x \in Task : \A n, p :
           /\ InSpace(x, n, p)' <=> IF x = c THEN InCall(t, n, p) ELSE InSpace(x, n, p)
           /\ InCall(x, n, p)' <=> InCall(x, n, p) /\ x # t
           /\ IsStack(x, p)' <=> IsStack(x, p)
           /\ IsPage(x, p)' <=> IsPage(x, p),
         \A p : p \in lost' <=> p \in lost \/ \E m : InSpace(c, m, p)
  PROVE  CallToSpace(t, c)
<1>1. ASSUME NEW CONSTANT k, NEW CONSTANT x, NEW CONSTANT n, NEW CONSTANT p
      PROVE  Owns(k, x, n, p)' <=>
               IF k = "space" /\ x = c THEN Owns("call", t, n, p)
               ELSE \/ Owns(k, x, n, p) /\ ~(k = "call" /\ x = t)
                    \/ k = "lost" /\ x = 0 /\ n = 0 /\ \E m : Owns("space", c, m, p)
  <2>1. (\E m : Owns("space", c, m, p)) <=> (\E m : InSpace(c, m, p))
    BY Owners
  <2>2. Owns("call", t, n, p) <=> InCall(t, n, p)
    BY Owners
  <2>3. p \in lost' <=> p \in lost \/ \E m : Owns("space", c, m, p)
    BY <2>1
  <2>4. CASE x \in Task
    <3>1. /\ InSpace(x, n, p)' <=> IF x = c THEN InCall(t, n, p) ELSE InSpace(x, n, p)
          /\ InCall(x, n, p)' <=> InCall(x, n, p) /\ x # t
          /\ IsStack(x, p)' <=> IsStack(x, p)
          /\ IsPage(x, p)' <=> IsPage(x, p)
      BY <2>4
    <3>2. CASE k = "space"
      BY <3>1, <3>2, <2>2 DEF Owns
    <3>3. CASE k = "call"
      BY <3>1, <3>3 DEF Owns
    <3>4. CASE k \in {"stack", "page"}
      BY <3>1, <3>4 DEF Owns
    <3>5. CASE k = "lost"
      <4>1. Owns(k, x, n, p)' <=> p \in lost' /\ x = 0 /\ n = 0
        BY <3>5 DEF Owns
      <4>2. Owns(k, x, n, p) <=> p \in lost /\ x = 0 /\ n = 0
        BY <3>5 DEF Owns
      <4> QED BY <3>5, <4>1, <4>2, <2>3
    <3>6. CASE k \notin {"space", "call", "stack", "page", "lost"}
      BY <3>6 DEF Owns
    <3> QED BY <3>2, <3>3, <3>4, <3>5, <3>6
  <2>5. CASE x \notin Task
    <3>1. x # c /\ x # t /\ x # 0
      BY <2>5 DEF Task, First
    <3> QED BY <2>5, <3>1, PlacesAreTasks DEF Owns
  <2> QED BY <2>4, <2>5
<1> QED BY <1>1 DEF CallToSpace

(* It is enough to look at the two tasks a step is about.                  *)
LEMMA TasksAgain ==
  ASSUME Tasks, NEW CONSTANT t \in Task, NEW CONSTANT c \in Task, StepOf(t, c),
         TaskInv(t)', TaskInv(c)'
  PROVE  Tasks'
BY OthersStay, CallersStayApart DEF Tasks
------------------------------------------------------------------------------
(* fork takes a free slot.                                                 *)
LEMMA ForkStep ==
  ASSUME MemInv, NEW CONSTANT t \in Task, fork(t), cr3[t] # BadDir, halted = "no"
  PROVE  MemInv'
<1> USE DEF MemInv
<1> DEFINE free == { s \in Slot : pc[s] = "free" }
<1>1. free \in SUBSET Nat /\ free # {}
  BY DEF fork, Slot
<1>2. PICK c \in Slot : c = Min(free) /\ pc[c] = "free" /\ c \in Task
  BY <1>1, MinIsLeast DEF Task
<1>3. /\ pc[t] = "user" /\ t # c
      /\ pc' = [pc EXCEPT ![t] = "fork_stack", ![c] = "new"]
      /\ child' = [child EXCEPT ![t] = c]
      /\ UNCHANGED << used, mem, cr3, esp0, heap_end, parent, dir, at, page, todo, goal,
                      lost, starved, halted >>
  BY <1>2 DEF fork, spaceVars, taskVars
<1> HIDE DEF free
<1>4. /\ pc'[t] = "fork_stack" /\ pc'[c] = "new" /\ child'[t] = c /\ Tasks /\ Pages
      /\ TaskInv(t) /\ TaskInv(c)
  BY <1>2, <1>3 DEF MemTypeOK, Tasks
<1>5. MemTypeOK'
  BY <1>2, <1>3 DEF MemTypeOK, Pc
<1>6. StepOf(t, c)
  <2>1. \A u \in Task \ {t, c} : Same(u)
    BY <1>3 DEF Same, MemTypeOK
  <2>2. \A u \in Task : pc[u] \in CallPc => child[u] # c
    BY <1>2, <1>4 DEF Tasks, TaskInv, Parental, CallPc
  <2> QED BY <1>2, <1>3, <1>4, <2>1, <2>2 DEF StepOf, CallPc, ForkPc, CopyPc, ReapPc
<1>7. \A d, n : StopAt(d, n)' = StopAt(d, n)
  BY <1>3, CalmStops
<1>8. cr3[t] \in Page /\ dir[t] = 0 /\ cr3[c] = 0 /\ esp0[c] = 0 /\ dir[c] = 0 /\ page[t] = 0 /\ page[c] = 0
  BY <1>2, <1>3, <1>4 DEF TaskInv, Caller
<1>9. TaskInv(t)'
  BY <1>3, <1>4, <1>7, <1>8, <1>2
  DEF TaskInv, Caller, Parental, Copying, Mapping, Hungry, HeapRight, ForkPc, CopyPc, ReapPc, MapPc, FrameIn
<1>10. TaskInv(c)'
  BY <1>3, <1>4, <1>8
  DEF TaskInv, Caller, Parental, Copying, Mapping, Hungry, HeapRight, ForkPc, CopyPc, ReapPc, MapPc, BadDir
<1>11. Tasks'
  BY <1>2, <1>6, <1>9, <1>10, TasksAgain
<1>12. /\ t \notin Reaped /\ t \notin Reaped' /\ ~FreedStack(t) /\ ~FreedStack(t)'
       /\ c \notin Spaces /\ c \notin Spaces'
  BY <1>3, <1>4, <1>8, <1>11, Whole, WholeNext DEF Spaces
<1>13. Calm(t, c)
  BY <1>2, <1>3, <1>4, <1>7, <1>8, <1>12
  DEF Calm, InSpace, InCall, IsStack, IsPage, HasDir, Spaces
<1>14. Pages'
  BY <1>2, <1>3, <1>4, <1>6, <1>13, CalmPages
<1> QED BY <1>3, <1>5, <1>11, <1>14 DEF HaltsOnlyWhenStarved
------------------------------------------------------------------------------
(* What is known of the child of a process that is in sys_fork.            *)
LEMMA Forks ==
  ASSUME Tasks, NEW t \in Task, pc[t] \in ForkPc
  PROVE  /\ child[t] \in Slot /\ child[t] \in Task /\ child[t] # t /\ pc[child[t]] = "new"
         /\ dir[child[t]] = 0 /\ page[child[t]] = 0 /\ cr3[t] \in Page
         /\ \A u \in Task \ {t} : pc[u] \in CallPc => child[u] # child[t]
<1>1. TaskInv(t)
  BY DEF Tasks
<1>2. child[t] \in Slot /\ child[t] \in Task /\ pc[child[t]] = "new"
  BY <1>1 DEF TaskInv, Parental, Task
<1>3. TaskInv(child[t])
  BY <1>2 DEF Tasks
<1>4. dir[child[t]] = 0 /\ page[child[t]] = 0
  BY <1>2, <1>3 DEF TaskInv, Caller
<1> QED BY <1>1, <1>2, <1>4 DEF TaskInv, Caller, Tasks, ChildrenApart, CallPc, ForkPc, CopyPc

(* The stack of a child: a page, or none, and the fork is undone.          *)
LEMMA TssInitStackStep ==
  ASSUME MemInv, NEW CONSTANT t \in Task, tss_init_stack(t), halted = "no"
  PROVE  MemInv'
<1>0. MemTypeOK /\ Tasks /\ Pages /\ pc[t] = "fork_stack" /\ TaskInv(t)
  BY DEF tss_init_stack, Goes, Tasks, MemInv
<1>1. PICK c \in Slot : c = child[t]
  BY <1>0, Forks DEF ForkPc
<1>2. /\ c \in Task /\ c # t /\ pc[c] = "new" /\ cr3[t] \in Page
      /\ dir[c] = 0 /\ page[c] = 0 /\ dir[t] = 0 /\ page[t] = 0 /\ esp0[c] = 0 /\ cr3[c] = 0
      /\ \A u \in Task \ {t} : pc[u] \in CallPc => child[u] # c
  BY <1>0, <1>1, Forks DEF ForkPc, TaskInv, Parental, Caller
<1>3. UNCHANGED << mem, cr3, heap_end, parent, child, dir, at, page, todo, goal, lost, halted >>
  BY DEF tss_init_stack, callVars
<1>4. PICK to \in {"fork_dir", "fork_undo"} : pc' = [pc EXCEPT ![t] = to]
  BY DEF tss_init_stack, Goes
<1>5. \A d, n : StopAt(d, n)' = StopAt(d, n)
  BY <1>0, <1>3, CalmStops
<1>6. ASSUME starved => starved', \A u \in Task \ {t, c} : esp0'[u] = esp0[u] PROVE StepOf(t, c)
  <2>1. \A u \in Task \ {t, c} : Same(u)
    BY <1>0, <1>3, <1>4, <1>6 DEF Same, MemTypeOK
  <2> QED BY <1>0, <1>1, <1>2, <1>3, <1>4, <1>6, <2>1
             DEF StepOf, CallPc, ForkPc, CopyPc, ReapPc, MemTypeOK
<1>7. ASSUME starved => starved', to = "fork_undo" => starved',
             to = "fork_dir" => esp0'[c] # 0,
             \A u \in Task : u # c => esp0'[u] = esp0[u]
      PROVE  Tasks'
  <2>1. TaskInv(t)'
    BY <1>0, <1>1, <1>2, <1>3, <1>4, <1>5, <1>7
    DEF TaskInv, Caller, Parental, Copying, Mapping, Hungry, HeapRight, ForkPc, CopyPc, ReapPc,
        MapPc, FrameIn, MemTypeOK
  <2>2. TaskInv(c)'
    BY <1>0, <1>2, <1>3, <1>4
    DEF TaskInv, Caller, Parental, Copying, Mapping, Hungry, HeapRight, ForkPc, CopyPc, ReapPc,
        MapPc, BadDir, MemTypeOK
  <2> QED BY <1>0, <1>2, <1>6, <1>7, <2>1, <2>2, TasksAgain
<1>8. /\ t \notin Reaped /\ c \notin Reaped /\ ~FreedStack(t) /\ c \notin Spaces
      /\ HasDir(t)' = FALSE /\ HasDir(c)' = FALSE /\ HasDir(t) = FALSE /\ HasDir(c) = FALSE
  BY <1>0, <1>2, <1>3, Whole DEF Spaces, HasDir
<1>9. ASSUME Tasks'
      PROVE  /\ t \notin Reaped' /\ c \notin Reaped' /\ ~FreedStack(t)' /\ c \notin Spaces'
  BY <1>0, <1>2, <1>3, <1>4, <1>9, WholeNext DEF Spaces, MemTypeOK
<1>10. CASE \E p \in Page : addr_alloc_page(p) /\ esp0' = [esp0 EXCEPT ![c] = p]
                           /\ starved' = starved /\ to = "fork_dir"
  <2>1. PICK p \in Page : addr_alloc_page(p) /\ esp0' = [esp0 EXCEPT ![c] = p]
                           /\ starved' = starved /\ to = "fork_dir"
    BY <1>0, <1>10
  <2>2. p \notin used /\ used' = used \cup {p} /\ p # 0
    BY <2>1, MemoryAssumption DEF addr_alloc_page, Free, Page
  <2>3. MemTypeOK'
    <3>1. used' \subseteq Page /\ starved' \in BOOLEAN
      BY <1>0, <2>1, <2>2 DEF MemTypeOK
    <3>2. pc' \in [Task -> Pc]
      BY <1>0, <1>4 DEF MemTypeOK, Pc
    <3>3. p \in 0..PageCount
      BY MemoryAssumption DEF Page
    <3>4. esp0' \in [Task -> 0..PageCount]
      BY <1>0, <2>1, <3>3 DEF MemTypeOK
    <3> QED BY <1>0, <1>3, <3>1, <3>2, <3>4 DEF MemTypeOK
  <2>4. StepOf(t, c) /\ Tasks'
    <3>1. (starved => starved') /\ (to = "fork_undo" => starved')
      BY <2>1
    <3>3. esp0'[c] # 0
      BY <1>0, <1>2, <2>1, <2>2 DEF MemTypeOK
    <3>2. \A u \in Task : u # c => esp0'[u] = esp0[u]
      BY <1>0, <2>1 DEF MemTypeOK
    <3> QED BY <1>0, <1>2, <1>6, <1>7, <3>1, <3>2, <3>3
  <2>5. ~FreedStack(c)'
    BY <1>0, <1>1, <1>2, <1>3, <1>4, <2>1 DEF FreedStack, CallPc, ForkPc, MemTypeOK
  <2>6. \A q : IsStack(c, q)' <=> q = p
    BY <1>0, <1>2, <2>1, <2>2, <2>5 DEF IsStack, MemTypeOK
  <2>7. \A q : /\ ~IsStack(c, q)
               /\ IsStack(t, q)' <=> IsStack(t, q)
    BY <1>0, <1>2, <1>8, <1>9, <2>1, <2>4 DEF IsStack, MemTypeOK
  <2>8. \A x \in {t, c} : \A n, q : /\ InSpace(x, n, q)' <=> InSpace(x, n, q)
                                    /\ InCall(x, n, q)' <=> InCall(x, n, q)
                                    /\ IsPage(x, q)' <=> IsPage(x, q)
    BY <1>0, <1>2, <1>3, <1>5, <1>8, <1>9, <2>4 DEF InSpace, InCall, IsPage, Spaces
  <2>9. Takes(t, c, p, "stack", c, 0)
    BY <1>2, <2>6, <2>7, <2>8 DEF Takes
  <2>10. Pages'
    BY <1>0, <1>2, <1>3, <2>2, <2>4, <2>9, TakenPage
  <2> QED BY <1>0, <1>3, <2>3, <2>4, <2>10 DEF HaltsOnlyWhenStarved, MemInv
<1>11. CASE used' = used /\ esp0' = esp0 /\ starved' = TRUE /\ to = "fork_undo"
  <2>1. MemTypeOK'
    BY <1>0, <1>1, <1>2, <1>3, <1>4, <1>11 DEF MemTypeOK, Pc
  <2>2. StepOf(t, c) /\ Tasks'
    BY <1>0, <1>2, <1>6, <1>7, <1>11
  <2>3. Calm(t, c)
    BY <1>2, <1>3, <1>5, <1>8, <1>9, <1>11, <2>2 DEF Calm, InSpace, InCall, IsPage, IsStack, Spaces
  <2>4. Pages'
    BY <1>0, <1>2, <1>3, <1>11, <2>2, <2>3, CalmPages
  <2> QED BY <1>0, <1>3, <2>1, <2>2, <2>4 DEF HaltsOnlyWhenStarved, MemInv
<1> QED
  BY <1>0, <1>1, <1>3, <1>4, <1>10, <1>11 DEF tss_init_stack, Goes, Exhausted, MemTypeOK
------------------------------------------------------------------------------
(* A free page is nobody's.                                                *)
LEMMA FreeIsNobodys ==
  ASSUME Pages, NEW q, q \notin used
  PROVE  \A x, n : ~InSpace(x, n, q) /\ ~InCall(x, n, q) /\ ~IsStack(x, q) /\ ~IsPage(x, q)
BY OwnedIsUsed, SpaceOwns, CallOwns, StackOwns, PageOwns

(* A page that is owned is owned nowhere else.                             *)
LEMMA OwnedOnce ==
  ASSUME Pages, NEW K, NEW X, NEW N, NEW q, Owns(K, X, N, q)
  PROVE  /\ \A x, n : /\ InSpace(x, n, q) => K = "space" /\ x = X /\ n = N
                      /\ InCall(x, n, q) => K = "call" /\ x = X /\ n = N
         /\ \A x : /\ IsStack(x, q) => K = "stack" /\ x = X
                   /\ IsPage(x, q) => K = "page" /\ x = X
         /\ q \in lost => K = "lost"
<1>1. \A k, x, n : Owns(k, x, n, q) => k = K /\ x = X /\ n = N
  BY DEF Pages, Apart
<1>2. q \in lost => Owns("lost", 0, 0, q)
  BY DEF Owns
<1> QED BY <1>1, <1>2, SpaceOwns, CallOwns, StackOwns, PageOwns

(* A page is not the null address and not -1.                              *)
LEMMA PagesAre ==
  ASSUME NEW p \in Page
  PROVE  p # 0 /\ p # BadDir /\ p \in 0..PageCount /\ p \in -1..PageCount
BY MemoryAssumption DEF Page, BadDir

(* Clearing a page changes that page only.                                 *)
LEMMA ClearedPage ==
  ASSUME MemTypeOK, NEW q, mem' = [mem EXCEPT ![q] = Empty]
  PROVE  /\ mem' \in [Page -> [Entry -> 0..PageCount]]
         /\ \A p \in Page : p # q => mem'[p] = mem[p]
<1>1. Empty \in [Entry -> 0..PageCount]
  BY MemoryAssumption DEF Empty
<1>2. mem \in [Page -> [Entry -> 0..PageCount]]
  BY DEF MemTypeOK
<1> QED BY <1>1, <1>2

(* A directory that has just been cleared.                                 *)
LEMMA EmptyDir ==
  ASSUME NEW CONSTANT d, mem'[d] = Empty
  PROVE  \A n \in Stops : StopAt(d, n)' = IF n = LastStop THEN d ELSE 0
<1> SUFFICES ASSUME NEW CONSTANT n \in Stops
             PROVE  StopAt(d, n)' = IF n = LastStop THEN d ELSE 0
  OBVIOUS
<1>1. CASE n = LastStop
  BY <1>1, LastStopIs
<1>2. CASE n # LastStop
  <2>1. n \in 1..(LastStop - 1)
    BY <1>2, Sizes DEF Stops
  <2>2. Row(n) \in Entry
    BY <2>1, RowAndCol, Sizes
  <2> QED BY <1>2, <2>1, <2>2, StopIsNext DEF Empty
<1> QED BY <1>1, <1>2

(* A task that is not in the middle of a call.                             *)
LEMMA RestInv ==
  ASSUME NEW CONSTANT u, pc'[u] \in {"free", "new", "user", "zombie"}, dir'[u] = 0, page'[u] = 0,
         pc'[u] = "free" => cr3'[u] = 0 /\ esp0'[u] = 0,
         pc'[u] = "user" => cr3'[u] \in Page \cup {BadDir} /\ HeapRight(u)',
         pc'[u] = "zombie" => cr3'[u] \in Page,
         Hungry(u)'
  PROVE  TaskInv(u)'
<1>1. Caller(u)' /\ Parental(u)' /\ Copying(u)' /\ Mapping(u)'
  BY DEF Caller, Parental, Copying, Mapping, ForkPc, CopyPc, ReapPc, MapPc
<1>2. HeapRight(u)'
  BY DEF HeapRight, MapPc
<1> QED BY <1>1, <1>2 DEF TaskInv

(* The heap of a task is right as long as nothing of it changes.           *)
LEMMA HeapStays ==
  ASSUME NEW CONSTANT u, Caller(u), Hungry(u), HeapRight(u),
         pc[u] \notin {"free", "new", "zombie"} \cup MapPc,
         pc'[u] \notin {"free", "new", "zombie"} \cup MapPc,
         cr3'[u] = cr3[u], heap_end'[u] = heap_end[u], starved => starved',
         cr3[u] \in Page => SpaceKept(u)
  PROVE  HeapRight(u)'
<1>1. ~starved => cr3[u] \in Page
  BY DEF Caller, Hungry
<1>2. ~starved => \A v \in VPage : FrameIn(cr3[u], v)' = FrameIn(cr3[u], v)
  BY <1>1, FrameStopIn DEF SpaceKept, FrameIn
<1> QED BY <1>2 DEF HeapRight
------------------------------------------------------------------------------
(* The directory of a child: a page, or none, and its stack is given back. *)
LEMMA TssInitDirStep ==
  ASSUME MemInv, NEW CONSTANT t \in Task, tss_init_dir(t), halted = "no"
  PROVE  MemInv'
<1>0. MemTypeOK /\ Tasks /\ Pages /\ pc[t] = "fork_dir" /\ TaskInv(t)
  BY DEF tss_init_dir, Goes, Tasks, MemInv
<1>1. PICK c \in Slot : c = child[t]
  BY <1>0, Forks DEF ForkPc
<1>2. /\ c \in Task /\ c # t /\ pc[c] = "new" /\ cr3[t] \in Page
      /\ dir[c] = 0 /\ page[c] = 0 /\ dir[t] = 0 /\ page[t] = 0 /\ esp0[c] # 0 /\ cr3[c] = 0
      /\ \A u \in Task \ {t} : pc[u] \in CallPc => child[u] # c
  BY <1>0, <1>1, Forks DEF ForkPc, TaskInv, Parental, Caller
<1>3. UNCHANGED << esp0, heap_end, parent, child, dir, at, page, todo, goal, lost, halted >>
  BY DEF tss_init_dir, callVars
<1>4. PICK to \in {"copy_dir", "fork_undo"} : pc' = [pc EXCEPT ![t] = to]
  BY DEF tss_init_dir, Goes
<1>5. pc' \in [Task -> Pc] /\ pc'[t] = to /\ pc'[c] = "new"
  BY <1>0, <1>2, <1>4 DEF MemTypeOK, Pc
<1>6. ASSUME starved => starved', \A u \in Task \ {c} : cr3'[u] = cr3[u],
             \A p : mem'[p] = mem[p] \/ \A u \in Task \ {t, c} : \A n : ~InSpace(u, n, p) /\ ~InCall(u, n, p)
      PROVE  StepOf(t, c)
  <2>1. \A u \in Task \ {t, c} : Same(u)
    BY <1>0, <1>3, <1>4, <1>6 DEF Same, MemTypeOK
  <2> QED BY <1>0, <1>1, <1>2, <1>3, <1>5, <1>6, <2>1 DEF StepOf, CallPc, ForkPc, CopyPc, ReapPc
<1>7. /\ t \in Spaces /\ t \notin Reaped /\ c \notin Reaped /\ ~FreedStack(t) /\ c \notin Spaces
      /\ HasDir(t)' = FALSE /\ HasDir(c)' = FALSE /\ HasDir(t) = FALSE /\ HasDir(c) = FALSE
  BY <1>0, <1>2, <1>3, Whole, SpaceOfATask DEF Spaces, HasDir
<1>8. ~FreedStack(c)
  BY <1>0, <1>1, <1>2 DEF FreedStack, CallPc, ForkPc
<1>9. ASSUME Tasks'
      PROVE  /\ t \notin Reaped' /\ c \notin Reaped' /\ ~FreedStack(t)'
  BY <1>0, <1>2, <1>5, <1>9, WholeNext
<1>10. CASE \E p \in Page : /\ addr_alloc_page(p) /\ mem' = [mem EXCEPT ![p] = Empty]
                            /\ cr3' = [cr3 EXCEPT ![c] = p] /\ starved' = starved /\ to = "copy_dir"
  <2>1. PICK p \in Page : /\ addr_alloc_page(p) /\ mem' = [mem EXCEPT ![p] = Empty]
                          /\ cr3' = [cr3 EXCEPT ![c] = p] /\ starved' = starved /\ to = "copy_dir"
    BY <1>10
  <2>2. p \notin used /\ used' = used \cup {p} /\ p # 0 /\ p \in 0..PageCount /\ p # BadDir
    BY <2>1, MemoryAssumption DEF addr_alloc_page, Free, Page, BadDir
  <2>3. mem' \in [Page -> [Entry -> 0..PageCount]] /\ mem'[p] = Empty
    BY <1>0, <2>1, MemoryAssumption DEF MemTypeOK, Empty
  <2>4. cr3' \in [Task -> -1..PageCount] /\ cr3'[c] = p /\ \A u \in Task \ {c} : cr3'[u] = cr3[u]
    BY <1>0, <1>2, <2>1, <2>2 DEF MemTypeOK
  <2>5. MemTypeOK'
    BY <1>0, <1>3, <1>5, <2>1, <2>2, <2>3, <2>4 DEF MemTypeOK
  <2>6. \A q : mem'[q] = mem[q] \/ \A u, n : ~InSpace(u, n, q) /\ ~InCall(u, n, q)
    BY <1>0, <2>1, <2>2, FreeIsNobodys DEF MemTypeOK
  <2>7. StepOf(t, c)
    BY <1>6, <2>1, <2>4, <2>6
  <2>8. SpaceKept(t)
    BY <1>2, <1>7, <2>4, <2>6, SpaceStays DEF SpaceKept
  <2>9. \A n \in Stops : StopAt(p, n)' = IF n = LastStop THEN p ELSE 0
    BY <2>3, EmptyDir
  <2>10. TaskInv(t)'
    <3>1. Caller(t)' /\ Copying(t)' /\ Mapping(t)' /\ Hungry(t)'
      BY <1>0, <1>2, <1>3, <1>5, <2>1, <2>4, MemoryAssumption
      DEF Caller, Copying, Mapping, Hungry, MapPc, BadDir, Page
    <3>2. Parental(t)'
      BY <1>1, <1>2, <1>3, <1>5, <2>1, <2>4, <2>9, Sizes DEF Parental, ForkPc, CopyPc, ReapPc, Stops
    <3>3. HeapRight(t)'
      BY <1>0, <1>2, <1>3, <1>5, <2>1, <2>4, <2>8, HeapStays DEF TaskInv, MapPc
    <3> QED BY <3>1, <3>2, <3>3 DEF TaskInv
  <2>11. TaskInv(c)'
    BY <1>2, <1>3, <1>5, <2>2, <2>4, RestInv DEF Hungry
  <2>12. Tasks'
    BY <1>2, <2>7, <2>10, <2>11, <1>0, TasksAgain
  <2>13. c \in Spaces' /\ t \in Spaces' /\ c \in Spaces' /\ LastStop \in Stops
    BY <1>2, <1>9, <2>2, <2>4, <2>12, MemoryAssumption, Sizes DEF Spaces, Page, BadDir, Stops
  <2>14. \A n, q : InSpace(c, n, q)' <=> n = LastStop /\ q = p
    BY <2>2, <2>4, <2>9, <2>13 DEF InSpace
  <2>15. \A n, q : InSpace(t, n, q)' <=> InSpace(t, n, q)
    BY <1>2, <1>7, <2>4, <2>8, <2>13 DEF InSpace, SpaceKept
  <2>16. ~FreedStack(c)'
    BY <1>1, <1>2, <1>3, <1>4, <1>0, <1>5, <2>1 DEF FreedStack, CallPc, ForkPc, MemTypeOK
  <2>17. \A x \in {t, c} : \A n, q : /\ InCall(x, n, q)' <=> InCall(x, n, q)
                                     /\ IsPage(x, q)' <=> IsPage(x, q)
                                     /\ IsStack(x, q)' <=> IsStack(x, q)
    BY <1>3, <1>7, <1>8, <1>9, <2>12, <2>16 DEF InCall, IsPage, IsStack
  <2>18. Takes(t, c, p, "space", c, LastStop)
    BY <1>2, <1>7, <2>14, <2>15, <2>17 DEF Takes, InSpace
  <2>19. Pages'
    BY <1>0, <1>2, <1>3, <2>2, <2>7, <2>18, TakenPage
  <2> QED BY <1>0, <1>3, <2>5, <2>12, <2>19 DEF HaltsOnlyWhenStarved, MemInv
<1>11. CASE addr_free_page(esp0[c]) /\ cr3' = cr3 /\ starved' = TRUE /\ to = "fork_undo"
  <2>1. PICK q : q = esp0[c]
    OBVIOUS
  <2>2. Owns("stack", c, 0, q)
    BY <1>2, <1>8, <2>1, StackOwns DEF IsStack
  <2>3. used' = used \ {q} /\ mem' = [mem EXCEPT ![q] = Empty]
    BY <1>11, <2>1 DEF addr_free_page
  <2>4. mem' \in [Page -> [Entry -> 0..PageCount]]
    BY <1>0, <2>3, ClearedPage
  <2>5. MemTypeOK'
    BY <1>0, <1>3, <1>5, <1>11, <2>3, <2>4 DEF MemTypeOK
  <2>6. \A p : mem'[p] = mem[p] \/ \A u, n : ~InSpace(u, n, p) /\ ~InCall(u, n, p)
    BY <1>0, <2>2, <2>3, OwnedOnce DEF MemTypeOK
  <2>7. StepOf(t, c)
    BY <1>6, <1>11, <2>6
  <2>8. SpaceKept(t)
    BY <1>2, <1>7, <1>11, <2>6, SpaceStays DEF SpaceKept
  <2>9. TaskInv(t)'
    <3>1. Caller(t)' /\ Copying(t)' /\ Mapping(t)' /\ Hungry(t)'
      BY <1>0, <1>2, <1>3, <1>5, <1>11, MemoryAssumption
      DEF Caller, Copying, Mapping, Hungry, MapPc, BadDir, Page
    <3>2. Parental(t)'
      BY <1>1, <1>2, <1>3, <1>5, <1>11 DEF Parental, ForkPc, CopyPc, ReapPc
    <3>3. HeapRight(t)'
      BY <1>11 DEF HeapRight
    <3> QED BY <3>1, <3>2, <3>3 DEF TaskInv
  <2>10. TaskInv(c)'
    BY <1>2, <1>3, <1>5, <1>11, RestInv DEF Hungry
  <2>11. Tasks'
    BY <1>2, <2>7, <2>9, <2>10, <1>0, TasksAgain
  <2>12. c \notin Spaces' /\ t \in Spaces'
    BY <1>2, <1>9, <1>11, <2>11, MemoryAssumption DEF Spaces, Page, BadDir
  <2>13. FreedStack(c)'
    BY <1>1, <1>3, <1>5, <1>11 DEF FreedStack
  <2>14. \A x \in {t, c} : \A n, p : /\ InSpace(x, n, p)' <=> InSpace(x, n, p)
                                     /\ InCall(x, n, p)' <=> InCall(x, n, p)
                                     /\ IsPage(x, p)' <=> IsPage(x, p)
    BY <1>3, <1>7, <1>11, <2>8, <2>12 DEF InSpace, InCall, IsPage, SpaceKept
  <2>15. \A p : /\ ~IsStack(c, p)'
                /\ IsStack(c, p) <=> p = q
                /\ IsStack(t, p)' <=> IsStack(t, p)
    BY <1>2, <1>3, <1>7, <1>8, <1>9, <2>1, <2>11, <2>13 DEF IsStack
  <2>16. Gives(t, c, q)
    <3>1. \A x, n : ~InSpace(x, n, q) /\ ~InCall(x, n, q) /\ ~IsPage(x, q)
      BY <1>0, <2>2, OwnedOnce
    <3>2. ~IsStack(t, q)
      BY <1>0, <1>2, <2>2, OwnedOnce
    <3>3. \A p : IsStack(c, p)' <=> IsStack(c, p) /\ p # q
      BY <2>15
    <3>4. \A p : IsStack(t, p)' <=> IsStack(t, p) /\ p # q
      BY <2>15, <3>2
    <3> QED BY <2>14, <3>1, <3>3, <3>4 DEF Gives
  <2>17. Pages'
    BY <1>0, <1>2, <1>3, <2>2, <2>3, <2>7, <2>16, GivenPage
  <2> QED BY <1>0, <1>3, <1>11, <2>5, <2>11, <2>17 DEF HaltsOnlyWhenStarved, MemInv
<1> QED
  BY <1>0, <1>1, <1>3, <1>5, <1>4, <1>10, <1>11 DEF tss_init_dir, Goes, Exhausted
------------------------------------------------------------------------------
(* What cannot be given a directory is freed; its stack for a second time. *)
LEMMA TaskUninitStep ==
  ASSUME MemInv, NEW CONSTANT t \in Task, task_uninit(t), starved' = starved, halted = "no"
  PROVE  MemInv'
<1>0. MemTypeOK /\ Tasks /\ Pages /\ pc[t] = "fork_undo" /\ TaskInv(t)
  BY DEF task_uninit, Tasks, MemInv
<1>1. PICK c \in Slot : c = child[t]
  BY <1>0, Forks DEF ForkPc
<1>2. /\ c \in Task /\ c # t /\ pc[c] = "new" /\ cr3[t] \in Page /\ starved
      /\ dir[c] = 0 /\ page[c] = 0 /\ dir[t] = 0 /\ page[t] = 0 /\ cr3[c] = 0
      /\ \A u \in Task \ {t} : pc[u] \in CallPc => child[u] # c
  BY <1>0, <1>1, Forks DEF ForkPc, TaskInv, Parental, Caller, Hungry
<1>3. /\ UNCHANGED << mem, cr3, heap_end, parent, dir, at, page, todo, goal, lost >>
      /\ pc' = [pc EXCEPT ![t] = "user", ![c] = "free"]
      /\ esp0' = [esp0 EXCEPT ![c] = 0] /\ child' = [child EXCEPT ![t] = NoTask]
      /\ used' = used \ {esp0[c]}
      /\ halted' = IF esp0[c] \in used THEN "freed twice" ELSE "no"
  BY <1>1 DEF task_uninit
<1>4. /\ pc' \in [Task -> Pc] /\ pc'[t] = "user" /\ pc'[c] = "free"
      /\ child' \in [Task -> Slot \cup {NoTask}]
      /\ esp0' \in [Task -> 0..PageCount] /\ esp0'[c] = 0 /\ esp0'[t] = esp0[t]
  BY <1>0, <1>2, <1>3, MemoryAssumption DEF MemTypeOK, Pc
<1>5. MemTypeOK'
  BY <1>0, <1>3, <1>4 DEF MemTypeOK, Halts
<1>6. HaltsOnlyWhenStarved'
  BY <1>2 DEF HaltsOnlyWhenStarved
<1>7. CASE halted' # "freed twice"
  <2>1. used' = used
    BY <1>3, <1>7
  <2>2. StepOf(t, c)
    <3>1. \A u \in Task \ {t, c} : Same(u)
      BY <1>0, <1>3 DEF Same, MemTypeOK
    <3> QED BY <1>0, <1>1, <1>2, <1>3, <1>4, <3>1 DEF StepOf, CallPc, ForkPc, CopyPc, ReapPc
  <2>3. TaskInv(t)'
    <3>1. Hungry(t)' /\ HeapRight(t)'
      BY <1>2 DEF Hungry, HeapRight
    <3>2. pc'[t] = "user" /\ dir'[t] = 0 /\ page'[t] = 0 /\ cr3'[t] \in Page
      BY <1>2, <1>3, <1>4
    <3> QED BY <3>1, <3>2, RestInv
  <2>4. TaskInv(c)'
    <3>1. Hungry(c)'
      BY <1>2 DEF Hungry
    <3>2. pc'[c] = "free" /\ dir'[c] = 0 /\ page'[c] = 0 /\ cr3'[c] = 0 /\ esp0'[c] = 0
      BY <1>2, <1>3, <1>4
    <3> QED BY <3>1, <3>2, RestInv
  <2>5. Tasks'
    BY <1>2, <2>2, <2>3, <2>4, <1>0, TasksAgain
  <2>6. /\ t \notin Reaped /\ t \notin Reaped' /\ ~FreedStack(t) /\ ~FreedStack(t)' /\ FreedStack(c)
        /\ c \notin Spaces /\ c \notin Spaces'
        /\ ~HasDir(t) /\ ~HasDir(t)' /\ ~HasDir(c) /\ ~HasDir(c)'
    BY <1>0, <1>1, <1>2, <1>3, <1>4, <2>5, Whole, WholeNext DEF Spaces, HasDir, FreedStack
  <2>7. \A d, n : StopAt(d, n)' = StopAt(d, n)
    BY <1>3, CalmStops
  <2>8. Calm(t, c)
    <3>1. (t \in Spaces' <=> t \in Spaces) /\ cr3' = cr3 /\ dir' = dir /\ page' = page
      BY <1>3, <2>6 DEF Spaces
    <3>2. \A n, p : (InSpace(t, n, p)' <=> InSpace(t, n, p)) /\ (InSpace(c, n, p)' <=> InSpace(c, n, p))
      BY <2>6, <2>7, <3>1 DEF InSpace
    <3>3. \A x \in {t, c} : \A n, p : InCall(x, n, p)' <=> InCall(x, n, p)
      BY <2>6 DEF InCall
    <3>4. \A p : (IsStack(t, p)' <=> IsStack(t, p)) /\ ~IsStack(c, p) /\ ~IsStack(c, p)'
      BY <1>4, <2>6 DEF IsStack
    <3>5. \A x \in {t, c} : \A p : IsPage(x, p)' <=> IsPage(x, p)
      BY <3>1 DEF IsPage
    <3> QED BY <3>2, <3>3, <3>4, <3>5 DEF Calm
  <2>9. Pages'
    BY <1>0, <1>2, <1>3, <2>1, <2>2, <2>8, CalmPages
  <2> QED BY <1>5, <1>6, <2>5, <2>9 DEF MemInv
<1> QED BY <1>5, <1>6, <1>7 DEF MemInv
------------------------------------------------------------------------------
(* A child that is being given its copy: its own directory is still empty. *)
LEMMA Copies ==
  ASSUME Tasks, NEW t \in Task, pc[t] \in CopyPc
  PROVE  /\ child[t] \in Slot /\ child[t] \in Task /\ child[t] # t /\ pc[child[t]] = "new"
         /\ dir[child[t]] = 0 /\ page[child[t]] = 0
         /\ cr3[t] \in Page /\ cr3[child[t]] \in Page
         /\ \A n \in 1..(LastStop - 1) : StopAt(cr3[child[t]], n) = 0
         /\ \A u \in Task \ {t} : pc[u] \in CallPc => child[u] # child[t]
         /\ t \in Spaces /\ child[t] \in Spaces /\ t \notin Reaped /\ child[t] \notin Reaped
         /\ ~FreedStack(t) /\ ~FreedStack(child[t]) /\ ~HasDir(child[t])
<1>1. pc[t] \in ForkPc /\ pc[t] \notin {"new", "zombie", "fork_undo"}
  BY DEF ForkPc, CopyPc
<1>2. TaskInv(t)
  BY DEF Tasks
<1>3. /\ child[t] \in Slot /\ child[t] \in Task /\ child[t] # t /\ pc[child[t]] = "new"
      /\ dir[child[t]] = 0 /\ page[child[t]] = 0
      /\ cr3[t] \in Page /\ \A u \in Task \ {t} : pc[u] \in CallPc => child[u] # child[t]
  BY <1>1, Forks
<1>4. cr3[child[t]] \in Page /\ \A n \in 1..(LastStop - 1) : StopAt(cr3[child[t]], n) = 0
  BY <1>2 DEF TaskInv, Parental
<1>5. t \in Spaces /\ child[t] \in Spaces
  BY <1>1, <1>3, <1>4, SpaceOfATask
<1>6. ~FreedStack(child[t])
  BY <1>1, <1>3 DEF FreedStack, CallPc, ForkPc
<1>7. t \notin Reaped /\ child[t] \notin Reaped /\ ~FreedStack(t)
  BY <1>1, <1>3, Whole
<1> QED BY <1>3, <1>4, <1>5, <1>6, <1>7 DEF HasDir

(* memory_copy_uvm gets a directory,                                       *)
LEMMA CopyDirStep ==
  ASSUME MemInv, NEW CONSTANT t \in Task, pc[t] = "copy_dir", halted = "no",
         NEW CONSTANT p \in Page, addr_alloc_page(p),
         Goes(t, "copy_dir", "copy"), mem' = [mem EXCEPT ![p] = Empty],
         dir' = [dir EXCEPT ![t] = p], at' = [at EXCEPT ![t] = 1],
         UNCHANGED << taskVars, child, page, todo, goal, lost, starved, halted >>
  PROVE  MemInv'
<1>0. MemTypeOK /\ Tasks /\ Pages /\ TaskInv(t)
  BY DEF Tasks, MemInv
<1>1. PICK c \in Slot : c = child[t]
  BY <1>0, Copies DEF CopyPc
<1>2. /\ c \in Task /\ c # t /\ pc[c] = "new" /\ dir[c] = 0 /\ page[c] = 0 /\ dir[t] = 0 /\ page[t] = 0
      /\ cr3[t] \in Page /\ cr3[c] \in Page
      /\ \A n \in 1..(LastStop - 1) : StopAt(cr3[c], n) = 0
      /\ \A u \in Task \ {t} : pc[u] \in CallPc => child[u] # c
      /\ t \in Spaces /\ c \in Spaces /\ t \notin Reaped /\ c \notin Reaped
      /\ ~FreedStack(t) /\ ~FreedStack(c) /\ ~HasDir(c) /\ ~HasDir(t)
  BY <1>0, <1>1, Copies DEF CopyPc, TaskInv, Caller, HasDir
<1>3. /\ UNCHANGED << cr3, esp0, heap_end, parent, child, page, todo, goal, lost, starved, halted >>
      /\ pc' = [pc EXCEPT ![t] = "copy"]
  BY DEF taskVars, Goes
<1>4. p \notin used /\ used' = used \cup {p} /\ p # 0 /\ p \in 0..PageCount /\ p # BadDir
  BY MemoryAssumption DEF addr_alloc_page, Free, Page, BadDir
<1>5. /\ pc' \in [Task -> Pc] /\ pc'[t] = "copy" /\ pc'[c] = "new"
      /\ dir' \in [Task -> 0..PageCount] /\ dir'[t] = p /\ dir'[c] = 0
      /\ at' \in [Task -> 0..LastStop] /\ at'[t] = 1
  BY <1>0, <1>2, <1>3, <1>4, Sizes DEF MemTypeOK, Pc
<1>6. mem' \in [Page -> [Entry -> 0..PageCount]] /\ mem'[p] = Empty
  BY <1>0, ClearedPage DEF MemTypeOK
<1>7. MemTypeOK'
  BY <1>0, <1>3, <1>4, <1>5, <1>6 DEF MemTypeOK
<1>8. \A q : mem'[q] = mem[q] \/ \A u, n : ~InSpace(u, n, q) /\ ~InCall(u, n, q)
  BY <1>0, <1>4, FreeIsNobodys DEF MemTypeOK
<1>9. StepOf(t, c)
  <2>1. \A u \in Task \ {t, c} : Same(u)
    BY <1>0, <1>3 DEF Same, MemTypeOK
  <2> QED BY <1>1, <1>2, <1>3, <1>5, <1>8, <2>1 DEF StepOf, CallPc, ForkPc, CopyPc, ReapPc
<1>10. SpaceKept(t) /\ SpaceKept(c)
  BY <1>2, <1>3, <1>8, SpaceStays DEF SpaceKept
<1>11. \A n \in Stops : StopAt(p, n)' = IF n = LastStop THEN p ELSE 0
  BY <1>6, EmptyDir
<1>12. cr3[t] \in used /\ p # cr3[t]
  <2>1. InSpace(t, LastStop, cr3[t])
    BY <1>2, LastStopIs, Sizes, MemoryAssumption DEF InSpace, Stops, Page
  <2> QED BY <1>0, <1>4, <2>1, FreeIsNobodys
<1>13. TaskInv(t)'
  <2>1. Caller(t)' /\ Mapping(t)' /\ Hungry(t)'
    BY <1>0, <1>2, <1>3, <1>5, <1>12, MemoryAssumption, Sizes
    DEF Caller, Mapping, Hungry, MapPc, BadDir, Page
  <2>2. Parental(t)'
    BY <1>1, <1>2, <1>3, <1>5, <1>10, Sizes DEF Parental, ForkPc, CopyPc, ReapPc, Stops, SpaceKept
  <2>3. Copying(t)'
    BY <1>5, <1>11, StopsOfAPage, Sizes DEF Copying, FrameIn, Stops, VPage
  <2>4. HeapRight(t)'
    BY <1>0, <1>2, <1>3, <1>5, <1>10, HeapStays DEF TaskInv, MapPc
  <2> QED BY <2>1, <2>2, <2>3, <2>4 DEF TaskInv
<1>14. TaskInv(c)'
  BY <1>2, <1>3, <1>5, RestInv, MemoryAssumption DEF Hungry, Page, BadDir
<1>15. Tasks'
  BY <1>2, <1>9, <1>13, <1>14, <1>0, TasksAgain
<1>16. /\ t \in Spaces' /\ c \in Spaces' /\ ~FreedStack(t)' /\ ~FreedStack(c)' /\ ~HasDir(c)'
       /\ HasDir(t)' /\ From(t)' = 1
  <2>1. t \notin Reaped' /\ c \notin Reaped' /\ ~FreedStack(t)'
    BY <1>2, <1>5, <1>15, WholeNext
  <2>2. ~FreedStack(c)'
    BY <1>1, <1>2, <1>0, <1>3, <1>5 DEF FreedStack, CallPc, ForkPc, MemTypeOK
  <2>3. t \in Spaces' /\ c \in Spaces'
    BY <1>2, <1>3, <2>1 DEF Spaces
  <2> QED BY <1>3, <1>4, <1>5, <1>12, <2>1, <2>2, <2>3 DEF HasDir, From
<1>17. \A x \in {t, c} : \A n, q : /\ InSpace(x, n, q)' <=> InSpace(x, n, q)
                                   /\ IsStack(x, q)' <=> IsStack(x, q)
                                   /\ IsPage(x, q)' <=> IsPage(x, q)
  BY <1>2, <1>3, <1>10, <1>16 DEF InSpace, IsStack, IsPage, SpaceKept
<1>18. \A n, q : InCall(t, n, q)' <=> n = LastStop /\ q = p
  BY <1>4, <1>5, <1>11, <1>16, Sizes DEF InCall, Stops
<1>19. \A n, q : ~InCall(c, n, q)' /\ ~InCall(c, n, q) /\ ~InCall(t, n, q)
  BY <1>2, <1>16 DEF InCall
<1>20. Takes(t, c, p, "call", t, LastStop)
  BY <1>2, <1>17, <1>18, <1>19 DEF Takes
<1>21. Pages'
  BY <1>0, <1>2, <1>3, <1>4, <1>9, <1>20, TakenPage
<1> QED BY <1>0, <1>3, <1>7, <1>15, <1>21 DEF HaltsOnlyWhenStarved, MemInv
------------------------------------------------------------------------------
(* The child starts in the copy, or in -1; its first directory is lost.    *)
LEMMA ForkEndsStep ==
  ASSUME MemInv, NEW CONSTANT t \in Task, NEW CONSTANT d, fork_ends(t, d), halted = "no",
         used' = used, mem' = mem, starved' \in BOOLEAN, starved => starved',
         \/ d = BadDir /\ starved' /\ pc[t] \in {"copy_dir", "copy_failed"}
         \/ d = dir[t] /\ pc[t] = "copy"
  PROVE  MemInv'
<1>0. MemTypeOK /\ Tasks /\ Pages /\ TaskInv(t) /\ pc[t] \in CopyPc
  BY DEF Tasks, MemInv, CopyPc
<1>1. PICK c \in Slot : c = child[t]
  BY <1>0, Copies
<1>2. /\ c \in Task /\ c # t /\ pc[c] = "new" /\ dir[c] = 0 /\ page[c] = 0
      /\ cr3[t] \in Page /\ cr3[c] \in Page
      /\ \A n \in 1..(LastStop - 1) : StopAt(cr3[c], n) = 0
      /\ \A u \in Task \ {t} : pc[u] \in CallPc => child[u] # c
      /\ t \in Spaces /\ c \in Spaces /\ t \notin Reaped /\ c \notin Reaped
      /\ ~FreedStack(t) /\ ~FreedStack(c) /\ ~HasDir(c)
  BY <1>0, <1>1, Copies
<1>3. /\ UNCHANGED << used, mem, esp0, page, todo, goal, halted >>
      /\ pc' = [pc EXCEPT ![t] = "user", ![c] = "user"] /\ cr3' = [cr3 EXCEPT ![c] = d]
      /\ lost' = lost \cup {cr3[c]} /\ heap_end' = [heap_end EXCEPT ![c] = NoHeap]
      /\ parent' = [parent EXCEPT ![c] = t] /\ child' = [child EXCEPT ![t] = NoTask]
      /\ dir' = [dir EXCEPT ![t] = 0] /\ at' = [at EXCEPT ![t] = 0]
  BY <1>1 DEF fork_ends
<1>4. /\ page[t] = 0 /\ d \in Page \cup {BadDir} /\ d \in -1..PageCount
      /\ d = BadDir => starved' /\ ~HasDir(t)
      /\ d # BadDir => d = dir[t] /\ HasDir(t) /\ From(t) = 1
  BY <1>0, MemoryAssumption DEF TaskInv, Caller, Page, BadDir, HasDir, From
<1>5. /\ pc' \in [Task -> Pc] /\ pc'[t] = "user" /\ pc'[c] = "user"
      /\ cr3' \in [Task -> -1..PageCount] /\ cr3'[c] = d /\ cr3'[t] = cr3[t]
      /\ dir' \in [Task -> 0..PageCount] /\ dir'[t] = 0 /\ dir'[c] = 0
      /\ at' \in [Task -> 0..LastStop] /\ child' \in [Task -> Slot \cup {NoTask}]
  <2>1. 0 \in 0..PageCount /\ 0 \in 0..LastStop
    BY Sizes, MemoryAssumption
  <2>2. pc' \in [Task -> Pc] /\ pc'[t] = "user" /\ pc'[c] = "user"
    BY <1>0, <1>2, <1>3 DEF MemTypeOK, Pc
  <2>3. cr3' \in [Task -> -1..PageCount] /\ cr3'[c] = d /\ cr3'[t] = cr3[t]
    BY <1>0, <1>2, <1>3, <1>4 DEF MemTypeOK
  <2> QED BY <1>0, <1>2, <1>3, <2>1, <2>2, <2>3 DEF MemTypeOK
<1>6. /\ heap_end' \in [Task -> -1..UserSize] /\ heap_end'[c] = NoHeap /\ heap_end'[t] = heap_end[t]
      /\ parent' \in [Task -> Task \cup {NoTask}] /\ lost' \subseteq Page
  <2>1. NoHeap \in -1..UserSize
    BY Sizes, MemoryAssumption DEF NoHeap, UserSize
  <2> QED BY <1>0, <1>2, <1>3, <2>1 DEF MemTypeOK
<1>7. MemTypeOK'
  BY <1>0, <1>3, <1>5, <1>6 DEF MemTypeOK
<1>8. StepOf(t, c)
  <2>1. \A u \in Task \ {t, c} : Same(u)
    BY <1>0, <1>3 DEF Same, MemTypeOK
  <2> QED BY <1>0, <1>1, <1>2, <1>3, <1>5, <2>1 DEF StepOf, CallPc, ForkPc, CopyPc, ReapPc
<1>9. \A e, n : StopAt(e, n)' = StopAt(e, n)
  BY <1>3, CalmStops
<1>10. TaskInv(t)'
  <2>1. Hungry(t)'
    <3>1. pc'[t] = "user" /\ cr3'[t] \in Page
      BY <1>2, <1>5
    <3>2. cr3'[t] # BadDir
      BY <3>1, PagesAre
    <3> QED BY <3>1, <3>2 DEF Hungry
  <2>2. SpaceKept(t)
    BY <1>5, <1>9 DEF SpaceKept
  <2>3. HeapRight(t)'
    BY <1>0, <1>5, <1>6, <2>2, HeapStays DEF TaskInv, CopyPc, MapPc
  <2>4. pc'[t] = "user" /\ dir'[t] = 0 /\ page'[t] = 0 /\ cr3'[t] \in Page
    BY <1>2, <1>3, <1>4, <1>5
  <2> QED BY <2>1, <2>3, <2>4, RestInv
<1>11. TaskInv(c)'
  <2>1. Hungry(c)' /\ HeapRight(c)'
    BY <1>4, <1>5, <1>6 DEF Hungry, HeapRight, MapPc
  <2>2. pc'[c] = "user" /\ dir'[c] = 0 /\ page'[c] = 0 /\ cr3'[c] \in Page \cup {BadDir}
    BY <1>2, <1>3, <1>4, <1>5
  <2> QED BY <2>1, <2>2, RestInv
<1>12. Tasks'
  BY <1>2, <1>8, <1>10, <1>11, <1>0, TasksAgain
<1>13. /\ t \in Spaces' /\ (c \in Spaces' <=> d # BadDir) /\ ~FreedStack(t)' /\ ~FreedStack(c)'
       /\ ~HasDir(c)' /\ ~HasDir(t)'
  <2>1. t \notin Reaped' /\ c \notin Reaped' /\ ~FreedStack(t)' /\ ~FreedStack(c)'
    BY <1>2, <1>5, <1>12, WholeNext
  <2> QED BY <1>2, <1>4, <1>5, <2>1, MemoryAssumption DEF HasDir, Spaces, Page, BadDir
<1>14. \A x \in {t, c} : \A n, p : /\ IsStack(x, p)' <=> IsStack(x, p)
                                   /\ IsPage(x, p)' <=> IsPage(x, p)
                                   /\ InSpace(t, n, p)' <=> InSpace(t, n, p)
                                   /\ ~InCall(x, n, p)' /\ ~InCall(c, n, p)
  BY <1>2, <1>3, <1>5, <1>9, <1>13 DEF InSpace, IsStack, IsPage, InCall
<1>15. PICK q \in Page : q = cr3[c]
  BY <1>2
<1>16. \A n, p : InSpace(c, n, p) <=> n = LastStop /\ p = q
  BY <1>2, <1>15, LastStopIs, Sizes, MemoryAssumption DEF InSpace, Stops, Page
<1>17. Owns("space", c, LastStop, q)
  BY <1>16, SpaceOwns
<1>18. CASE d = BadDir
  <2>1. \A n, p : ~InSpace(c, n, p)' /\ ~InCall(t, n, p)
    BY <1>4, <1>13, <1>18 DEF InSpace, InCall
  <2>2. \A n : ~InSpace(t, n, q) /\ ~IsStack(t, q) /\ ~IsStack(c, q) /\ ~IsPage(t, q) /\ ~IsPage(c, q)
    BY <1>0, <1>2, <1>17, OwnedOnce
  <2>3. Gives(t, c, q)
    BY <1>14, <1>16, <2>1, <2>2 DEF Gives
  <2>4. Pages'
    BY <1>0, <1>2, <1>3, <1>8, <1>15, <1>17, <2>3, LostPage
  <2> QED BY <1>0, <1>3, <1>7, <1>12, <2>4 DEF HaltsOnlyWhenStarved, MemInv
<1>19. CASE d # BadDir
  <2>1. \A n, p : InSpace(c, n, p)' <=> InCall(t, n, p)
    BY <1>2, <1>4, <1>5, <1>9, <1>13, <1>19 DEF InSpace, InCall, Stops
  <2>2. \A x \in Task : \A n, p : /\ InSpace(x, n, p)' <=> IF x = c THEN InCall(t, n, p) ELSE InSpace(x, n, p)
                                  /\ InCall(x, n, p)' <=> InCall(x, n, p) /\ x # t
                                  /\ IsStack(x, p)' <=> IsStack(x, p)
                                  /\ IsPage(x, p)' <=> IsPage(x, p)
    BY <1>0, <1>2, <1>8, <1>14, <2>1, OthersOwn
  <2>3. \A p : p \in lost' <=> p \in lost \/ \E m : InSpace(c, m, p)
    BY <1>3, <1>15, <1>16
  <2>4. CallToSpace(t, c)
    BY <1>2, <2>2, <2>3, HandedOver
  <2>5. Pages'
    BY <1>0, <1>3, <2>4, TreeHanded
  <2> QED BY <1>0, <1>3, <1>7, <1>12, <2>5 DEF HaltsOnlyWhenStarved, MemInv
<1> QED BY <1>18, <1>19

(* The copy is complete, or there is none.                                 *)
LEMMA CopyIsComplete ==
  ASSUME MemTypeOK, NEW t \in Task, TaskInv(t), pc[t] = "copy", ToCopy(t) = {}
  PROVE  \A v \in VPage : FrameIn(dir[t], v) # 0 <=> FrameIn(cr3[t], v) # 0
<1> SUFFICES ASSUME NEW v \in VPage PROVE FrameIn(dir[t], v) # 0 <=> FrameIn(cr3[t], v) # 0
  OBVIOUS
<1>1. v >= at[t] => FrameIn(cr3[t], v) = 0
  BY FramesAreStops DEF ToCopy, Mapped
<1> QED BY <1>1 DEF TaskInv, Copying

(* or none.                                                                *)
LEMMA CopyDirFailsStep ==
  ASSUME MemInv, NEW CONSTANT t \in Task, pc[t] = "copy_dir", halted = "no",
         Exhausted, fork_ends(t, BadDir), UNCHANGED spaceVars
  PROVE  MemInv'
BY ForkEndsStep DEF Exhausted, spaceVars

(* The end of memory_copy_uvm, and of sys_fork.                            *)
LEMMA CopyEndsStep ==
  ASSUME MemInv, NEW CONSTANT t \in Task, copy_ends(t), halted = "no"
  PROVE  MemInv'
<1>0. MemTypeOK /\ Tasks /\ TaskInv(t) /\ used' = used /\ mem' = mem /\ starved' = starved
  BY DEF copy_ends, Tasks, MemInv, spaceVars
<1>1. CASE pc[t] = "copy" /\ fork_ends(t, dir[t])
  <2>1. PICK d : d = dir[t]
    OBVIOUS
  <2> QED BY <1>0, <1>1, <2>1, ForkEndsStep DEF MemTypeOK
<1>2. CASE pc[t] = "copy_failed" /\ fork_ends(t, BadDir)
  <2>1. starved
    BY <1>0, <1>2 DEF TaskInv, Hungry
  <2> QED BY <1>0, <1>2, <2>1, ForkEndsStep DEF MemTypeOK
<1> QED BY <1>1, <1>2 DEF copy_ends
------------------------------------------------------------------------------
(***************************************************************************)
(* A frame is put in a tree: the call's own, or, in sys_sbrk, the space.   *)
(***************************************************************************)
Hand(t)  == IF dir[t] = cr3[t] THEN "space" ELSE "call"
BuildPc  == MapPc \cup {"copy", "copy_table"}

(* What a call that maps pages maps them in.                               *)
LEMMA Building ==
  ASSUME Tasks, Pages, NEW t \in Task, pc[t] \in BuildPc
  PROVE  /\ dir[t] \in Page /\ cr3[t] \in Page /\ From(t) = 1
         /\ t \in Spaces /\ t \notin Reaped /\ ~FreedStack(t)
         /\ HasDir(t) <=> dir[t] # cr3[t]
         /\ \A n \in Stops : StopAt(dir[t], n) # 0 => Owns(Hand(t), t, n, StopAt(dir[t], n))
         /\ \A n, m \in Stops :
              StopAt(dir[t], n) = StopAt(dir[t], m) /\ StopAt(dir[t], n) # 0 => n = m
<1>1. TaskInv(t) /\ pc[t] \notin {"free", "new", "user", "zombie"}
  BY DEF Tasks, BuildPc, MapPc
<1>2. dir[t] \in Page /\ cr3[t] \in Page /\ From(t) = 1
  BY <1>1 DEF TaskInv, Caller, BuildPc, MapPc, From
<1>3. t \in Spaces /\ t \notin Reaped /\ ~FreedStack(t)
  BY <1>1, <1>2, SpaceOfATask, Whole
<1>4. HasDir(t) <=> dir[t] # cr3[t]
  BY <1>2, PagesAre DEF HasDir, BuildPc, MapPc
<1>5. ASSUME NEW n \in Stops, StopAt(dir[t], n) # 0
      PROVE  Owns(Hand(t), t, n, StopAt(dir[t], n))
  <2>1. CASE dir[t] = cr3[t]
    BY <1>3, <1>5, <2>1 DEF Owns, InSpace, Hand
  <2>2. CASE dir[t] # cr3[t]
    BY <1>2, <1>4, <1>5, <2>2 DEF Owns, InCall, Hand, Stops
  <2> QED BY <2>1, <2>2
<1>6. \A n, m \in Stops : StopAt(dir[t], n) = StopAt(dir[t], m) /\ StopAt(dir[t], n) # 0 => n = m
  BY <1>5 DEF Pages, Apart
<1> QED BY <1>2, <1>3, <1>4, <1>5, <1>6

(* memory_create_map, when the table is there.                             *)
LEMMA FrameMapped ==
  ASSUME MemTypeOK, Tasks, Pages, NEW CONSTANT t \in Task, pc[t] \in BuildPc,
         NEW CONSTANT d, d = dir[t], NEW CONSTANT v \in VPage, NEW CONSTANT p \in Page,
         Table(d, v) # 0, MapFrame(d, v, p)
  PROVE  /\ mem' \in [Page -> [Entry -> 0..PageCount]]
         /\ \A n \in Stops : StopAt(d, n)' = IF n = FrameStop(v) THEN p ELSE StopAt(d, n)
         /\ \A x : mem'[x] = mem[x] \/ \A u, n : /\ InSpace(u, n, x) => Hand(t) = "space" /\ u = t
                                                 /\ InCall(u, n, x) => Hand(t) = "call" /\ u = t
<1>1. /\ d \in Page
      /\ \A n \in Stops : StopAt(d, n) # 0 => Owns(Hand(t), t, n, StopAt(d, n))
      /\ \A n, m \in Stops : StopAt(d, n) = StopAt(d, m) /\ StopAt(d, n) # 0 => n = m
  BY Building
<1>2. PICK q : q = Table(d, v)
  OBVIOUS
<1>3. /\ q = StopAt(d, TableStop(v)) /\ q # 0 /\ TableStop(v) \in Stops /\ TableStop(v) # LastStop
      /\ q = mem[d][pde_index(v)]
  BY <1>2, FramesAreStops, FrameStopIn, StopsOfAPage, Sizes DEF TableIn, Table
<1>4. q \in Page /\ q # d /\ Owns(Hand(t), t, TableStop(v), q)
  <2>1. q \in 0..PageCount
    BY <1>1, <1>3, StopType
  <2>2. d # 0 /\ LastStop \in Stops /\ StopAt(d, LastStop) = d
    BY <1>1, PagesAre, LastStopIs, Sizes DEF Stops
  <2>3. q \in Page
    BY <1>3, <2>1, MemoryAssumption DEF Page
  <2>4. q # d
    BY <1>1, <1>3, <2>2
  <2>5. Owns(Hand(t), t, TableStop(v), q)
    BY <1>1, <1>3
  <2> QED BY <2>3, <2>4, <2>5
<1>5. pte_index(v) \in 1..PteCount /\ pde_index(v) \in 1..PdeCount /\ pte_index(v) \in Entry
  BY PageIndices, Sizes
<1>6. mem' = [mem EXCEPT ![q][pte_index(v)] = p]
  BY <1>2 DEF MapFrame
<1>7. mem' = [mem EXCEPT ![q] = [mem[q] EXCEPT ![pte_index(v)] = p]]
  BY <1>6
<1>8. /\ mem' \in [Page -> [Entry -> 0..PageCount]]
      /\ \A x \in Page : x # q => mem'[x] = mem[x]
      /\ \A j \in Entry : mem'[q][j] = IF j = pte_index(v) THEN p ELSE mem[q][j]
  <2>1. mem[q] \in [Entry -> 0..PageCount] /\ mem \in [Page -> [Entry -> 0..PageCount]]
    BY <1>4 DEF MemTypeOK
  <2>2. p \in 0..PageCount
    BY PagesAre
  <2>3. [mem[q] EXCEPT ![pte_index(v)] = p] \in [Entry -> 0..PageCount]
    BY <2>1, <2>2
  <2> HIDE <1>6
  <2> QED BY <1>4, <1>5, <1>7, <2>1, <2>3
<1>9. ASSUME NEW CONSTANT n \in Stops
      PROVE  StopAt(d, n)' = IF n = FrameStop(v) THEN p ELSE StopAt(d, n)
  <2>1. CASE n = LastStop
    BY <2>1, LastStopIs, StopsOfAPage, Sizes
  <2>2. CASE n # LastStop
    <3>1. n \in 1..(LastStop - 1)
      BY <2>2, Sizes DEF Stops
    <3>2. Row(n) \in Entry /\ Col(n) \in 1..W /\ (Col(n) # W => Col(n) \in Entry)
      BY <3>1, RowAndCol, Sizes DEF W
    <3>3. mem'[d] = mem[d] /\ mem[d][Row(n)] \in 0..PageCount
      BY <1>1, <1>4, <1>8, <3>2 DEF MemTypeOK
    <3>4. mem[d][Row(n)] = q <=> Row(n) = pde_index(v)
      <4>1. StopAt(d, RowEnd(n)) = mem[d][Row(n)] /\ RowEnd(n) \in Stops /\ Row(RowEnd(n)) = Row(n)
        BY <3>1, RowEnds, RowEndIs, Sizes DEF Stops
      <4> QED BY <1>1, <1>3, <4>1, StopsOfAPage
    <3>5. pte_index(v) # W
      BY <1>5, Sizes DEF W
    <3>6. n = FrameStop(v) <=> Row(n) = pde_index(v) /\ Col(n) = pte_index(v)
      BY <3>1, StopsOfAPage, RowsApart
    <3>7. StopAt(d, n) = IF mem[d][Row(n)] = 0 THEN 0
                         ELSE IF Col(n) = W THEN mem[d][Row(n)]
                         ELSE mem[mem[d][Row(n)]][Col(n)]
      BY <3>1, StopIs
    <3>8. StopAt(d, n)' = IF mem[d][Row(n)] = 0 THEN 0
                          ELSE IF Col(n) = W THEN mem[d][Row(n)]
                          ELSE mem'[mem[d][Row(n)]][Col(n)]
      BY <3>1, <3>3, StopIsNext
    <3>9. CASE Row(n) = pde_index(v)
      BY <1>3, <1>8, <3>2, <3>4, <3>5, <3>6, <3>7, <3>8, <3>9
    <3>10. CASE Row(n) # pde_index(v)
      <4>1. mem[d][Row(n)] # 0 => mem'[mem[d][Row(n)]] = mem[mem[d][Row(n)]]
        BY <1>8, <3>3, <3>4, <3>10, MemoryAssumption DEF Page
      <4> QED BY <3>6, <3>7, <3>8, <3>10, <4>1
    <3> QED BY <3>9, <3>10
  <2> QED BY <2>1, <2>2
<1>10. ASSUME NEW x, mem'[x] # mem[x], NEW u, NEW n
       PROVE  /\ InSpace(u, n, x) => Hand(t) = "space" /\ u = t
              /\ InCall(u, n, x) => Hand(t) = "call" /\ u = t
  <2>1. x = q \/ x \notin used
    BY <1>8, <1>10 DEF MemTypeOK
  <2> QED BY <1>4, <2>1, OwnedOnce, FreeIsNobodys
<1> QED BY <1>8, <1>9, <1>10

(* The same, when the table of the page has to be made: the page q.        *)
LEMMA TableMapped ==
  ASSUME MemTypeOK, Tasks, Pages, NEW CONSTANT t \in Task, pc[t] \in BuildPc,
         NEW CONSTANT d, d = dir[t], NEW CONSTANT v \in VPage, NEW CONSTANT p \in Page,
         NEW CONSTANT q \in Page, q \notin used,
         Table(d, v) = 0, MapFrameInNewTable(d, v, p, q)
  PROVE  /\ mem' \in [Page -> [Entry -> 0..PageCount]]
         /\ \A n \in Stops : StopAt(d, n)' = IF n = FrameStop(v) THEN p
                                            ELSE IF n = TableStop(v) THEN q ELSE StopAt(d, n)
         /\ \A x : mem'[x] = mem[x] \/ \A u, n : /\ InSpace(u, n, x) => Hand(t) = "space" /\ u = t
                                                 /\ InCall(u, n, x) => Hand(t) = "call" /\ u = t
         /\ StopAt(d, FrameStop(v)) = 0 /\ StopAt(d, TableStop(v)) = 0
<1>1. /\ d \in Page
      /\ \A n \in Stops : StopAt(d, n) # 0 => Owns(Hand(t), t, n, StopAt(d, n))
      /\ \A n, m \in Stops : StopAt(d, n) = StopAt(d, m) /\ StopAt(d, n) # 0 => n = m
  BY Building
<1>2. d # 0 /\ LastStop \in Stops /\ StopAt(d, LastStop) = d /\ q # 0
  BY <1>1, PagesAre, LastStopIs, Sizes DEF Stops
<1>3. Owns(Hand(t), t, LastStop, d) /\ q # d /\ d \in used
  BY <1>1, <1>2, OwnedIsUsed
<1>4. mem[d][pde_index(v)] = 0
  BY DEF Table
<1>5. /\ pte_index(v) \in 1..PteCount /\ pde_index(v) \in 1..PdeCount
      /\ pte_index(v) \in Entry /\ pde_index(v) \in Entry
  BY PageIndices, Sizes
<1>6. mem' = [[mem EXCEPT ![d] = [mem[d] EXCEPT ![pde_index(v)] = q]]
                EXCEPT ![q] = [Empty EXCEPT ![pte_index(v)] = p]]
  BY DEF MapFrameInNewTable
<1>7. /\ mem' \in [Page -> [Entry -> 0..PageCount]]
      /\ \A x \in Page : x # q /\ x # d => mem'[x] = mem[x]
      /\ \A j \in Entry : mem'[d][j] = IF j = pde_index(v) THEN q ELSE mem[d][j]
      /\ \A j \in Entry : mem'[q][j] = IF j = pte_index(v) THEN p ELSE 0
  <2>1. mem[d] \in [Entry -> 0..PageCount] /\ mem \in [Page -> [Entry -> 0..PageCount]]
    BY <1>1 DEF MemTypeOK
  <2>2. p \in 0..PageCount /\ q \in 0..PageCount
    BY PagesAre
  <2>3. PICK D : D = [mem[d] EXCEPT ![pde_index(v)] = q]
    OBVIOUS
  <2>4. PICK Q : Q = [Empty EXCEPT ![pte_index(v)] = p]
    OBVIOUS
  <2>5. /\ D \in [Entry -> 0..PageCount]
        /\ \A j \in Entry : D[j] = IF j = pde_index(v) THEN q ELSE mem[d][j]
    BY <1>5, <2>1, <2>2, <2>3
  <2>6. /\ Q \in [Entry -> 0..PageCount]
        /\ \A j \in Entry : Q[j] = IF j = pte_index(v) THEN p ELSE 0
    BY <1>5, <2>2, <2>4, MemoryAssumption DEF Empty
  <2>7. mem' = [[mem EXCEPT ![d] = D] EXCEPT ![q] = Q]
    BY <1>6, <2>3, <2>4
  <2> HIDE <1>6
  <2> QED BY <1>1, <1>3, <2>1, <2>5, <2>6, <2>7
<1>8. ASSUME NEW CONSTANT n \in Stops
      PROVE  /\ StopAt(d, n)' = IF n = FrameStop(v) THEN p
                                ELSE IF n = TableStop(v) THEN q ELSE StopAt(d, n)
             /\ n \in {FrameStop(v), TableStop(v)} => StopAt(d, n) = 0
  <2>1. CASE n = LastStop
    BY <2>1, LastStopIs, StopsOfAPage, Sizes
  <2>2. CASE n # LastStop
    <3>1. n \in 1..(LastStop - 1)
      BY <2>2, Sizes DEF Stops
    <3>2. Row(n) \in Entry /\ Col(n) \in 1..W /\ (Col(n) # W => Col(n) \in Entry)
      BY <3>1, RowAndCol, Sizes DEF W
    <3>3. mem[d][Row(n)] \in 0..PageCount
      BY <1>1, <3>2 DEF MemTypeOK
    <3>4. mem[d][Row(n)] # 0 => mem[d][Row(n)] \notin {d, q} /\ mem[d][Row(n)] \in Page
      <4>1. StopAt(d, RowEnd(n)) = mem[d][Row(n)] /\ RowEnd(n) \in Stops /\ RowEnd(n) # LastStop
        BY <3>1, RowEnds, RowEndIs, Sizes DEF Stops
      <4>2. mem[d][Row(n)] # 0 => mem[d][Row(n)] \in used /\ mem[d][Row(n)] # d
        BY <1>1, <1>2, <4>1, OwnedIsUsed
      <4> QED BY <4>2 DEF MemTypeOK
    <3>5. pte_index(v) # W
      BY <1>5, Sizes DEF W
    <3>6. /\ n = FrameStop(v) <=> Row(n) = pde_index(v) /\ Col(n) = pte_index(v)
          /\ n = TableStop(v) <=> Row(n) = pde_index(v) /\ Col(n) = W
      BY <3>1, StopsOfAPage, RowsApart
    <3>7. StopAt(d, n) = IF mem[d][Row(n)] = 0 THEN 0
                         ELSE IF Col(n) = W THEN mem[d][Row(n)]
                         ELSE mem[mem[d][Row(n)]][Col(n)]
      BY <3>1, StopIs
    <3>8. StopAt(d, n)' = IF mem'[d][Row(n)] = 0 THEN 0
                          ELSE IF Col(n) = W THEN mem'[d][Row(n)]
                          ELSE mem'[mem'[d][Row(n)]][Col(n)]
      BY <3>1, StopIsNext
    <3>9. CASE Row(n) = pde_index(v)
      <4>1. mem'[d][Row(n)] = q /\ StopAt(d, n) = 0
        BY <1>4, <1>7, <3>2, <3>7, <3>9
      <4>2. StopAt(d, n)' = IF Col(n) = W THEN q ELSE mem'[q][Col(n)]
        BY <1>2, <3>8, <4>1
      <4> QED BY <1>7, <3>2, <3>5, <3>6, <3>9, <4>1, <4>2
    <3>10. CASE Row(n) # pde_index(v)
      <4>1. mem'[d][Row(n)] = mem[d][Row(n)]
        BY <1>7, <3>2, <3>10
      <4>2. mem[d][Row(n)] # 0 => mem'[mem[d][Row(n)]] = mem[mem[d][Row(n)]]
        BY <1>7, <3>4
      <4> QED BY <3>6, <3>7, <3>8, <3>10, <4>1, <4>2
    <3> QED BY <3>9, <3>10
  <2> QED BY <2>1, <2>2
<1>9. ASSUME NEW x, mem'[x] # mem[x], NEW u, NEW n
      PROVE  /\ InSpace(u, n, x) => Hand(t) = "space" /\ u = t
             /\ InCall(u, n, x) => Hand(t) = "call" /\ u = t
  <2>1. x = d \/ x \notin used
    BY <1>7, <1>9 DEF MemTypeOK
  <2> QED BY <1>3, <2>1, OwnedOnce, FreeIsNobodys
<1> QED BY <1>7, <1>8, <1>9, FrameStopIn
------------------------------------------------------------------------------
(* The page that is copied next, and what its copy does for the rest.      *)
LEMMA FirstToCopy ==
  ASSUME NEW t \in Task, MemTypeOK, ToCopy(t) # {}
  PROVE  LET v == Min(ToCopy(t))
         IN  /\ v \in VPage /\ v >= at[t] /\ FrameIn(cr3[t], v) # 0
             /\ \A u \in VPage : u >= at[t] /\ u < v => FrameIn(cr3[t], u) = 0
<1> DEFINE v == Min(ToCopy(t))
<1>1. ToCopy(t) \in SUBSET Nat
  BY DEF ToCopy, Mapped, VPage
<1>2. v \in ToCopy(t) /\ \A u \in ToCopy(t) : v <= u
  BY <1>1, MinIsLeast
<1> HIDE DEF v
<1>3. v \in VPage /\ v >= at[t] /\ FrameIn(cr3[t], v) # 0
  BY <1>2, FramesAreStops DEF ToCopy, Mapped
<1>4. ASSUME NEW u \in VPage, u >= at[t], u < v PROVE FrameIn(cr3[t], u) = 0
  <2>1. u \notin ToCopy(t)
    BY <1>2, <1>3, <1>4 DEF VPage
  <2> QED BY <1>4, <2>1, FramesAreStops DEF ToCopy, Mapped
<1> QED BY <1>3, <1>4 DEF v

(* With one more page the copy is what Copying says of it.                 *)
LEMMA CopyAdvances ==
  ASSUME NEW CONSTANT t \in Task, NEW CONSTANT d, NEW CONSTANT v \in VPage, NEW CONSTANT p \in Page,
         Copying(t), pc[t] \in {"copy", "copy_table"}, at[t] \in 1..(VPages + 1), v >= at[t],
         FrameIn(cr3[t], v) # 0,
         \A u \in VPage : u >= at[t] /\ u < v => FrameIn(cr3[t], u) = 0,
         dir[t] = d, dir'[t] = d, cr3'[t] = cr3[t], at'[t] = v + 1, pc'[t] = "copy", SpaceKept(t),
         \A u \in VPage : StopAt(d, FrameStop(u))' = IF u = v THEN p ELSE StopAt(d, FrameStop(u))
  PROVE  Copying(t)' /\ FrameIn(d, v) = 0
<1>1. \A u \in VPage : FrameIn(cr3[t], u)' = FrameIn(cr3[t], u)
  BY FrameStopIn DEF SpaceKept, FrameIn
<1>2. \A u \in VPage : FrameIn(d, u)' = IF u = v THEN p ELSE FrameIn(d, u)
  BY DEF FrameIn
<1>3. \A u \in VPage : IF u >= at[t] THEN FrameIn(d, u) = 0
                       ELSE FrameIn(d, u) # 0 <=> FrameIn(cr3[t], u) # 0
  BY DEF Copying
<1>4. ASSUME NEW CONSTANT u \in VPage
      PROVE  IF u >= v + 1 THEN FrameIn(d, u)' = 0
             ELSE FrameIn(d, u)' # 0 <=> FrameIn(cr3[t], u)' # 0
  <2>1. u \in Int /\ v \in Int /\ at[t] \in Int /\ p # 0
    BY PagesAre DEF VPage
  <2>2. CASE u >= v + 1
    <3>1. u >= at[t] /\ u # v
      BY <2>1, <2>2
    <3> QED BY <1>2, <1>3, <2>2, <3>1
  <2>3. CASE u = v
    BY <1>1, <1>2, <2>1, <2>3
  <2>4. CASE u < v
    <3>1. u # v /\ ~(u >= v + 1)
      BY <2>1, <2>4
    <3> QED BY <1>1, <1>2, <1>3, <2>4, <3>1
  <2> QED BY <2>1, <2>2, <2>3, <2>4
<1>5. FrameIn(d, v) = 0
  BY <1>3
<1> QED BY <1>4, <1>5 DEF Copying

(* What stays true of a call that goes on copying, or stops.               *)
LEMMA CopyGoesOn ==
  ASSUME MemTypeOK, Tasks, NEW CONSTANT t \in Task, pc[t] \in {"copy", "copy_table"},
         pc'[t] \in {"copy", "copy_table", "copy_undo"},
         cr3' = cr3, child' = child, esp0' = esp0, heap_end' = heap_end,
         dir'[t] = dir[t], starved => starved', pc'[t] = "copy_undo" => starved',
         pc'[child[t]] = "new", SpaceKept(t), SpaceKept(child[t]), Copying(t)',
         page'[t] # 0 <=> pc'[t] = "copy_table",
         IF pc'[t] = "copy_undo" THEN at'[t] = 1 ELSE at'[t] \in 1..(VPages + 1)
  PROVE  TaskInv(t)'
<1>1. TaskInv(t) /\ dir[t] \in Page /\ dir[t] # cr3[t] /\ cr3[t] \in Page
  BY DEF Tasks, TaskInv, Caller
<1>2. PICK c : c = child[t] /\ child'[t] = c
  OBVIOUS
<1>3. Caller(t)'
  BY <1>1, Sizes DEF Caller, MapPc, Stops
<1>4. Parental(t)'
  <2>1. /\ pc[t] \in CopyPc /\ pc'[t] \in CopyPc /\ pc'[t] \in ForkPc
        /\ pc'[t] \notin {"fork_stack", "fork_dir", "fork_undo"} \cup ReapPc
    BY DEF CopyPc, ForkPc, ReapPc
  <2>2. /\ c \in Slot /\ pc'[c] = "new" /\ cr3[c] \in Page
        /\ \A n \in 1..(LastStop - 1) : StopAt(cr3[c], n) = 0
    BY <1>2, <2>1, Copies
  <2>3. \A n \in 1..(LastStop - 1) : StopAt(cr3[c], n)' = 0
    BY <1>2, <2>2, Sizes DEF SpaceKept, Stops
  <2> QED BY <1>2, <2>1, <2>2, <2>3 DEF Parental
<1>5. Mapping(t)'
  BY DEF Mapping, MapPc
<1>6. Hungry(t)'
  BY <1>1, PagesAre DEF Hungry
<1>7. HeapRight(t)'
  BY <1>1, HeapStays DEF TaskInv, MapPc
<1> QED BY <1>3, <1>4, <1>5, <1>6, <1>7 DEF TaskInv

(* A step of the copy takes nothing from the stacks and the spaces.        *)
LEMMA CopyPlaces ==
  ASSUME MemTypeOK, Tasks, Tasks', NEW CONSTANT t \in Task, pc[t] \in {"copy", "copy_table"},
         NEW CONSTANT c, c = child[t], pc'[t] \in {"copy", "copy_table", "copy_undo"},
         cr3' = cr3, child' = child, esp0' = esp0, dir' = dir,
         \A u \in Task \ {t} : pc'[u] = pc[u] /\ page'[u] = page[u],
         pc'[t] = "copy_undo" => at'[t] = 1, SpaceKept(t), SpaceKept(c)
  PROVE  /\ \A x \in {t, c} : \A n, p : /\ InSpace(x, n, p)' <=> InSpace(x, n, p)
                                        /\ IsStack(x, p)' <=> IsStack(x, p)
         /\ \A n, p : /\ ~InCall(c, n, p) /\ ~InCall(c, n, p)'
                      /\ InCall(t, n, p) <=> n \in Stops /\ p = StopAt(dir[t], n) /\ p # 0
                      /\ InCall(t, n, p)' <=> n \in Stops /\ p = StopAt(dir[t], n)' /\ p # 0
         /\ \A p : ~IsPage(c, p) /\ ~IsPage(c, p)'
<1>1. pc[t] \in CopyPc
  BY DEF CopyPc
<1>2. /\ c \in Slot /\ c \in Task /\ c # t /\ pc[c] = "new" /\ dir[c] = 0 /\ page[c] = 0
      /\ \A u \in Task \ {t} : pc[u] \in CallPc => child[u] # c
      /\ t \in Spaces /\ c \in Spaces /\ t \notin Reaped /\ c \notin Reaped
      /\ ~FreedStack(t) /\ ~FreedStack(c) /\ ~HasDir(c)
  BY <1>1, Copies
<1>3. pc'[c] = "new" /\ page'[c] = 0 /\ dir'[c] = 0
  BY <1>2
<1>4. t \notin Reaped' /\ c \notin Reaped' /\ ~FreedStack(t)'
  BY <1>2, <1>3, WholeNext
<1>5. ~FreedStack(c)'
  BY <1>1, <1>2 DEF FreedStack, CallPc, ForkPc
<1>6. t \in Spaces' /\ c \in Spaces'
  BY <1>2, <1>4 DEF Spaces
<1>7. HasDir(t) /\ HasDir(t)' /\ From(t) = 1 /\ From(t)' = 1 /\ ~HasDir(c)'
  <2>1. dir[t] # cr3[t] /\ dir[t] # 0
    BY PagesAre DEF Tasks, TaskInv, Caller
  <2> QED BY <1>3, <2>1 DEF HasDir, From
<1>8. \A x \in {t, c} : \A n, p : /\ InSpace(x, n, p)' <=> InSpace(x, n, p)
                                  /\ IsStack(x, p)' <=> IsStack(x, p)
  BY <1>2, <1>4, <1>5, <1>6 DEF InSpace, IsStack, SpaceKept
<1>9. \A n, p : /\ ~InCall(c, n, p) /\ ~InCall(c, n, p)'
                /\ InCall(t, n, p) <=> n \in Stops /\ p = StopAt(dir[t], n) /\ p # 0
                /\ InCall(t, n, p)' <=> n \in Stops /\ p = StopAt(dir[t], n)' /\ p # 0
  BY <1>2, <1>7 DEF InCall, Stops
<1>10. \A p : ~IsPage(c, p) /\ ~IsPage(c, p)'
  BY <1>2, <1>3 DEF IsPage
<1> QED BY <1>8, <1>9, <1>10

(* A step of the copy is about the process and its child.                  *)
LEMMA CopyStepOf ==
  ASSUME MemTypeOK, Tasks, NEW CONSTANT t \in Task, pc[t] \in {"copy", "copy_table"},
         NEW CONSTANT c, c = child[t], NEW CONSTANT to \in {"copy", "copy_table", "copy_undo"},
         pc' = [pc EXCEPT ![t] = to],
         cr3' = cr3, child' = child, esp0' = esp0, dir' = dir, heap_end' = heap_end,
         todo' = todo, goal' = goal, starved => starved',
         \A u \in Task \ {t} : at'[u] = at[u] /\ page'[u] = page[u],
         \A x : mem'[x] = mem[x] \/ \A u, n : ~InSpace(u, n, x) /\ (InCall(u, n, x) => u = t)
  PROVE  StepOf(t, c) /\ TaskInv(c)' /\ SpaceKept(t) /\ SpaceKept(c)
<1>1. pc[t] \in CopyPc
  BY DEF CopyPc
<1>2. /\ c \in Slot /\ c \in Task /\ c # t /\ pc[c] = "new" /\ dir[c] = 0 /\ page[c] = 0
      /\ cr3[c] \in Page /\ t \in Spaces /\ c \in Spaces
      /\ \A u \in Task \ {t} : pc[u] \in CallPc => child[u] # c
  BY <1>1, Copies
<1>3. pc'[t] = to /\ \A u \in Task \ {t} : pc'[u] = pc[u]
  BY DEF MemTypeOK
<1>4. \A u \in Task \ {t, c} : Same(u)
  BY <1>3 DEF Same
<1>5. StepOf(t, c)
  BY <1>2, <1>3, <1>4 DEF StepOf, CallPc, ForkPc, CopyPc, ReapPc
<1>6. SpaceKept(t) /\ SpaceKept(c)
  BY <1>2, SpaceStays DEF SpaceKept
<1>7. TaskInv(c)'
  <2>1. pc'[c] = "new" /\ dir'[c] = 0 /\ page'[c] = 0 /\ cr3'[c] # BadDir
    BY <1>2, <1>3, PagesAre
  <2>2. Hungry(c)'
    BY <2>1 DEF Hungry
  <2> QED BY <2>1, <2>2, RestInv
<1> QED BY <1>5, <1>6, <1>7

(* A page is copied; its table must be made first; or memory has run out.  *)
LEMMA CopyPageStep ==
  ASSUME MemInv, NEW CONSTANT t \in Task, copy_page(t), halted = "no"
  PROVE  MemInv'
<1>0. MemTypeOK /\ Tasks /\ Pages /\ TaskInv(t) /\ pc[t] = "copy" /\ ToCopy(t) # {}
  BY DEF Tasks, MemInv, copy_page
<1>1. PICK c \in Slot : c = child[t]
  BY <1>0, Copies DEF CopyPc
<1>2. /\ c \in Task /\ c # t /\ pc[c] = "new"
  BY <1>0, <1>1, Copies DEF CopyPc
<1>3. UNCHANGED << cr3, esp0, heap_end, parent, child, dir, todo, goal, lost, halted >>
  BY DEF copy_page, taskVars
<1>4. PICK v \in VPage :
        /\ v = Min(ToCopy(t)) /\ v >= at[t] /\ FrameIn(cr3[t], v) # 0
        /\ \A u \in VPage : u >= at[t] /\ u < v => FrameIn(cr3[t], u) = 0
  BY <1>0, FirstToCopy
<1>5. PICK d : d = dir[t]
  OBVIOUS
<1>6. /\ d \in Page /\ d # cr3[t] /\ page[t] = 0 /\ at[t] \in 1..(VPages + 1) /\ Copying(t)
      /\ Hand(t) = "call" /\ pc[t] \in BuildPc
  BY <1>0, <1>5 DEF TaskInv, Caller, Hand, BuildPc
<1>7. PICK to \in {"copy", "copy_table", "copy_undo"} :
        /\ pc' = [pc EXCEPT ![t] = to] /\ pc' \in [Task -> Pc] /\ pc'[t] = to
        /\ \A u \in Task \ {t} : pc'[u] = pc[u]
  <2>1. \E to \in {"copy", "copy_table", "copy_undo"} : pc' = [pc EXCEPT ![t] = to]
    <3>1. pc = [pc EXCEPT ![t] = "copy"]
      BY <1>0 DEF MemTypeOK
    <3> QED BY <3>1 DEF copy_page, Goes
  <2> QED BY <1>0, <2>1 DEF MemTypeOK, Pc
<1>8. CASE /\ Table(d, v) # 0 /\ \E p \in Page : addr_alloc_page(p) /\ MapFrame(d, v, p)
           /\ at' = [at EXCEPT ![t] = v + 1] /\ UNCHANGED << pc, page, starved >>
  <2>1. PICK p \in Page : addr_alloc_page(p) /\ MapFrame(d, v, p)
    BY <1>8
  <2>2. p \notin used /\ used' = used \cup {p} /\ p # 0
    BY <2>1, PagesAre DEF addr_alloc_page, Free
  <2>3. /\ mem' \in [Page -> [Entry -> 0..PageCount]]
        /\ \A n \in Stops : StopAt(d, n)' = IF n = FrameStop(v) THEN p ELSE StopAt(d, n)
        /\ \A x : mem'[x] = mem[x] \/ \A u, n : ~InSpace(u, n, x) /\ (InCall(u, n, x) => u = t)
    BY <1>0, <1>5, <1>6, <1>8, <2>1, FrameMapped
  <2>4. at' \in [Task -> 0..LastStop] /\ at'[t] = v + 1 /\ at'[t] \in 1..(VPages + 1)
        /\ \A u \in Task \ {t} : at'[u] = at[u]
    <3>1. v + 1 \in 0..LastStop /\ v + 1 \in 1..(VPages + 1)
      BY Sizes DEF VPage
    <3> QED BY <1>0, <1>8, <3>1 DEF MemTypeOK
  <2>5. MemTypeOK'
    BY <1>0, <1>3, <1>7, <1>8, <2>2, <2>3, <2>4 DEF MemTypeOK
  <2>6. StepOf(t, c) /\ TaskInv(c)' /\ SpaceKept(t) /\ SpaceKept(c)
    BY <1>0, <1>1, <1>3, <1>7, <1>8, <2>3, <2>4, CopyStepOf
  <2>7. pc'[t] = "copy"
    BY <1>0, <1>8
  <2>8. Copying(t)' /\ FrameIn(d, v) = 0
    <3>1. \A u \in VPage : StopAt(d, FrameStop(u))' = IF u = v THEN p ELSE StopAt(d, FrameStop(u))
      BY <2>3, FrameStopIn, FrameStopsApart
    <3>2. dir[t] = d /\ dir'[t] = d /\ cr3'[t] = cr3[t] /\ pc[t] \in {"copy", "copy_table"}
      BY <1>0, <1>3, <1>5
    <3> QED BY <1>4, <1>6, <2>4, <2>6, <2>7, <3>1, <3>2, CopyAdvances
  <2>9. TaskInv(t)'
    BY <1>0, <1>1, <1>2, <1>3, <1>6, <1>7, <1>8, <2>4, <2>6, <2>7, <2>8, CopyGoesOn
  <2>10. Tasks'
    BY <1>0, <1>2, <2>6, <2>9, TasksAgain
  <2>11. /\ \A x \in {t, c} : \A n, q : /\ InSpace(x, n, q)' <=> InSpace(x, n, q)
                                        /\ IsStack(x, q)' <=> IsStack(x, q)
         /\ \A n, q : /\ ~InCall(c, n, q) /\ ~InCall(c, n, q)'
                      /\ InCall(t, n, q) <=> n \in Stops /\ q = StopAt(d, n) /\ q # 0
                      /\ InCall(t, n, q)' <=> n \in Stops /\ q = StopAt(d, n)' /\ q # 0
         /\ \A q : ~IsPage(c, q) /\ ~IsPage(c, q)'
    <3>1. \A u \in Task \ {t} : pc'[u] = pc[u] /\ page'[u] = page[u]
      BY <1>7, <1>8
    <3>2. pc'[t] \in {"copy", "copy_table", "copy_undo"} /\ (pc'[t] = "copy_undo" => at'[t] = 1)
      BY <2>7
    <3> QED BY <1>0, <1>1, <1>3, <1>5, <2>6, <2>10, <3>1, <3>2, CopyPlaces
  <2>12. \A n, q : InCall(t, n, q)' <=> InCall(t, n, q) \/ (n = FrameStop(v) /\ q = p)
    BY <2>2, <2>3, <2>8, <2>11, FrameStopIn DEF FrameIn
  <2>13. \A q : IsPage(t, q)' <=> IsPage(t, q)
    BY <1>8 DEF IsPage
  <2>14. Takes(t, c, p, "call", t, FrameStop(v))
    BY <1>2, <2>11, <2>12, <2>13 DEF Takes
  <2>15. Pages'
    BY <1>0, <1>2, <1>3, <2>2, <2>6, <2>14, TakenPage
  <2> QED BY <1>0, <1>3, <2>5, <2>10, <2>15 DEF HaltsOnlyWhenStarved, MemInv
<1>9. CASE /\ Table(d, v) = 0 /\ to = "copy_table"
           /\ \E p \in Page : addr_alloc_page(p) /\ page' = [page EXCEPT ![t] = p]
           /\ UNCHANGED << mem, at, starved >>
  <2>1. PICK p \in Page : addr_alloc_page(p) /\ page' = [page EXCEPT ![t] = p]
    BY <1>9
  <2>2. p \notin used /\ used' = used \cup {p} /\ p # 0 /\ p \in 0..PageCount
    BY <2>1, PagesAre DEF addr_alloc_page, Free
  <2>3. page' \in [Task -> 0..PageCount] /\ page'[t] = p /\ \A u \in Task \ {t} : page'[u] = page[u]
    BY <1>0, <2>1, <2>2 DEF MemTypeOK
  <2>4. MemTypeOK'
    BY <1>0, <1>3, <1>7, <1>9, <2>2, <2>3 DEF MemTypeOK
  <2>5. StepOf(t, c) /\ TaskInv(c)' /\ SpaceKept(t) /\ SpaceKept(c)
    BY <1>0, <1>1, <1>3, <1>7, <1>9, <2>3, CopyStepOf
  <2>6. \A e, n : StopAt(e, n)' = StopAt(e, n)
    BY <1>9, CalmStops
  <2>7. Copying(t)'
    <3>1. \A u \in VPage : /\ FrameIn(dir[t], u)' = FrameIn(dir[t], u)
                           /\ FrameIn(cr3[t], u)' = FrameIn(cr3[t], u)
                           /\ TableIn(dir[t], u)' = TableIn(dir[t], u)
      BY <1>3, <2>6 DEF FrameIn, TableIn
    <3>2. TableIn(dir[t], v) = 0
      BY <1>5, <1>9, FramesAreStops
    <3>3. at'[t] = at[t] /\ pc'[t] = "copy_table"
      BY <1>7, <1>9
    <3> QED BY <1>0, <1>4, <1>6, <3>1, <3>2, <3>3 DEF Copying
  <2>8. TaskInv(t)'
    BY <1>0, <1>1, <1>2, <1>3, <1>6, <1>7, <1>9, <2>2, <2>3, <2>5, <2>7, CopyGoesOn
  <2>9. Tasks'
    BY <1>0, <1>2, <2>5, <2>8, TasksAgain
  <2>10. /\ \A x \in {t, c} : \A n, q : /\ InSpace(x, n, q)' <=> InSpace(x, n, q)
                                        /\ IsStack(x, q)' <=> IsStack(x, q)
         /\ \A n, q : /\ ~InCall(c, n, q) /\ ~InCall(c, n, q)'
                      /\ InCall(t, n, q) <=> n \in Stops /\ q = StopAt(d, n) /\ q # 0
                      /\ InCall(t, n, q)' <=> n \in Stops /\ q = StopAt(d, n)' /\ q # 0
         /\ \A q : ~IsPage(c, q) /\ ~IsPage(c, q)'
    BY <1>0, <1>1, <1>3, <1>5, <1>7, <1>9, <2>3, <2>5, <2>9, CopyPlaces
  <2>11. \A q : ~IsPage(t, q) /\ (IsPage(t, q)' <=> q = p)
    BY <1>6, <2>2, <2>3 DEF IsPage
  <2>12. Takes(t, c, p, "page", t, 0)
    BY <1>2, <2>6, <2>10, <2>11 DEF Takes
  <2>13. Pages'
    BY <1>0, <1>2, <1>3, <2>2, <2>5, <2>12, TakenPage
  <2> QED BY <1>0, <1>3, <2>4, <2>9, <2>13 DEF HaltsOnlyWhenStarved, MemInv
<1>10. CASE /\ to = "copy_undo" /\ at' = [at EXCEPT ![t] = 1] /\ starved' = TRUE
            /\ UNCHANGED << used, mem, page >>
  <2>1. at' \in [Task -> 0..LastStop] /\ at'[t] = 1 /\ \A u \in Task \ {t} : at'[u] = at[u]
    BY <1>0, <1>10, Sizes DEF MemTypeOK
  <2>2. MemTypeOK'
    BY <1>0, <1>3, <1>7, <1>10, <2>1 DEF MemTypeOK
  <2>3. StepOf(t, c) /\ TaskInv(c)' /\ SpaceKept(t) /\ SpaceKept(c)
    BY <1>0, <1>1, <1>3, <1>7, <1>10, <2>1, CopyStepOf
  <2>4. \A e, n : StopAt(e, n)' = StopAt(e, n)
    BY <1>10, CalmStops
  <2>5. Copying(t)'
    BY <1>7, <1>10 DEF Copying
  <2>6. TaskInv(t)'
    BY <1>0, <1>1, <1>2, <1>3, <1>6, <1>7, <1>10, <2>1, <2>3, <2>5, CopyGoesOn
  <2>7. Tasks'
    BY <1>0, <1>2, <2>3, <2>6, TasksAgain
  <2>8. /\ \A x \in {t, c} : \A n, q : /\ InSpace(x, n, q)' <=> InSpace(x, n, q)
                                       /\ IsStack(x, q)' <=> IsStack(x, q)
        /\ \A n, q : /\ ~InCall(c, n, q) /\ ~InCall(c, n, q)'
                     /\ InCall(t, n, q) <=> n \in Stops /\ q = StopAt(d, n) /\ q # 0
                     /\ InCall(t, n, q)' <=> n \in Stops /\ q = StopAt(d, n)' /\ q # 0
        /\ \A q : ~IsPage(c, q) /\ ~IsPage(c, q)'
    BY <1>0, <1>1, <1>3, <1>5, <1>7, <1>10, <2>1, <2>3, <2>7, CopyPlaces
  <2>9. \A q : IsPage(t, q)' <=> IsPage(t, q)
    BY <1>10 DEF IsPage
  <2>10. Calm(t, c)
    BY <1>2, <2>4, <2>8, <2>9 DEF Calm
  <2>11. Pages'
    BY <1>0, <1>2, <1>3, <1>10, <2>3, <2>10, CalmPages
  <2> QED BY <1>0, <1>3, <1>10, <2>2, <2>7, <2>11 DEF HaltsOnlyWhenStarved, MemInv
<1>11. \/ /\ Table(d, v) # 0 /\ \E p \in Page : addr_alloc_page(p) /\ MapFrame(d, v, p)
          /\ at' = [at EXCEPT ![t] = v + 1] /\ UNCHANGED << pc, page, starved >>
       \/ /\ Table(d, v) = 0 /\ Goes(t, "copy", "copy_table")
          /\ \E p \in Page : addr_alloc_page(p) /\ page' = [page EXCEPT ![t] = p]
          /\ UNCHANGED << mem, at, starved >>
       \/ /\ Goes(t, "copy", "copy_undo") /\ at' = [at EXCEPT ![t] = 1] /\ starved' = TRUE
          /\ UNCHANGED << used, mem, page >>
  BY <1>4, <1>5 DEF copy_page, Exhausted, spaceVars
<1>12. \A s : Goes(t, "copy", s) => pc'[t] = s
  BY <1>0 DEF Goes, MemTypeOK
<1> QED BY <1>7, <1>8, <1>9, <1>10, <1>11, <1>12
------------------------------------------------------------------------------
(***************************************************************************)
(* A frame that waited for its table: both are mapped in one step.         *)
(***************************************************************************)
OwnsTable(t, q, r, K, N, M) ==
  \A k, x, n, p : Owns(k, x, n, p)' <=>
    \/ Owns(k, x, n, p) /\ ~(k = "page" /\ x = t)
    \/ k = K /\ x = t /\ n = N /\ p = r
    \/ k = K /\ x = t /\ n = M /\ p = q

TakesTable(t, c, q, r, K, N, M) ==
  \A x \in {t, c} : \A n, p :
    /\ InSpace(x, n, p)' <=>
         InSpace(x, n, p) \/ (K = "space" /\ x = t /\ ((n = N /\ p = r) \/ (n = M /\ p = q)))
    /\ InCall(x, n, p)' <=>
         InCall(x, n, p) \/ (K = "call" /\ x = t /\ ((n = N /\ p = r) \/ (n = M /\ p = q)))
    /\ IsStack(x, p)' <=> IsStack(x, p)
    /\ IsPage(x, p)' <=> IsPage(x, p) /\ x # t

(* Two pages change hands: the one allocated before, and a table.          *)
LEMMA TableTaken ==
  ASSUME Tasks, Pages, NEW CONSTANT t \in Task, NEW CONSTANT c \in Task, StepOf(t, c),
         NEW CONSTANT q, q \notin used, used' = used \cup {q}, lost' = lost,
         NEW CONSTANT r, IsPage(t, r), NEW CONSTANT K \in {"space", "call"},
         NEW CONSTANT N, NEW CONSTANT M, TakesTable(t, c, q, r, K, N, M)
  PROVE  Pages'
<1>1. \A x \in Task : \A n, p :
        /\ InSpace(x, n, p)' <=>
             InSpace(x, n, p) \/ (K = "space" /\ x = t /\ ((n = N /\ p = r) \/ (n = M /\ p = q)))
        /\ InCall(x, n, p)' <=>
             InCall(x, n, p) \/ (K = "call" /\ x = t /\ ((n = N /\ p = r) \/ (n = M /\ p = q)))
        /\ IsStack(x, p)' <=> IsStack(x, p)
        /\ IsPage(x, p)' <=> IsPage(x, p) /\ x # t
  <2>1. ASSUME NEW CONSTANT x \in Task, x \notin {t, c}, NEW CONSTANT n, NEW CONSTANT p
        PROVE  /\ x # t
               /\ InSpace(x, n, p)' <=> InSpace(x, n, p)
               /\ InCall(x, n, p)' <=> InCall(x, n, p)
               /\ IsStack(x, p)' <=> IsStack(x, p)
               /\ IsPage(x, p)' <=> IsPage(x, p)
    BY <2>1, OthersOwn
  <2> QED BY <2>1 DEF TakesTable
<1>2. ASSUME NEW CONSTANT k, NEW CONSTANT x, NEW CONSTANT n, NEW CONSTANT p
      PROVE  Owns(k, x, n, p)' <=>
               \/ Owns(k, x, n, p) /\ ~(k = "page" /\ x = t)
               \/ k = K /\ x = t /\ n = N /\ p = r
               \/ k = K /\ x = t /\ n = M /\ p = q
  <2>1. CASE x \in Task
    <3>1. /\ InSpace(x, n, p)' <=>
               InSpace(x, n, p) \/ (K = "space" /\ x = t /\ ((n = N /\ p = r) \/ (n = M /\ p = q)))
          /\ InCall(x, n, p)' <=>
               InCall(x, n, p) \/ (K = "call" /\ x = t /\ ((n = N /\ p = r) \/ (n = M /\ p = q)))
          /\ IsStack(x, p)' <=> IsStack(x, p)
          /\ IsPage(x, p)' <=> IsPage(x, p) /\ x # t
      BY <1>1, <2>1
    <3>2. CASE k = "space"
      BY <3>1, <3>2 DEF Owns
    <3>3. CASE k = "call"
      BY <3>1, <3>3 DEF Owns
    <3>4. CASE k = "stack"
      BY <3>1, <3>4 DEF Owns
    <3>5. CASE k = "page"
      BY <3>1, <3>5 DEF Owns
    <3>6. CASE k \notin {"space", "call", "stack", "page"}
      BY <3>6 DEF Owns
    <3> QED BY <3>2, <3>3, <3>4, <3>5, <3>6
  <2>2. CASE x \notin Task
    <3>1. x # t
      BY <2>2
    <3> QED BY <2>2, <3>1, PlacesAreTasks DEF Owns
  <2> QED BY <2>1, <2>2
<1>3. OwnsTable(t, q, r, K, N, M)
  BY <1>2 DEF OwnsTable
<1>4. Owns("page", t, 0, r) /\ \A k, x, n : Owns(k, x, n, r) => k = "page" /\ x = t
  BY PageOwns DEF Pages, Apart
<1>5. \A n, p : Owns("page", t, n, p) <=> n = 0 /\ p = r
  BY DEF Owns, IsPage
<1>6. r \in used /\ \A k, x, n : ~Owns(k, x, n, q)
  BY <1>4, OwnedIsUsed
<1>7. Apart'
  <2>1. ASSUME NEW CONSTANT k, NEW CONSTANT x, NEW CONSTANT n, NEW CONSTANT l, NEW CONSTANT y,
               NEW CONSTANT m, NEW CONSTANT p, Owns(k, x, n, p)', Owns(l, y, m, p)'
        PROVE  k = l /\ x = y /\ n = m
    <3>1. CASE p = r
      BY <1>3, <1>4, <1>6, <2>1, <3>1 DEF OwnsTable
    <3>2. CASE p = q
      BY <1>3, <1>6, <2>1, <3>2 DEF OwnsTable
    <3>3. CASE p # r /\ p # q
      BY <1>3, <2>1, <3>3 DEF OwnsTable, Pages, Apart
    <3> QED BY <3>1, <3>2, <3>3
  <2> QED BY <2>1 DEF Apart
<1>8. Accounted'
  <2>1. ASSUME NEW CONSTANT p PROVE p \in used' <=> \E k, x, n : Owns(k, x, n, p)'
    <3>1. p \in used <=> \E k, x, n : Owns(k, x, n, p)
      BY DEF Pages, Accounted
    <3>2. CASE p = r
      <4>1. Owns(K, t, N, r)'
        BY <1>3 DEF OwnsTable
      <4> QED BY <1>6, <3>2, <4>1
    <3>3. CASE p = q
      <4>1. Owns(K, t, M, q)'
        BY <1>3 DEF OwnsTable
      <4> QED BY <3>3, <4>1
    <3>4. CASE p # r /\ p # q
      <4>1. \A k, x, n : Owns(k, x, n, p)' <=> Owns(k, x, n, p)
        BY <1>3, <1>5, <3>4 DEF OwnsTable
      <4> QED BY <3>1, <3>4, <4>1
    <3> QED BY <3>2, <3>3, <3>4
  <2> QED BY <2>1 DEF Accounted
<1> QED BY <1>7, <1>8 DEF Pages

(* A table and a frame for the copy, or memory has run out.                *)
LEMMA CopyTableStep ==
  ASSUME MemInv, NEW CONSTANT t \in Task, copy_table(t), halted = "no"
  PROVE  MemInv'
<1>0. MemTypeOK /\ Tasks /\ Pages /\ TaskInv(t) /\ pc[t] = "copy_table"
  BY DEF Tasks, MemInv, copy_table, Goes
<1>1. PICK c \in Slot : c = child[t]
  BY <1>0, Copies DEF CopyPc
<1>2. /\ c \in Task /\ c # t /\ pc[c] = "new"
  BY <1>0, <1>1, Copies DEF CopyPc
<1>3. /\ UNCHANGED << cr3, esp0, heap_end, parent, child, dir, todo, goal, halted >>
      /\ page' = [page EXCEPT ![t] = 0]
  BY DEF copy_table, taskVars
<1>4. PICK w \in VPage :
        /\ w >= at[t] /\ FrameIn(cr3[t], w) # 0
        /\ \A u \in VPage : u >= at[t] /\ u < w => FrameIn(cr3[t], u) = 0
        /\ TableIn(dir[t], w) = 0
  BY <1>0 DEF TaskInv, Copying
<1>5. ToCopy(t) # {}
  BY <1>4, FramesAreStops DEF ToCopy, Mapped
<1>6. PICK v \in VPage :
        /\ v = Min(ToCopy(t)) /\ v >= at[t] /\ FrameIn(cr3[t], v) # 0
        /\ \A u \in VPage : u >= at[t] /\ u < v => FrameIn(cr3[t], u) = 0
  BY <1>0, <1>5, FirstToCopy
<1>7. v = w
  <2>1. ~(v < w) /\ ~(w < v)
    BY <1>4, <1>6
  <2> QED BY <2>1 DEF VPage
<1>8. PICK d : d = dir[t]
  OBVIOUS
<1>9. PICK r : r = page[t]
  OBVIOUS
<1>10. /\ d \in Page /\ d # cr3[t] /\ r \in Page /\ at[t] \in 1..(VPages + 1) /\ Copying(t)
       /\ Hand(t) = "call" /\ pc[t] \in BuildPc /\ Table(d, v) = 0
  <2>1. r \in Page
    BY <1>0, <1>9, MemoryAssumption DEF TaskInv, Caller, MemTypeOK, Page
  <2>2. Table(d, v) = 0
    BY <1>4, <1>7, <1>8, FramesAreStops
  <2> QED BY <1>0, <1>8, <2>1, <2>2 DEF TaskInv, Caller, Hand, BuildPc
<1>11. PICK to \in {"copy", "copy_undo"} :
        /\ pc' = [pc EXCEPT ![t] = to] /\ pc' \in [Task -> Pc] /\ pc'[t] = to
        /\ \A u \in Task \ {t} : pc'[u] = pc[u]
  BY <1>0 DEF MemTypeOK, Pc, copy_table, Goes
<1>12. /\ page' \in [Task -> 0..PageCount] /\ page'[t] = 0
       /\ \A u \in Task \ {t} : page'[u] = page[u]
  BY <1>0, <1>3, MemoryAssumption DEF MemTypeOK
<1>13. IsPage(t, r) /\ \A p : (IsPage(t, p) <=> p = r) /\ ~IsPage(t, p)'
  BY <1>9, <1>10, <1>12, PagesAre DEF IsPage
<1>14. CASE /\ to = "copy" /\ \E q \in Page : addr_alloc_page(q) /\ MapFrameInNewTable(d, v, r, q)
            /\ at' = [at EXCEPT ![t] = v + 1] /\ UNCHANGED << lost, starved >>
  <2>1. PICK q \in Page : addr_alloc_page(q) /\ MapFrameInNewTable(d, v, r, q)
    BY <1>14
  <2>2. q \notin used /\ used' = used \cup {q} /\ q # 0
    BY <2>1, PagesAre DEF addr_alloc_page, Free
  <2>3. /\ mem' \in [Page -> [Entry -> 0..PageCount]]
        /\ \A n \in Stops : StopAt(d, n)' = IF n = FrameStop(v) THEN r
                                            ELSE IF n = TableStop(v) THEN q ELSE StopAt(d, n)
        /\ \A x : mem'[x] = mem[x] \/ \A u, n : ~InSpace(u, n, x) /\ (InCall(u, n, x) => u = t)
        /\ StopAt(d, FrameStop(v)) = 0 /\ StopAt(d, TableStop(v)) = 0
    BY <1>0, <1>8, <1>10, <2>1, <2>2, TableMapped
  <2>4. at' \in [Task -> 0..LastStop] /\ at'[t] = v + 1 /\ at'[t] \in 1..(VPages + 1)
        /\ \A u \in Task \ {t} : at'[u] = at[u]
    <3>1. v + 1 \in 0..LastStop /\ v + 1 \in 1..(VPages + 1)
      BY Sizes DEF VPage
    <3> QED BY <1>0, <1>14, <3>1 DEF MemTypeOK
  <2>5. MemTypeOK'
    BY <1>0, <1>3, <1>11, <1>12, <1>14, <2>2, <2>3, <2>4 DEF MemTypeOK
  <2>6. StepOf(t, c) /\ TaskInv(c)' /\ SpaceKept(t) /\ SpaceKept(c)
    BY <1>0, <1>1, <1>3, <1>11, <1>12, <1>14, <2>3, <2>4, CopyStepOf
  <2>7. pc'[t] = "copy"
    BY <1>11, <1>14
  <2>8. FrameStop(v) # TableStop(v) /\ \A u \in VPage : FrameStop(u) # TableStop(v)
    BY StopsOfAPage, PageIndices, Sizes DEF W
  <2>9. Copying(t)'
    <3>1. \A u \in VPage : StopAt(d, FrameStop(u))' = IF u = v THEN r ELSE StopAt(d, FrameStop(u))
      BY <2>3, <2>8, FrameStopIn, FrameStopsApart
    <3>2. dir[t] = d /\ dir'[t] = d /\ cr3'[t] = cr3[t] /\ pc[t] \in {"copy", "copy_table"}
      BY <1>0, <1>3, <1>8
    <3> QED BY <1>6, <1>10, <2>4, <2>6, <2>7, <3>1, <3>2, CopyAdvances
  <2>10. TaskInv(t)'
    BY <1>0, <1>1, <1>2, <1>3, <1>11, <1>12, <1>14, <2>4, <2>6, <2>7, <2>9, CopyGoesOn
  <2>11. Tasks'
    BY <1>0, <1>2, <2>6, <2>10, TasksAgain
  <2>12. /\ \A x \in {t, c} : \A n, p : /\ InSpace(x, n, p)' <=> InSpace(x, n, p)
                                        /\ IsStack(x, p)' <=> IsStack(x, p)
         /\ \A n, p : /\ ~InCall(c, n, p) /\ ~InCall(c, n, p)'
                      /\ InCall(t, n, p) <=> n \in Stops /\ p = StopAt(d, n) /\ p # 0
                      /\ InCall(t, n, p)' <=> n \in Stops /\ p = StopAt(d, n)' /\ p # 0
         /\ \A p : ~IsPage(c, p) /\ ~IsPage(c, p)'
    <3>1. \A u \in Task \ {t} : pc'[u] = pc[u] /\ page'[u] = page[u]
      BY <1>11, <1>12
    <3>2. pc'[t] \in {"copy", "copy_table", "copy_undo"} /\ (pc'[t] = "copy_undo" => at'[t] = 1)
      BY <2>7
    <3> QED BY <1>0, <1>1, <1>3, <1>8, <2>6, <2>11, <3>1, <3>2, CopyPlaces
  <2>13. ASSUME NEW CONSTANT n, NEW CONSTANT p
         PROVE  InCall(t, n, p)' <=>
                  InCall(t, n, p) \/ (n = FrameStop(v) /\ p = r) \/ (n = TableStop(v) /\ p = q)
    <3>1. r # 0 /\ FrameStop(v) \in Stops /\ TableStop(v) \in Stops
      BY <1>10, PagesAre, FrameStopIn
    <3>2. /\ InCall(t, n, p) <=> n \in Stops /\ p = StopAt(d, n) /\ p # 0
          /\ InCall(t, n, p)' <=> n \in Stops /\ p = StopAt(d, n)' /\ p # 0
      BY <2>12
    <3>3. n \in Stops => StopAt(d, n)' = IF n = FrameStop(v) THEN r
                                        ELSE IF n = TableStop(v) THEN q ELSE StopAt(d, n)
      BY <2>3
    <3>4. CASE n = FrameStop(v)
      BY <2>3, <2>8, <3>1, <3>2, <3>3, <3>4
    <3>5. CASE n = TableStop(v)
      BY <2>2, <2>3, <2>8, <3>1, <3>2, <3>3, <3>5
    <3>6. CASE n \notin {FrameStop(v), TableStop(v)}
      BY <3>2, <3>3, <3>6
    <3> QED BY <3>4, <3>5, <3>6
  <2>14. TakesTable(t, c, q, r, "call", FrameStop(v), TableStop(v))
    <3>1. \A p : IsPage(t, p)' <=> IsPage(t, p) /\ t # t
      BY <1>13
    <3>2. \A p : IsPage(c, p)' <=> IsPage(c, p) /\ c # t
      BY <2>12
    <3>3. \A n, p : InCall(c, n, p)' <=> InCall(c, n, p)
      BY <2>12
    <3>4. \A x \in {t, c} : \A n, p : /\ InSpace(x, n, p)' <=> InSpace(x, n, p)
                                      /\ IsStack(x, p)' <=> IsStack(x, p)
      BY <2>12
    <3> QED BY <1>2, <2>13, <3>1, <3>2, <3>3, <3>4 DEF TakesTable
  <2>15. Pages'
    BY <1>0, <1>2, <1>13, <1>14, <2>2, <2>6, <2>14, TableTaken
  <2> QED BY <1>0, <1>3, <2>5, <2>11, <2>15 DEF HaltsOnlyWhenStarved, MemInv
<1>15. CASE /\ to = "copy_undo" /\ at' = [at EXCEPT ![t] = 1] /\ starved' = TRUE
            /\ lost' = lost \cup {r} /\ UNCHANGED << used, mem >>
  <2>1. at' \in [Task -> 0..LastStop] /\ at'[t] = 1 /\ \A u \in Task \ {t} : at'[u] = at[u]
    BY <1>0, <1>15, Sizes DEF MemTypeOK
  <2>2. MemTypeOK'
    BY <1>0, <1>3, <1>10, <1>11, <1>12, <1>15, <2>1 DEF MemTypeOK
  <2>3. StepOf(t, c) /\ TaskInv(c)' /\ SpaceKept(t) /\ SpaceKept(c)
    BY <1>0, <1>1, <1>3, <1>11, <1>12, <1>15, <2>1, CopyStepOf
  <2>4. \A e, n : StopAt(e, n)' = StopAt(e, n)
    BY <1>15, CalmStops
  <2>5. Copying(t)'
    BY <1>11, <1>15 DEF Copying
  <2>6. TaskInv(t)'
    BY <1>0, <1>1, <1>2, <1>3, <1>11, <1>12, <1>15, <2>1, <2>3, <2>5, CopyGoesOn
  <2>7. Tasks'
    BY <1>0, <1>2, <2>3, <2>6, TasksAgain
  <2>8. /\ \A x \in {t, c} : \A n, p : /\ InSpace(x, n, p)' <=> InSpace(x, n, p)
                                       /\ IsStack(x, p)' <=> IsStack(x, p)
        /\ \A n, p : /\ ~InCall(c, n, p) /\ ~InCall(c, n, p)'
                     /\ InCall(t, n, p) <=> n \in Stops /\ p = StopAt(d, n) /\ p # 0
                     /\ InCall(t, n, p)' <=> n \in Stops /\ p = StopAt(d, n)' /\ p # 0
        /\ \A p : ~IsPage(c, p) /\ ~IsPage(c, p)'
    BY <1>0, <1>1, <1>3, <1>8, <1>11, <1>12, <1>15, <2>1, <2>3, <2>7, CopyPlaces
  <2>9. Owns("page", t, 0, r)
    BY <1>13, PageOwns
  <2>10. \A x, n : ~InSpace(x, n, r) /\ ~InCall(x, n, r) /\ ~IsStack(x, r)
    BY <1>0, <2>9, OwnedOnce
  <2>11. Gives(t, c, r)
    BY <1>2, <1>13, <2>4, <2>8, <2>10 DEF Gives
  <2>12. Pages'
    BY <1>0, <1>2, <1>15, <2>3, <2>9, <2>11, LostPage
  <2> QED BY <1>0, <1>3, <1>15, <2>2, <2>7, <2>12 DEF HaltsOnlyWhenStarved, MemInv
<1>16. \/ /\ Goes(t, "copy_table", "copy")
          /\ \E q \in Page : addr_alloc_page(q) /\ MapFrameInNewTable(d, v, r, q)
          /\ at' = [at EXCEPT ![t] = v + 1] /\ UNCHANGED << lost, starved >>
       \/ /\ Goes(t, "copy_table", "copy_undo") /\ at' = [at EXCEPT ![t] = 1] /\ starved' = TRUE
          /\ lost' = lost \cup {r} /\ UNCHANGED << used, mem >>
  BY <1>6, <1>8, <1>9 DEF copy_table, Exhausted, spaceVars
<1>17. \A s : Goes(t, "copy_table", s) => pc'[t] = s
  BY <1>0 DEF Goes, MemTypeOK
<1> QED BY <1>11, <1>14, <1>15, <1>16, <1>17
------------------------------------------------------------------------------
(***************************************************************************)
(* memory_destroy_uvm: one page is freed, and the walk goes on behind it.  *)
(***************************************************************************)
WalkPc  == {"copy_undo", "exec_undo", "reap"}
WalkEnd(here) == IF here = "copy_undo" THEN "copy_failed"
                 ELSE IF here = "exec_undo" THEN "exec_failed" ELSE "reap_stack"

(* A child in a call is "new" or a zombie.                                 *)
LEMMA NobodysChild ==
  ASSUME Tasks, NEW t \in Task, pc[t] \notin {"new", "zombie"}
  PROVE  \A u \in Task : pc[u] \in CallPc => child[u] # t
BY DEF Tasks, TaskInv, Parental, CallPc

(* The walk stops at the next page that is present.                        *)
LEMMA NextStopIs ==
  ASSUME MemTypeOK, Tasks, NEW t \in Task, pc[t] \in WalkPc
  PROVE  LET n == NextStop(dir[t], at[t])
         IN  /\ at[t] \in Stops /\ n \in at[t]..LastStop /\ n \in Stops
             /\ StopAt(dir[t], n) # 0 /\ InCall(t, n, StopAt(dir[t], n))
             /\ \A m \in at[t]..LastStop : m < n => StopAt(dir[t], m) = 0
             /\ HasDir(t) /\ From(t) = at[t]
<1>1. at[t] \in Stops /\ dir[t] \in Page /\ dir[t] # cr3[t] /\ pc[t] \in WalkPc
  BY DEF Tasks, TaskInv, Caller, WalkPc
<1>2. HasDir(t) /\ From(t) = at[t]
  BY <1>1, PagesAre DEF HasDir, From, WalkPc
<1> DEFINE S == { m \in at[t]..LastStop : StopAt(dir[t], m) # 0 }
<1>3. LastStop \in S /\ S \in SUBSET Nat
  BY <1>1, LastStopIs, PagesAre, Sizes DEF Stops
<1>4. Min(S) \in S /\ \A m \in S : Min(S) <= m
  BY <1>3, MinIsLeast
<1>5. NextStop(dir[t], at[t]) = Min(S)
  BY DEF NextStop
<1>6. PICK n : n = NextStop(dir[t], at[t])
  OBVIOUS
<1>7. n \in S /\ \A m \in S : n <= m
  BY <1>4, <1>5, <1>6
<1>8. n \in at[t]..LastStop /\ n \in Stops /\ StopAt(dir[t], n) # 0
  BY <1>1, <1>7, Sizes DEF Stops
<1>9. ASSUME NEW m \in at[t]..LastStop, m < n PROVE StopAt(dir[t], m) = 0
  <2>1. m \notin S
    BY <1>1, <1>7, <1>8, <1>9 DEF Stops
  <2> QED BY <2>1
<1> HIDE DEF S
<1>10. InCall(t, n, StopAt(dir[t], n))
  BY <1>2, <1>8 DEF InCall
<1> QED BY <1>1, <1>2, <1>6, <1>8, <1>9, <1>10

(* One stop of memory_destroy_uvm.                                         *)
LEMMA WalkStep ==
  ASSUME MemInv, NEW CONSTANT t \in Task, halted = "no", NEW CONSTANT here \in WalkPc,
         NEW CONSTANT done, done = WalkEnd(here), memory_destroy_uvm(t, here, done),
         UNCHANGED << taskVars, child, dir, page, todo, goal, lost, starved, halted >>
  PROVE  MemInv'
<1>0. MemTypeOK /\ Tasks /\ Pages /\ TaskInv(t) /\ pc[t] = here
  BY DEF Tasks, MemInv, memory_destroy_uvm
<1>1. UNCHANGED << cr3, esp0, heap_end, parent, child, dir, page, todo, goal, lost, starved, halted >>
  BY DEF taskVars
<1>2. PICK n \in Stops : n = NextStop(dir[t], at[t])
  BY <1>0, NextStopIs
<1>3. PICK d : d = dir[t]
  OBVIOUS
<1>4. PICK q : q = StopAt(d, n)
  OBVIOUS
<1>5. /\ at[t] \in Stops /\ n \in at[t]..LastStop /\ q # 0 /\ InCall(t, n, q)
      /\ \A m \in at[t]..LastStop : m < n => StopAt(d, m) = 0
      /\ HasDir(t) /\ From(t) = at[t]
  BY <1>0, <1>2, <1>3, <1>4, NextStopIs
<1>6. PICK c \in Task : c = IF here = "exec_undo" THEN t ELSE child[t]
  BY <1>0 DEF TaskInv, Parental, Task, WalkPc, ForkPc, CopyPc, ReapPc
<1>7. /\ here # "exec_undo" => c \in Slot /\ c # t /\ dir[c] = 0 /\ page[c] = 0 /\ cr3[c] \in Page
      /\ here = "copy_undo" => pc[c] = "new"
      /\ here = "reap" => pc[c] = "zombie" /\ d = cr3[c]
      /\ cr3[t] \in Page /\ d \in Page /\ d # cr3[t] /\ page[t] = 0
  <2>1. TaskInv(c)
    BY <1>0 DEF Tasks
  <2>2. cr3[t] \in Page /\ d \in Page /\ d # cr3[t] /\ page[t] = 0
    BY <1>0, <1>3 DEF TaskInv, Caller, WalkPc
  <2>3. here = "copy_undo" => pc[c] = "new" /\ c \in Slot /\ cr3[c] \in Page
    BY <1>0, <1>6 DEF TaskInv, Parental, ForkPc, CopyPc
  <2>4. here = "reap" => pc[c] = "zombie" /\ c \in Slot /\ d = cr3[c]
    BY <1>0, <1>3, <1>6 DEF TaskInv, Parental, ReapPc
  <2>5. here # "exec_undo" => dir[c] = 0 /\ page[c] = 0 /\ c # t
    BY <1>0, <2>1, <2>3, <2>4 DEF TaskInv, Caller, WalkPc
  <2> QED BY <2>2, <2>3, <2>4, <2>5 DEF WalkPc
<1>8. PICK to \in {here, done} :
        /\ to = IF n = LastStop THEN done ELSE here
        /\ pc' = [pc EXCEPT ![t] = to] /\ pc' \in [Task -> Pc] /\ pc'[t] = to
        /\ \A u \in Task \ {t} : pc'[u] = pc[u]
  BY <1>0, <1>2 DEF memory_destroy_uvm, MemTypeOK, Pc, WalkPc, WalkEnd
<1>9. PICK g \in 0..LastStop :
        /\ g = IF n = LastStop THEN 0 ELSE n + 1
        /\ at' = [at EXCEPT ![t] = g] /\ at' \in [Task -> 0..LastStop] /\ at'[t] = g
        /\ \A u \in Task \ {t} : at'[u] = at[u]
  <2>1. (IF n = LastStop THEN 0 ELSE n + 1) \in 0..LastStop
    BY Sizes DEF Stops
  <2> QED BY <1>0, <1>2, <2>1 DEF memory_destroy_uvm, MemTypeOK
<1>10. used' = used \ {q} /\ mem' = [mem EXCEPT ![q] = Empty]
  BY <1>2, <1>3, <1>4 DEF memory_destroy_uvm, addr_free_page
<1>11. Owns("call", t, n, q) /\ q \in used /\ q \in Page
  BY <1>0, <1>5, CallOwns, OwnedIsUsed DEF MemTypeOK
<1>12. /\ \A x, m : ~InSpace(x, m, q) /\ (InCall(x, m, q) => x = t /\ m = n)
       /\ \A x : ~IsStack(x, q) /\ ~IsPage(x, q)
  BY <1>0, <1>11, OwnedOnce
<1>13. /\ mem' \in [Page -> [Entry -> 0..PageCount]]
       /\ \A x : \/ mem'[x] = mem[x]
                 \/ \A u, m : ~InSpace(u, m, x) /\ (InCall(u, m, x) => u = t /\ m = n)
  <2>1. mem' \in [Page -> [Entry -> 0..PageCount]] /\ \A x \in Page : x # q => mem'[x] = mem[x]
    BY <1>0, <1>10, ClearedPage
  <2>2. \A x : x \notin Page => x \notin used
    BY <1>0 DEF MemTypeOK
  <2> QED BY <1>0, <1>12, <2>1, <2>2, FreeIsNobodys
<1>14. MemTypeOK'
  BY <1>0, <1>1, <1>8, <1>9, <1>10, <1>13 DEF MemTypeOK
<1>15. \A u \in Task \ {t} : pc[u] \in CallPc => child[u] # c
  <2>1. here = "exec_undo" => \A u \in Task : pc[u] \in CallPc => child[u] # c
    BY <1>0, <1>6, NobodysChild
  <2>2. here # "exec_undo" => pc[t] \in CallPc
    BY <1>0 DEF WalkPc, CallPc, ForkPc, CopyPc, ReapPc
  <2> QED BY <1>0, <1>6, <2>1, <2>2 DEF Tasks, ChildrenApart, CallPc
<1>16. StepOf(t, c)
  <2>1. \A u \in Task \ {t, c} : Same(u)
    BY <1>1, <1>8, <1>9 DEF Same
  <2>2. pc[t] \notin {"free", "new", "zombie"}
    BY <1>0 DEF WalkPc
  <2>3. c # t => pc[c] \in {"new", "zombie"} /\ pc'[c] = pc[c]
    BY <1>6, <1>7, <1>8 DEF WalkPc
  <2>4. /\ pc[t] \in CallPc => child[t] = c
        /\ pc'[t] \in CallPc => child'[t] = c
        /\ pc'[t] \in ReapPc => pc[t] \in ReapPc
    BY <1>0, <1>1, <1>6, <1>8 DEF WalkPc, WalkEnd, CallPc, ForkPc, CopyPc, ReapPc
  <2> QED BY <1>1, <1>13, <1>15, <2>1, <2>2, <2>3, <2>4 DEF StepOf, CallPc, ForkPc, CopyPc, ReapPc
<1>17. t \in Spaces /\ SpaceKept(t) /\ (here = "copy_undo" => c \in Spaces /\ SpaceKept(c))
  <2>1. t \in Spaces /\ (here = "copy_undo" => c \in Spaces)
    BY <1>0, <1>7, SpaceOfATask DEF WalkPc
  <2> QED BY <1>1, <1>13, <2>1, SpaceStays DEF SpaceKept
<1>18. TaskInv(t)'
  <2>1. Caller(t)'
    BY <1>0, <1>1, <1>3, <1>7, <1>8, <1>9, Sizes DEF Caller, WalkPc, WalkEnd, MapPc, Stops
  <2>2. Parental(t)'
    <3>1. CASE here = "exec_undo"
      BY <1>8, <3>1 DEF Parental, WalkEnd, ForkPc, CopyPc, ReapPc
    <3>2. CASE here = "copy_undo"
      <4>1. \A m \in 1..(LastStop - 1) : StopAt(cr3[c], m) = 0
        BY <1>0, <1>6, <3>2 DEF TaskInv, Parental, CopyPc
      <4>2. \A m \in 1..(LastStop - 1) : StopAt(cr3[c], m)' = 0
        BY <1>17, <3>2, <4>1, Sizes DEF SpaceKept, Stops
      <4>3. child'[t] = c /\ c \in Slot /\ pc'[c] = "new" /\ cr3'[c] \in Page
        BY <1>1, <1>6, <1>7, <1>8, <3>2
      <4>4. pc'[t] \in CopyPc /\ pc'[t] \notin ReapPc \cup {"fork_stack", "fork_dir", "fork_undo"}
        BY <1>8, <3>2 DEF WalkEnd, CopyPc, ReapPc
      <4> QED BY <4>2, <4>3, <4>4 DEF Parental, ForkPc
    <3>3. CASE here = "reap"
      <4>1. child'[t] = c /\ c \in Slot /\ pc'[c] = "zombie" /\ dir'[t] = cr3'[c]
        BY <1>1, <1>3, <1>6, <1>7, <1>8, <3>3
      <4>2. pc'[t] \in ReapPc /\ pc'[t] \notin ForkPc
        BY <1>8, <3>3 DEF WalkEnd, ReapPc, ForkPc, CopyPc
      <4> QED BY <4>1, <4>2 DEF Parental, ForkPc
    <3> QED BY <3>1, <3>2, <3>3 DEF WalkPc
  <2>3. Copying(t)' /\ Mapping(t)'
    BY <1>8 DEF Copying, Mapping, MapPc, WalkPc, WalkEnd
  <2>4. Hungry(t)'
    BY <1>0, <1>1, <1>7, <1>8, PagesAre DEF TaskInv, Hungry, WalkPc, WalkEnd
  <2>5. HeapRight(t)'
    BY <1>0, <1>1, <1>8, <1>17, HeapStays DEF TaskInv, MapPc, WalkPc, WalkEnd
  <2> QED BY <2>1, <2>2, <2>3, <2>4, <2>5 DEF TaskInv
<1>19. c # t => TaskInv(c)'
  <2>1. c # t => /\ pc'[c] \in {"new", "zombie"} /\ dir'[c] = 0 /\ page'[c] = 0 /\ cr3'[c] \in Page
    BY <1>1, <1>6, <1>7, <1>8 DEF WalkPc
  <2>2. c # t => Hungry(c)'
    BY <2>1, PagesAre DEF Hungry
  <2> QED BY <2>1, <2>2, RestInv
<1>20. Tasks'
  BY <1>0, <1>16, <1>18, <1>19, TasksAgain
<1>21. /\ ~FreedStack(t) /\ ~FreedStack(t)' /\ (FreedStack(c) <=> FreedStack(c)')
       /\ t \in Spaces' /\ (c \in Spaces <=> c \in Spaces')
  <2>1. ~FreedStack(t) /\ ~FreedStack(t)' /\ t \notin Reaped'
    BY <1>0, <1>8, <1>20, Whole, WholeNext DEF WalkPc, WalkEnd
  <2>2. t \in Spaces'
    BY <1>1, <1>17, <2>1 DEF Spaces
  <2>3. CASE here = "exec_undo"
    BY <1>6, <1>17, <2>1, <2>2, <2>3
  <2>4. CASE here = "copy_undo"
    <3>1. c \notin Reaped /\ c \notin Reaped'
      BY <1>0, <1>7, <1>8, <1>20, <2>4, Whole, WholeNext
    <3>2. FreedStack(c) <=> FreedStack(c)'
      BY <1>0, <1>1, <1>8, <1>15, <2>4 DEF FreedStack, CallPc, ForkPc, WalkEnd
    <3> QED BY <1>1, <2>1, <2>2, <3>1, <3>2 DEF Spaces
  <2>5. CASE here = "reap"
    <3>1. c \in Reaped /\ c \in Reaped'
      BY <1>0, <1>1, <1>6, <1>8, <2>5 DEF Reaped, ReapPc, WalkEnd
    <3>2. ~FreedStack(c) /\ ~FreedStack(c)'
      BY <1>0, <1>7, <1>8, <1>20, <2>5, Whole, WholeNext
    <3> QED BY <2>1, <2>2, <3>1, <3>2 DEF Spaces
  <2> QED BY <2>3, <2>4, <2>5 DEF WalkPc
<1>22. \A x \in {t, c} : \A m, p : /\ InSpace(x, m, p)' <=> InSpace(x, m, p)
                                   /\ IsStack(x, p)' <=> IsStack(x, p)
                                   /\ IsPage(x, p)' <=> IsPage(x, p)
  <2>1. \A m, p : InSpace(t, m, p)' <=> InSpace(t, m, p)
    BY <1>17, <1>21 DEF InSpace, SpaceKept
  <2>2. \A m, p : InSpace(c, m, p)' <=> InSpace(c, m, p)
    <3>1. CASE here = "reap"
      <4>1. c \in Reaped
        BY <1>0, <1>6, <3>1 DEF Reaped, ReapPc
      <4> QED BY <1>21, <4>1 DEF InSpace, Spaces
    <3>2. CASE here # "reap"
      BY <1>6, <1>17, <1>21, <2>1, <3>2 DEF InSpace, SpaceKept, WalkPc
    <3> QED BY <3>1, <3>2
  <2>3. \A x \in {t, c} : \A p : /\ IsStack(x, p)' <=> IsStack(x, p)
                                 /\ IsPage(x, p)' <=> IsPage(x, p)
    BY <1>1, <1>21 DEF IsStack, IsPage
  <2> QED BY <2>1, <2>2, <2>3
<1>23. \A m, p : InCall(t, m, p)' <=> InCall(t, m, p) /\ p # q
  <2>1. CASE n = LastStop
    <3>1. \A m, p : ~InCall(t, m, p)'
      BY <1>8, <2>1 DEF InCall, HasDir, WalkPc, WalkEnd
    <3>2. \A m, p : InCall(t, m, p) => p = q
      BY <1>3, <1>4, <1>5, <2>1, Sizes DEF InCall, Stops
    <3> QED BY <3>1, <3>2
  <2>2. CASE n # LastStop
    <3>1. g = n + 1 /\ g \in Stops /\ g >= From(t) /\ From(t) \in Stops /\ at[t] \in Nat
      BY <1>5, <1>9, <2>2, Sizes DEF Stops
    <3>2. HasDir(t)' /\ From(t)' = g
      BY <1>1, <1>3, <1>7, <1>8, <1>9, <2>2, PagesAre DEF HasDir, From, WalkPc
    <3>3. \A x : mem'[x] = mem[x] \/ \A m \in g..LastStop : ~InCall(t, m, x)
      BY <1>13, <3>1 DEF Stops
    <3>4. \A m \in g..LastStop : StopAt(d, m)' = StopAt(d, m)
      <4>1. \A m \in g..LastStop : StopAt(dir[t], m)' = StopAt(dir[t], m)
        BY <1>1, <1>5, <3>1, <3>3, CallStays
      <4> QED BY <1>1, <1>3, <4>1
    <3>5. \A m, p : InCall(t, m, p)' <=> m \in g..LastStop /\ p = StopAt(d, m) /\ p # 0
      BY <1>1, <1>3, <3>2, <3>4 DEF InCall
    <3>6. \A m, p : InCall(t, m, p) <=> m \in at[t]..LastStop /\ p = StopAt(d, m) /\ p # 0
      BY <1>3, <1>5 DEF InCall
    <3>7. ASSUME NEW CONSTANT m, NEW CONSTANT p
          PROVE  InCall(t, m, p)' <=> InCall(t, m, p) /\ p # q
      <4>1. CASE m \in g..LastStop
        <5>1. m \in at[t]..LastStop /\ m # n
          BY <1>5, <3>1, <4>1 DEF Stops
        <5>2. InCall(t, m, p) => p # q
          BY <1>12, <5>1
        <5> QED BY <3>5, <3>6, <4>1, <5>1, <5>2
      <4>2. CASE m \in at[t]..LastStop /\ m \notin g..LastStop
        <5>1. m = n \/ m < n
          BY <1>5, <3>1, <4>2 DEF Stops
        <5>2. InCall(t, m, p) => p = q
          BY <1>4, <1>5, <3>6, <4>2, <5>1
        <5> QED BY <3>5, <4>2, <5>2
      <4>3. CASE m \notin at[t]..LastStop
        <5>1. m \notin g..LastStop
          BY <1>5, <3>1, <4>3 DEF Stops
        <5> QED BY <3>5, <3>6, <4>3, <5>1
      <4> QED BY <4>1, <4>2, <4>3
    <3> QED BY <3>7
  <2> QED BY <2>1, <2>2
<1>24. c # t => \A m, p : ~InCall(c, m, p) /\ ~InCall(c, m, p)'
  BY <1>1, <1>6, <1>7 DEF InCall, HasDir
<1>25. Gives(t, c, q)
  <2>1. \A x, m : ~InSpace(x, m, q) /\ ~IsStack(x, q) /\ ~IsPage(x, q)
    BY <1>12
  <2> QED BY <1>22, <1>23, <1>24, <2>1 DEF Gives
<1>26. Pages'
  BY <1>0, <1>1, <1>10, <1>11, <1>16, <1>25, GivenPage
<1> QED BY <1>0, <1>1, <1>14, <1>20, <1>26 DEF HaltsOnlyWhenStarved, MemInv
------------------------------------------------------------------------------
(* A step that is about one task only, which is in nobody's hands.         *)
LEMMA StepAlone ==
  ASSUME Tasks, NEW CONSTANT t \in Task, pc[t] \notin {"free", "new", "zombie"} \cup CallPc,
         pc'[t] \notin CallPc, \A u \in Task \ {t} : Same(u), starved => starved',
         \A p : mem'[p] = mem[p] \/ \A u \in Task \ {t} : \A n : ~InSpace(u, n, p) /\ ~InCall(u, n, p)
  PROVE  StepOf(t, t)
BY NobodysChild DEF StepOf, CallPc

(* A task that stays where it is: what its places own, and still own.      *)
LEMMA PlacesStay ==
  ASSUME Tasks, Tasks', NEW CONSTANT t \in Task,
         pc[t] \notin {"free", "new", "zombie"}, pc'[t] \notin {"free", "new", "zombie"},
         cr3'[t] = cr3[t], cr3[t] \in Page, SpaceKept(t), esp0'[t] = esp0[t]
  PROVE  /\ t \in Spaces /\ t \in Spaces'
         /\ \A n, p : InSpace(t, n, p)' <=> InSpace(t, n, p)
         /\ \A p : IsStack(t, p)' <=> IsStack(t, p)
<1>1. t \in Spaces /\ t \notin Reaped /\ ~FreedStack(t)
  BY SpaceOfATask, Whole
<1>2. t \notin Reaped' /\ ~FreedStack(t)'
  BY WholeNext
<1>3. t \in Spaces'
  BY <1>1, <1>2 DEF Spaces
<1> QED BY <1>1, <1>2, <1>3 DEF InSpace, IsStack, SpaceKept

(* sys_exit gives no page back.                                            *)
LEMMA ExitStep ==
  ASSUME MemInv, NEW CONSTANT t \in Task, exit(t), cr3[t] # BadDir, halted = "no"
  PROVE  MemInv'
<1>0. MemTypeOK /\ Tasks /\ Pages /\ TaskInv(t) /\ pc[t] = "user" /\ TableFree
  BY DEF Tasks, MemInv, exit, Goes
<1>1. UNCHANGED << used, mem, cr3, esp0, heap_end, child, dir, at, page, todo, goal,
                   lost, starved, halted >>
  BY DEF exit, spaceVars, callVars
<1>2. /\ pc' \in [Task -> Pc] /\ pc'[t] = "zombie" /\ \A u \in Task \ {t} : pc'[u] = pc[u]
      /\ parent' \in [Task -> Task \cup {NoTask}]
  BY <1>0 DEF exit, Goes, MemTypeOK, Pc, Task
<1>3. cr3[t] \in Page /\ cr3[t] # 0 /\ dir[t] = 0 /\ page[t] = 0
  BY <1>0, PagesAre DEF TaskInv, Caller
<1>4. MemTypeOK'
  BY <1>0, <1>1, <1>2 DEF MemTypeOK
<1>5. StepOf(t, t)
  <2>1. \A u \in Task \ {t} : Same(u)
    BY <1>1, <1>2 DEF Same
  <2> QED BY <1>0, <1>1, <1>2, <2>1, StepAlone DEF CallPc, ForkPc, CopyPc, ReapPc
<1>6. \A d, n : StopAt(d, n)' = StopAt(d, n)
  BY <1>1, CalmStops
<1>7. TaskInv(t)'
  BY <1>1, <1>2, <1>3, RestInv, PagesAre DEF Hungry
<1>8. Tasks'
  BY <1>0, <1>5, <1>7, TasksAgain
<1>9. t \in Spaces /\ t \in Spaces' /\ ~FreedStack(t) /\ ~FreedStack(t)'
  <2>1. t \in Spaces /\ ~FreedStack(t) /\ ~FreedStack(t)'
    BY <1>0, <1>2, <1>3, <1>8, Whole, WholeNext, SpaceOfATask
  <2>2. t \notin Reaped'
    BY <1>0, <1>2 DEF Reaped, TableFree, ReapPc
  <2> QED BY <1>1, <2>1, <2>2 DEF Spaces
<1>10. Calm(t, t)
  BY <1>1, <1>3, <1>6, <1>9 DEF Calm, InSpace, InCall, HasDir, IsStack, IsPage
<1>11. Pages'
  BY <1>0, <1>1, <1>5, <1>10, CalmPages
<1> QED BY <1>0, <1>1, <1>4, <1>8, <1>11 DEF HaltsOnlyWhenStarved, MemInv

(* The places after sys_wait has taken a zombie's space in hand.           *)
LEMMA TakenOver ==
  ASSUME NEW CONSTANT z \in Task, NEW CONSTANT t \in Task,
         \A x \in Task : \A n, p :
           /\ InSpace(x, n, p)' <=> InSpace(x, n, p) /\ x # z
           /\ InCall(x, n, p)' <=> IF x = t THEN InSpace(z, n, p) ELSE InCall(x, n, p)
           /\ IsStack(x, p)' <=> IsStack(x, p)
           /\ IsPage(x, p)' <=> IsPage(x, p),
         lost' = lost
  PROVE  SpaceToCall(z, t)
<1>1. ASSUME NEW CONSTANT k, NEW CONSTANT x, NEW CONSTANT n, NEW CONSTANT p
      PROVE  Owns(k, x, n, p)' <=>
               IF k = "call" /\ x = t THEN Owns("space", z, n, p)
               ELSE Owns(k, x, n, p) /\ ~(k = "space" /\ x = z)
  <2>1. Owns("space", z, n, p) <=> InSpace(z, n, p)
    BY Owners
  <2>2. CASE x \in Task
    <3>1. /\ InSpace(x, n, p)' <=> InSpace(x, n, p) /\ x # z
          /\ InCall(x, n, p)' <=> IF x = t THEN InSpace(z, n, p) ELSE InCall(x, n, p)
          /\ IsStack(x, p)' <=> IsStack(x, p)
          /\ IsPage(x, p)' <=> IsPage(x, p)
      BY <2>2
    <3>2. CASE k = "space"
      BY <3>1, <3>2, <2>1 DEF Owns
    <3>3. CASE k = "call"
      BY <3>1, <3>3, <2>1 DEF Owns
    <3>4. CASE k \notin {"space", "call"}
      BY <3>1, <3>4 DEF Owns
    <3> QED BY <3>2, <3>3, <3>4
  <2>3. CASE x \notin Task
    <3>1. x # z /\ x # t
      BY <2>3
    <3> QED BY <2>3, <3>1, PlacesAreTasks DEF Owns
  <2> QED BY <2>2, <2>3
<1> QED BY <1>1 DEF SpaceToCall

(* The space of a zombie is in the hands of its parent from now on.        *)
LEMMA WaitStep ==
  ASSUME MemInv, NEW CONSTANT t \in Task, wait(t), cr3[t] # BadDir, halted = "no"
  PROVE  MemInv'
<1>0. MemTypeOK /\ Tasks /\ Pages /\ TaskInv(t) /\ pc[t] = "user" /\ TableFree
  BY DEF Tasks, MemInv, wait, Goes
<1> DEFINE zombies == { z \in Slot : parent[z] = t /\ pc[z] = "zombie" }
<1>1. zombies \in SUBSET Nat /\ zombies # {}
  BY DEF wait, Slot
<1>2. PICK z \in Slot : z = Min(zombies) /\ pc[z] = "zombie" /\ z \in Task
  BY <1>1, MinIsLeast DEF Task
<1>3. PICK d : d = cr3[z]
  OBVIOUS
<1>4. /\ UNCHANGED << used, mem, cr3, esp0, heap_end, parent, page, todo, goal,
                      lost, starved, halted >>
      /\ pc' = [pc EXCEPT ![t] = "reap"] /\ child' = [child EXCEPT ![t] = z]
      /\ dir' = [dir EXCEPT ![t] = d] /\ at' = [at EXCEPT ![t] = 1]
  BY <1>2, <1>3 DEF wait, Goes, spaceVars, taskVars
<1> HIDE DEF zombies
<1>5. /\ cr3[t] \in Page /\ dir[t] = 0 /\ page[t] = 0 /\ z # t
      /\ d \in Page /\ d # 0 /\ dir[z] = 0 /\ page[z] = 0
  <2>1. TaskInv(z) /\ z # t
    BY <1>0, <1>2 DEF Tasks
  <2> QED BY <1>0, <1>2, <1>3, <2>1, PagesAre DEF TaskInv, Caller
<1>6. /\ t \in Spaces /\ z \in Spaces
  <2>1. z \notin Reaped
    BY <1>0 DEF Reaped, TableFree, ReapPc
  <2> QED BY <1>0, <1>2, <1>3, <1>5, <2>1, PagesAre, SpaceOfATask DEF Spaces
<1>7. d # cr3[t]
  <2>1. LastStop \in Stops /\ StopAt(cr3[t], LastStop) = cr3[t] /\ StopAt(d, LastStop) = d /\ cr3[t] # 0
    BY <1>5, PagesAre, LastStopIs, Sizes DEF Stops
  <2>2. InSpace(t, LastStop, cr3[t]) /\ InSpace(z, LastStop, d)
    BY <1>3, <1>5, <1>6, <2>1 DEF InSpace
  <2>3. Owns("space", t, LastStop, cr3[t]) /\ Owns("space", z, LastStop, d)
    BY <2>2, SpaceOwns
  <2> QED BY <1>0, <1>5, <2>3 DEF Pages, Apart
<1>8. /\ pc' \in [Task -> Pc] /\ pc'[t] = "reap" /\ \A u \in Task \ {t} : pc'[u] = pc[u]
      /\ child' \in [Task -> Slot \cup {NoTask}] /\ child'[t] = z
      /\ \A u \in Task \ {t} : child'[u] = child[u]
  BY <1>0, <1>4 DEF MemTypeOK, Pc
<1>9. /\ dir' \in [Task -> 0..PageCount] /\ dir'[t] = d /\ \A u \in Task \ {t} : dir'[u] = dir[u]
      /\ at' \in [Task -> 0..LastStop] /\ at'[t] = 1 /\ \A u \in Task \ {t} : at'[u] = at[u]
  <2>1. d \in 0..PageCount /\ 1 \in 0..LastStop
    BY <1>5, PagesAre, Sizes
  <2> QED BY <1>0, <1>4, <2>1 DEF MemTypeOK
<1>10. MemTypeOK'
  BY <1>0, <1>4, <1>8, <1>9 DEF MemTypeOK
<1>11. StepOf(t, z)
  <2>1. \A u \in Task \ {t, z} : Same(u)
    BY <1>4, <1>8, <1>9 DEF Same
  <2>2. \A u \in Task : pc[u] \in CallPc => child[u] # z
    BY <1>0, <1>2 DEF Tasks, TaskInv, Parental, TableFree, CallPc
  <2> QED BY <1>0, <1>2, <1>4, <1>5, <1>8, <2>1, <2>2
      DEF StepOf, CallPc, ForkPc, CopyPc, ReapPc
<1>12. \A e, n : StopAt(e, n)' = StopAt(e, n)
  BY <1>4, CalmStops
<1>13. TaskInv(t)'
  <2>1. Caller(t)'
    BY <1>4, <1>5, <1>7, <1>8, <1>9, Sizes DEF Caller, MapPc, Stops
  <2>2. Parental(t)'
    BY <1>2, <1>3, <1>4, <1>5, <1>8, <1>9 DEF Parental, ForkPc, CopyPc, ReapPc
  <2>3. Copying(t)' /\ Mapping(t)'
    BY <1>8 DEF Copying, Mapping, MapPc
  <2>4. Hungry(t)'
    BY <1>4, <1>5, <1>8, PagesAre DEF Hungry
  <2>5. SpaceKept(t)
    BY <1>4, <1>12 DEF SpaceKept
  <2>6. HeapRight(t)'
    BY <1>0, <1>4, <1>8, <2>5, HeapStays DEF TaskInv, MapPc
  <2> QED BY <2>1, <2>2, <2>3, <2>4, <2>6 DEF TaskInv
<1>14. TaskInv(z)'
  <2>1. pc'[z] = "zombie" /\ dir'[z] = 0 /\ page'[z] = 0 /\ cr3'[z] \in Page
    BY <1>2, <1>3, <1>4, <1>5, <1>8, <1>9
  <2>2. Hungry(z)'
    BY <2>1, PagesAre DEF Hungry
  <2> QED BY <2>1, <2>2, RestInv
<1>15. Tasks'
  BY <1>0, <1>2, <1>11, <1>13, <1>14, TasksAgain
<1>16. /\ t \in Spaces' /\ z \notin Spaces'
       /\ ~FreedStack(t) /\ ~FreedStack(t)' /\ ~FreedStack(z) /\ ~FreedStack(z)'
       /\ HasDir(t)' /\ From(t)' = 1 /\ ~HasDir(t) /\ ~HasDir(z) /\ ~HasDir(z)'
  <2>1. t \notin Reaped' /\ ~FreedStack(t) /\ ~FreedStack(t)' /\ ~FreedStack(z) /\ ~FreedStack(z)'
    BY <1>0, <1>2, <1>5, <1>8, <1>15, Whole, WholeNext
  <2>2. z \in Reaped'
    BY <1>8 DEF Reaped, ReapPc
  <2>3. t \in Spaces' /\ z \notin Spaces'
    BY <1>4, <1>6, <2>1, <2>2 DEF Spaces
  <2>4. HasDir(t)' /\ From(t)' = 1
    BY <1>4, <1>5, <1>7, <1>8, <1>9 DEF HasDir, From
  <2>5. ~HasDir(t) /\ ~HasDir(z) /\ ~HasDir(z)'
    <3>1. dir[t] = 0 /\ dir[z] = 0 /\ dir'[z] = 0
      BY <1>2, <1>5, <1>9
    <3> QED BY <3>1 DEF HasDir
  <2> QED BY <2>1, <2>3, <2>4, <2>5
<1>17. ASSUME NEW CONSTANT x \in Task, NEW CONSTANT n, NEW CONSTANT p
       PROVE  /\ InSpace(x, n, p)' <=> InSpace(x, n, p) /\ x # z
              /\ InCall(x, n, p)' <=> IF x = t THEN InSpace(z, n, p) ELSE InCall(x, n, p)
              /\ IsStack(x, p)' <=> IsStack(x, p)
              /\ IsPage(x, p)' <=> IsPage(x, p)
  <2>1. CASE x = t
    <3>1. InSpace(t, n, p)' <=> InSpace(t, n, p)
      BY <1>4, <1>6, <1>12, <1>16 DEF InSpace
    <3>2. InCall(t, n, p)' <=> InSpace(z, n, p)
      BY <1>3, <1>6, <1>9, <1>12, <1>16 DEF InSpace, InCall, Stops
    <3>3. (IsStack(t, p)' <=> IsStack(t, p)) /\ (IsPage(t, p)' <=> IsPage(t, p))
      BY <1>4, <1>16 DEF IsStack, IsPage
    <3> QED BY <1>5, <2>1, <3>1, <3>2, <3>3
  <2>2. CASE x = z
    <3>1. ~InSpace(z, n, p)' /\ ~InCall(z, n, p) /\ ~InCall(z, n, p)'
      BY <1>16 DEF InSpace, InCall
    <3>2. (IsStack(z, p)' <=> IsStack(z, p)) /\ (IsPage(z, p)' <=> IsPage(z, p))
      BY <1>4, <1>16 DEF IsStack, IsPage
    <3> QED BY <1>5, <2>2, <3>1, <3>2
  <2>3. CASE x \notin {t, z}
    BY <1>0, <1>2, <1>11, <2>3, OthersOwn
  <2> QED BY <2>1, <2>2, <2>3
<1>18. SpaceToCall(z, t)
  BY <1>2, <1>4, <1>17, TakenOver
<1>19. \A n, p : ~Owns("call", t, n, p)
  BY <1>16 DEF Owns, InCall
<1>20. Pages'
  BY <1>0, <1>4, <1>18, <1>19, TreeTaken
<1> QED BY <1>0, <1>4, <1>10, <1>15, <1>20 DEF HaltsOnlyWhenStarved, MemInv

(* The stack of the zombie is given back, and its slot.                    *)
LEMMA ReapStackStep ==
  ASSUME MemInv, NEW CONSTANT t \in Task, reap_stack(t), halted = "no"
  PROVE  MemInv'
<1>0. MemTypeOK /\ Tasks /\ Pages /\ TaskInv(t) /\ pc[t] = "reap_stack"
  BY DEF Tasks, MemInv, reap_stack
<1>1. PICK z \in Slot : z = child[t] /\ pc[z] = "zombie" /\ z \in Task /\ z # t
  BY <1>0 DEF TaskInv, Parental, ReapPc, Task
<1>2. PICK q : q = esp0[z]
  OBVIOUS
<1>3. /\ UNCHANGED << page, todo, goal, lost, starved, halted >>
      /\ pc' = [pc EXCEPT ![t] = "user", ![z] = "free"]
      /\ used' = used \ {q} /\ mem' = [mem EXCEPT ![q] = Empty]
      /\ cr3' = [cr3 EXCEPT ![z] = 0] /\ esp0' = [esp0 EXCEPT ![z] = 0]
      /\ heap_end' = [heap_end EXCEPT ![z] = NoHeap] /\ parent' = [parent EXCEPT ![z] = NoTask]
      /\ child' = [child EXCEPT ![t] = NoTask]
      /\ dir' = [dir EXCEPT ![t] = 0] /\ at' = [at EXCEPT ![t] = 0]
  BY <1>1, <1>2 DEF reap_stack, addr_free_page
<1>4. /\ cr3[t] \in Page /\ page[t] = 0 /\ dir[z] = 0 /\ page[z] = 0
      /\ \A u \in Task \ {t} : pc[u] \in CallPc => child[u] # z
      /\ z \in Reaped /\ ~FreedStack(z) /\ t \in Spaces /\ ~HasDir(t) /\ ~HasDir(z)
  <2>1. TaskInv(z)
    BY <1>0, <1>1 DEF Tasks
  <2>2. cr3[t] \in Page /\ page[t] = 0 /\ dir[z] = 0 /\ page[z] = 0
    BY <1>0, <1>1, <2>1 DEF TaskInv, Caller
  <2>3. \A u \in Task \ {t} : pc[u] \in CallPc => child[u] # z
    BY <1>0, <1>1 DEF Tasks, ChildrenApart, CallPc, ReapPc
  <2>4. z \in Reaped
    BY <1>0, <1>1 DEF Reaped, ReapPc
  <2>5. ~FreedStack(z) /\ t \in Spaces
    BY <1>0, <1>1, <2>2, Whole, SpaceOfATask
  <2> QED BY <1>0, <2>2, <2>3, <2>4, <2>5 DEF HasDir
<1>5. /\ pc' \in [Task -> Pc] /\ pc'[t] = "user" /\ pc'[z] = "free"
      /\ \A u \in Task \ {t, z} : pc'[u] = pc[u]
      /\ child' \in [Task -> Slot \cup {NoTask}] /\ \A u \in Task \ {t} : child'[u] = child[u]
  BY <1>0, <1>1, <1>3 DEF MemTypeOK, Pc
<1>6. /\ cr3' \in [Task -> -1..PageCount] /\ cr3'[z] = 0 /\ \A u \in Task \ {z} : cr3'[u] = cr3[u]
      /\ esp0' \in [Task -> 0..PageCount] /\ esp0'[z] = 0 /\ \A u \in Task \ {z} : esp0'[u] = esp0[u]
      /\ dir' \in [Task -> 0..PageCount] /\ dir'[t] = 0 /\ \A u \in Task \ {t} : dir'[u] = dir[u]
      /\ at' \in [Task -> 0..LastStop] /\ \A u \in Task \ {t} : at'[u] = at[u]
  <2>1. 0 \in -1..PageCount /\ 0 \in 0..PageCount /\ 0 \in 0..LastStop
    BY Sizes, MemoryAssumption
  <2> QED BY <1>0, <1>1, <1>3, <2>1 DEF MemTypeOK
<1>7. /\ heap_end' \in [Task -> -1..UserSize] /\ \A u \in Task \ {z} : heap_end'[u] = heap_end[u]
      /\ parent' \in [Task -> Task \cup {NoTask}]
  <2>1. NoHeap \in -1..UserSize
    BY Sizes, MemoryAssumption DEF NoHeap, UserSize
  <2> QED BY <1>0, <1>1, <1>3, <2>1 DEF MemTypeOK
<1>8. mem' \in [Page -> [Entry -> 0..PageCount]] /\ \A p \in Page : p # q => mem'[p] = mem[p]
  BY <1>0, <1>3, ClearedPage
<1>9. MemTypeOK'
  BY <1>0, <1>3, <1>5, <1>6, <1>7, <1>8 DEF MemTypeOK
<1>10. q # 0 => Owns("stack", z, 0, q)
  BY <1>1, <1>2, <1>4, StackOwns DEF IsStack
<1>11. \A p : mem'[p] = mem[p] \/ \A u, n : ~InSpace(u, n, p) /\ ~InCall(u, n, p)
  <2>1. \A p : p \notin Page => p \notin used
    BY <1>0 DEF MemTypeOK
  <2>2. \A u, n : ~InSpace(u, n, q) /\ ~InCall(u, n, q)
    <3>1. CASE q = 0
      BY <3>1 DEF InSpace, InCall
    <3>2. CASE q # 0
      BY <1>0, <1>10, <3>2, OwnedOnce
    <3> QED BY <3>1, <3>2
  <2> QED BY <1>0, <1>8, <2>1, <2>2, FreeIsNobodys
<1>12. StepOf(t, z)
  <2>1. \A u \in Task \ {t, z} : Same(u)
    BY <1>3, <1>5, <1>6, <1>7 DEF Same
  <2> QED BY <1>0, <1>1, <1>3, <1>4, <1>5, <1>11, <2>1 DEF StepOf, CallPc, ForkPc, CopyPc, ReapPc
<1>13. SpaceKept(t)
  BY <1>1, <1>4, <1>6, <1>11, SpaceStays DEF SpaceKept
<1>14. TaskInv(t)'
  <2>1. pc'[t] = "user" /\ dir'[t] = 0 /\ page'[t] = 0 /\ cr3'[t] \in Page
    BY <1>1, <1>3, <1>4, <1>5, <1>6
  <2>2. Hungry(t)'
    BY <2>1, PagesAre DEF Hungry
  <2>3. HeapRight(t)'
    BY <1>0, <1>1, <1>3, <1>5, <1>6, <1>7, <1>13, HeapStays DEF TaskInv, MapPc
  <2> QED BY <2>1, <2>2, <2>3, RestInv
<1>15. TaskInv(z)'
  <2>1. pc'[z] = "free" /\ dir'[z] = 0 /\ page'[z] = 0 /\ cr3'[z] = 0 /\ esp0'[z] = 0
    BY <1>1, <1>3, <1>4, <1>5, <1>6
  <2>2. Hungry(z)'
    BY <2>1 DEF Hungry, BadDir
  <2> QED BY <2>1, <2>2, RestInv
<1>16. Tasks'
  BY <1>0, <1>1, <1>12, <1>14, <1>15, TasksAgain
<1>17. /\ \A n, p : InSpace(t, n, p)' <=> InSpace(t, n, p)
       /\ \A p : IsStack(t, p)' <=> IsStack(t, p)
  BY <1>0, <1>1, <1>4, <1>5, <1>6, <1>13, <1>16, PlacesStay
<1>18. \A n, p : /\ ~InSpace(z, n, p) /\ ~InSpace(z, n, p)'
                 /\ ~InCall(z, n, p) /\ ~InCall(z, n, p)' /\ ~InCall(t, n, p) /\ ~InCall(t, n, p)'
                 /\ ~IsPage(t, p) /\ ~IsPage(t, p)' /\ ~IsPage(z, p) /\ ~IsPage(z, p)'
                 /\ ~IsStack(z, p)' /\ (IsStack(z, p) <=> p = q /\ q # 0)
  <2>1. z \notin Spaces /\ z \notin Spaces' /\ ~HasDir(t)' /\ ~HasDir(z)'
    BY <1>1, <1>4, <1>6 DEF Spaces, HasDir
  <2> QED BY <1>1, <1>2, <1>3, <1>4, <1>6, <2>1 DEF InSpace, InCall, IsPage, IsStack
<1>19. CASE q = 0
  <2>1. used' = used
    BY <1>0, <1>3, <1>19, PagesAre DEF MemTypeOK
  <2>2. Calm(t, z)
    BY <1>17, <1>18, <1>19 DEF Calm
  <2>3. Pages'
    BY <1>0, <1>1, <1>3, <1>12, <2>1, <2>2, CalmPages
  <2> QED BY <1>0, <1>3, <1>9, <1>16, <2>3 DEF HaltsOnlyWhenStarved, MemInv
<1>20. CASE q # 0
  <2>1. \A n : ~InSpace(t, n, q) /\ ~IsStack(t, q)
    BY <1>0, <1>1, <1>10, <1>20, OwnedOnce
  <2>2. Gives(t, z, q)
    BY <1>17, <1>18, <2>1 DEF Gives
  <2>3. Owns("stack", z, 0, q) /\ used' = used \ {q} /\ lost' = lost
    BY <1>3, <1>10, <1>20
  <2>4. Pages'
    BY <1>0, <1>1, <1>12, <2>2, <2>3, GivenPage
  <2> QED BY <1>0, <1>3, <1>9, <1>16, <2>4 DEF HaltsOnlyWhenStarved, MemInv
<1> QED BY <1>19, <1>20
------------------------------------------------------------------------------
(* Steps that stop the kernel, or only make a note of something.           *)
LEMMA NothingMoves ==
  ASSUME Tasks, Pages, starved => starved',
         UNCHANGED << spaceVars, taskVars, pc, callVars, lost >>
  PROVE  Tasks' /\ Pages'
<1>1. /\ UNCHANGED << used, mem, cr3, esp0, heap_end, parent, pc, child, dir, at, page, todo, goal, lost >>
  BY DEF spaceVars, taskVars, callVars
<1>2. \A d, n : StopAt(d, n)' = StopAt(d, n)
  BY <1>1, CalmStops
<1>3. ASSUME NEW CONSTANT u \in Task PROVE TaskInv(u)'
  <2>1. Same(u) /\ SpaceKept(u) /\ CallKept(u)
    BY <1>1, <1>2 DEF Same, SpaceKept, CallKept
  <2>2. pc[u] \in CopyPc => \A n \in Stops : StopAt(cr3[child[u]], n)' = StopAt(cr3[child[u]], n)
    BY <1>1, <1>2
  <2>3. pc'[child[u]] = pc[child[u]] /\ cr3'[child[u]] = cr3[child[u]] /\ esp0'[child[u]] = esp0[child[u]]
    BY <1>1
  <2> QED BY <2>1, <2>2, <2>3, TaskStays
<1>4. ChildrenApart' /\ OneReaper'
  BY <1>1 DEF Tasks, ChildrenApart, OneReaper
<1>5. \A x, n, p : /\ InSpace(x, n, p)' <=> InSpace(x, n, p)
                   /\ InCall(x, n, p)' <=> InCall(x, n, p)
                   /\ IsStack(x, p)' <=> IsStack(x, p)
                   /\ IsPage(x, p)' <=> IsPage(x, p)
  <2>1. Spaces' = Spaces
    BY <1>1 DEF Spaces, Reaped
  <2>2. \A x : /\ FreedStack(x)' <=> FreedStack(x)
               /\ HasDir(x)' <=> HasDir(x)
               /\ From(x)' = From(x)
    BY <1>1 DEF FreedStack, HasDir, From
  <2> QED BY <1>1, <1>2, <2>1, <2>2 DEF InSpace, InCall, IsStack, IsPage
<1>6. \A k, x, n, p : Owns(k, x, n, p)' <=> Owns(k, x, n, p)
  BY <1>1, <1>5 DEF Owns
<1>7. Pages'
  BY <1>1, <1>6, PagesSame
<1> QED BY <1>3, <1>4, <1>7 DEF Tasks

(* sys_execv without a page for the directory changes nothing.             *)
LEMMA ExecWithoutDirStep ==
  ASSUME MemInv, NEW CONSTANT t \in Task, exec_without_dir(t), halted = "no"
  PROVE  MemInv'
<1>1. /\ UNCHANGED << spaceVars, taskVars, pc, callVars, lost, halted >> /\ starved' = TRUE
      /\ MemTypeOK /\ Tasks /\ Pages
  BY DEF exec_without_dir, Exhausted, MemInv
<1>2. Tasks' /\ Pages'
  BY <1>1, NothingMoves
<1>3. MemTypeOK'
  BY <1>1 DEF MemTypeOK, spaceVars, taskVars, callVars
<1> QED BY <1>1, <1>2, <1>3 DEF MemInv, HaltsOnlyWhenStarved

(* sbrk outside the user's space stops the kernel, or runs out of memory.  *)
LEMMA SbrkOutsideStep ==
  ASSUME MemInv, NEW CONSTANT t \in Task, sbrk_outside(t), halted = "no"
  PROVE  MemInv'
<1>1. /\ UNCHANGED << spaceVars, taskVars, pc, callVars, lost >>
      /\ \/ halted' = "heap outside" /\ starved' = starved
         \/ halted' = "no" /\ starved' = TRUE
      /\ MemTypeOK /\ Tasks /\ Pages
  BY DEF sbrk_outside, Exhausted, MemInv
<1>2. starved => starved'
  BY <1>1
<1>4. Tasks' /\ Pages'
  BY <1>1, <1>2, NothingMoves
<1>3. MemTypeOK'
  BY <1>1 DEF MemTypeOK, Halts, spaceVars, taskVars, callVars
<1> QED BY <1>1, <1>3, <1>4 DEF MemInv, HaltsOnlyWhenStarved

(* The machine starts again only after memory had run out.                 *)
LEMMA ResetStep ==
  ASSUME MemInv, NEW CONSTANT t \in Task, Reset(t), halted = "no"
  PROVE  MemInv'
<1>1. /\ UNCHANGED << spaceVars, taskVars, pc, callVars, lost, starved >> /\ halted' = "reset"
      /\ MemTypeOK /\ Tasks /\ Pages
  BY DEF Reset, MemInv
<1>2. Tasks' /\ Pages'
  BY <1>1, NothingMoves
<1>3. MemTypeOK'
  BY <1>1 DEF MemTypeOK, Halts, spaceVars, taskVars, callVars
<1>4. starved
  BY <1>1 DEF Reset, Tasks, TaskInv, Hungry
<1> QED BY <1>1, <1>2, <1>3, <1>4 DEF MemInv, HaltsOnlyWhenStarved

(* A step that changes nothing.                                            *)
LEMMA NothingChanges ==
  ASSUME MemInv, UNCHANGED vars
  PROVE  MemInv'
<1>1. UNCHANGED << spaceVars, taskVars, pc, callVars, lost, starved, halted >>
  BY DEF vars
<1>2. halted # "freed twice" => Tasks' /\ Pages'
  BY <1>1, NothingMoves DEF MemInv
<1>3. MemTypeOK'
  BY <1>1 DEF MemInv, MemTypeOK, spaceVars, taskVars, callVars
<1> QED BY <1>1, <1>2, <1>3 DEF MemInv, HaltsOnlyWhenStarved
------------------------------------------------------------------------------
(* A call that has nothing in hand, and takes or gives no page.            *)
LEMMA CalmAlone ==
  ASSUME Tasks, Pages, NEW CONSTANT t \in Task,
         pc[t] \notin {"free", "new", "zombie"} \cup CallPc,
         pc'[t] \notin {"free", "new", "zombie"} \cup CallPc,
         \A u \in Task \ {t} : Same(u), used' = used, mem' = mem, lost' = lost,
         starved => starved', cr3'[t] = cr3[t], cr3[t] \in Page, esp0'[t] = esp0[t],
         page'[t] = page[t], ~HasDir(t), ~HasDir(t)', TaskInv(t)'
  PROVE  Tasks' /\ Pages'
<1>1. StepOf(t, t)
  BY StepAlone
<1>2. Tasks'
  BY <1>1, TasksAgain
<1>3. SpaceKept(t)
  BY CalmStops DEF SpaceKept
<1>4. /\ \A n, p : InSpace(t, n, p)' <=> InSpace(t, n, p)
      /\ \A p : IsStack(t, p)' <=> IsStack(t, p)
  BY <1>2, <1>3, PlacesStay
<1>5. Calm(t, t)
  BY <1>4 DEF Calm, InCall, IsPage
<1>6. Pages'
  BY <1>1, <1>5, CalmPages
<1> QED BY <1>2, <1>6

(* The pages that hold the first n bytes: the fewest that are enough.      *)
LEMMA PagesInIs ==
  ASSUME NEW n \in Nat
  PROVE  /\ PagesIn(n) \in Nat
         /\ \A k \in Nat : PagesIn(n) <= k <=> n <= PageSize * k
<1>1. PageSize \in Nat \ {0} /\ n + PageSize - 1 \in Nat
  BY MemoryAssumption
<1>2. PICK q \in Nat, r \in 0..(PageSize - 1) :
        n + PageSize - 1 = PageSize * q + r /\ (n + PageSize - 1) \div PageSize = q
  BY <1>1, QuotientExists
<1>3. PagesIn(n) = q
  BY <1>2 DEF PagesIn
<1>4. ASSUME NEW k \in Nat PROVE q <= k <=> n <= PageSize * k
  <2>1. PageSize * q \in Nat /\ PageSize * k \in Nat /\ PageSize * (k + 1) = PageSize * k + PageSize
    BY <1>1
  <2>2. q <= k => PageSize * q <= PageSize * k
    BY <1>1, ProductMonotonic
  <2>3. k + 1 <= q => PageSize * (k + 1) <= PageSize * q
    BY <1>1, ProductMonotonic
  <2>4. q <= k \/ k + 1 <= q
    OBVIOUS
  <2> HIDE <1>4
  <2>5. CASE q <= k
    BY <1>1, <1>2, <2>1, <2>2, <2>5
  <2>6. CASE k + 1 <= q
    BY <1>1, <1>2, <2>1, <2>3, <2>6
  <2> QED BY <2>4, <2>5, <2>6
<1> QED BY <1>3, <1>4

(* The heap and the stack are in the user's space, one below the other.    *)
LEMMA HeapSizes ==
  /\ PageSize \in Nat \ {0} /\ HeapTop \in Nat /\ UserSize \in Nat /\ HeapTop <= UserSize
  /\ StackFrom \in VPage /\ StackFrom - 1 \in Nat \ {0} /\ VPages \in VPage
  /\ HeapTop = PageSize * (StackFrom - 1) /\ UserSize = PageSize * VPages
  /\ NoHeap \in -1..UserSize
<1>1. PageSize \in Nat \ {0} /\ VPages \in Nat /\ StackPages \in 1..(VPages - 1)
  BY MemoryAssumption, Sizes
<1>2. /\ StackFrom \in VPage /\ StackFrom - 1 \in Nat \ {0} /\ StackFrom - 1 <= VPages
      /\ VPages \in VPage
  BY <1>1 DEF StackFrom, VPage
<1>3. /\ (StackFrom - 1) * PageSize \in Nat /\ VPages * PageSize \in Nat
      /\ (StackFrom - 1) * PageSize <= VPages * PageSize
  BY <1>1, <1>2, ProductMonotonic
<1>4. /\ (StackFrom - 1) * PageSize = PageSize * (StackFrom - 1)
      /\ VPages * PageSize = PageSize * VPages
  BY <1>1, <1>2
<1> QED BY <1>1, <1>2, <1>3, <1>4 DEF HeapTop, UserSize, NoHeap

(* The pages of a heap are below the stack.                                *)
LEMMA HeapPages ==
  ASSUME NEW n \in 0..HeapTop
  PROVE  n \in Nat /\ PagesIn(n) \in 0..(StackFrom - 1) /\ (n # 0 => PagesIn(n) # 0)
<1>1. n \in Nat
  BY HeapSizes
<1>2. PagesIn(n) \in Nat /\ (PagesIn(n) <= StackFrom - 1 <=> n <= PageSize * (StackFrom - 1))
  BY <1>1, HeapSizes, PagesInIs
<1>3. PagesIn(n) <= 0 <=> n <= PageSize * 0
  BY <1>1, PagesInIs
<1> QED BY <1>1, <1>2, <1>3, HeapSizes

(* sys_sbrk in the last page, and over the next page boundary.             *)
LEMMA SamePages ==
  ASSUME NEW n \in Nat, NEW k \in Nat, n % PageSize # 0, (n % PageSize) + k <= PageSize
  PROVE  /\ PagesIn(n + k) = PagesIn(n)
         /\ \A m \in Nat : n <= PageSize * m => n + k <= PageSize * m
<1>1. PICK q \in Nat, r \in 0..(PageSize - 1) : n = PageSize * q + r /\ n % PageSize = r
  BY MemoryAssumption, QuotientExists
<1>2. PageSize \in Nat \ {0} /\ PageSize * q \in Nat
  BY MemoryAssumption
<1>3. r # 0 /\ r + k <= PageSize
  BY <1>1
<1>4. ASSUME NEW m \in Nat, n <= PageSize * m PROVE n + k <= PageSize * m
  <2>1. PageSize * m \in Nat /\ PageSize * (q + 1) = PageSize * q + PageSize
    BY <1>2
  <2>2. m <= q => PageSize * m <= PageSize * q
    BY <1>2, ProductMonotonic
  <2>3. q + 1 <= m => PageSize * (q + 1) <= PageSize * m
    BY <1>2, ProductMonotonic
  <2>4. CASE m <= q
    BY <1>1, <1>2, <1>3, <1>4, <2>1, <2>2, <2>4
  <2>5. CASE q + 1 <= m
    BY <1>1, <1>2, <1>3, <2>1, <2>3, <2>5
  <2> QED BY <2>4, <2>5
<1>5. /\ PagesIn(n) \in Nat /\ PagesIn(n + k) \in Nat
      /\ \A m \in Nat : PagesIn(n) <= m <=> n <= PageSize * m
      /\ \A m \in Nat : PagesIn(n + k) <= m <=> n + k <= PageSize * m
  BY PagesInIs
<1>6. PagesIn(n + k) <= PagesIn(n)
  BY <1>4, <1>5
<1>7. PagesIn(n) <= PagesIn(n + k)
  <2>1. PageSize * PagesIn(n + k) \in Nat
    BY <1>2, <1>5
  <2>2. n + k <= PageSize * PagesIn(n + k)
    BY <1>5
  <2>3. n <= PageSize * PagesIn(n + k)
    BY <2>1, <2>2
  <2> QED BY <1>5, <2>3
<1> QED BY <1>4, <1>5, <1>6, <1>7

(* Over a page boundary there are more pages.                              *)
LEMMA MorePages ==
  ASSUME NEW n \in Nat, NEW k \in Nat \ {0}, n % PageSize = 0 \/ (n % PageSize) + k > PageSize
  PROVE  PagesIn(n) + 1 <= PagesIn(n + k)
<1>1. PICK q \in Nat, r \in 0..(PageSize - 1) : n = PageSize * q + r /\ n % PageSize = r
  BY MemoryAssumption, QuotientExists
<1>2. PageSize \in Nat \ {0} /\ PageSize * q \in Nat /\ PageSize * (q + 1) = PageSize * q + PageSize
  BY MemoryAssumption
<1>3. /\ PagesIn(n) \in Nat /\ PagesIn(n + k) \in Nat /\ q + 1 \in Nat
      /\ \A m \in Nat : PagesIn(n) <= m <=> n <= PageSize * m
      /\ \A m \in Nat : PagesIn(n + k) <= m <=> n + k <= PageSize * m
  BY PagesInIs
<1>4. CASE r = 0
  <2>1. PagesIn(n) <= q /\ ~ (PagesIn(n + k) <= q)
    BY <1>1, <1>2, <1>3, <1>4
  <2> QED BY <1>3, <2>1
<1>5. CASE r # 0
  <2>1. r + k > PageSize
    BY <1>1, <1>5
  <2>2. n <= PageSize * (q + 1)
    BY <1>1, <1>2
  <2>3. ~ (n + k <= PageSize * (q + 1))
    BY <1>1, <1>2, <2>1
  <2>4. PagesIn(n) <= q + 1 /\ ~ (PagesIn(n + k) <= q + 1)
    BY <1>3, <2>2, <2>3
  <2> QED BY <1>3, <2>4
<1> QED BY <1>4, <1>5
------------------------------------------------------------------------------
(* sbrk within the last page maps nothing.                                 *)
LEMMA SbrkInPageStep ==
  ASSUME MemInv, NEW CONSTANT t \in Task, NEW CONSTANT incr \in 1..MaxIncr,
         sbrk_in_page(t, incr), cr3[t] # BadDir, halted = "no"
  PROVE  MemInv'
<1>0. MemTypeOK /\ Tasks /\ Pages /\ TaskInv(t) /\ pc[t] = "user" /\ heap_end[t] # NoHeap
  BY DEF Tasks, MemInv, sbrk_in_page
<1>1. PICK h : h = heap_end[t]
  OBVIOUS
<1>2. /\ h % PageSize # 0 /\ (h % PageSize) + incr <= PageSize
      /\ heap_end' = [heap_end EXCEPT ![t] = h + incr]
      /\ UNCHANGED << used, mem, cr3, esp0, parent, pc, child, dir, at, page, todo, goal,
                      lost, starved, halted >>
  BY <1>1 DEF sbrk_in_page, spaceVars, callVars
<1>3. h \in Nat /\ h <= UserSize /\ incr \in Nat /\ h + incr \in Nat
  <2>1. h \in -1..UserSize /\ h # -1
    BY <1>0, <1>1 DEF MemTypeOK, NoHeap
  <2> QED BY <2>1, HeapSizes, MemoryAssumption
<1>4. /\ PagesIn(h + incr) = PagesIn(h)
      /\ h + incr <= UserSize
      /\ h <= HeapTop => h + incr <= HeapTop
  <2>1. /\ PagesIn(h + incr) = PagesIn(h)
        /\ \A m \in Nat : h <= PageSize * m => h + incr <= PageSize * m
    BY <1>2, <1>3, SamePages
  <2>2. VPages \in Nat /\ StackFrom - 1 \in Nat
    BY HeapSizes, Sizes
  <2> QED BY <1>3, <2>1, <2>2, HeapSizes
<1>5. /\ heap_end' \in [Task -> -1..UserSize] /\ heap_end'[t] = h + incr
      /\ \A u \in Task \ {t} : heap_end'[u] = heap_end[u]
  <2>1. h + incr \in -1..UserSize
    BY <1>3, <1>4, HeapSizes
  <2> QED BY <1>0, <1>2, <2>1 DEF MemTypeOK
<1>6. MemTypeOK'
  BY <1>0, <1>2, <1>5 DEF MemTypeOK
<1>7. cr3[t] \in Page /\ dir[t] = 0 /\ page[t] = 0
  BY <1>0 DEF TaskInv, Caller
<1>8. HeapRight(t)'
  <2>1. SUFFICES ASSUME ~starved
                 PROVE  /\ heap_end'[t] \in 0..HeapTop
                        /\ \A v \in VPage : FrameIn(cr3[t], v)' # 0 <=> InUse(heap_end[t], v)'
    BY <1>0, <1>2 DEF HeapRight, MapPc
  <2>2. h \in 0..HeapTop /\ \A v \in VPage : FrameIn(cr3[t], v) # 0 <=> InUse(h, v)
    BY <1>0, <1>1, <2>1 DEF TaskInv, HeapRight, MapPc
  <2>3. heap_end'[t] \in 0..HeapTop
    BY <1>3, <1>4, <1>5, <2>2, HeapSizes
  <2>4. \A v \in VPage : FrameIn(cr3[t], v)' = FrameIn(cr3[t], v)
    BY <1>2, CalmStops DEF FrameIn
  <2>5. \A v \in VPage : InUse(heap_end[t], v)' <=> InUse(h, v)
    BY <1>4, <1>5 DEF InUse
  <2> QED BY <2>2, <2>3, <2>4, <2>5
<1>9. TaskInv(t)'
  <2>1. pc'[t] = "user" /\ dir'[t] = 0 /\ page'[t] = 0 /\ cr3'[t] \in Page
    BY <1>0, <1>2, <1>7
  <2>2. Hungry(t)'
    BY <2>1, PagesAre DEF Hungry
  <2> QED BY <1>8, <2>1, <2>2, RestInv
<1>10. Tasks' /\ Pages'
  <2>1. \A u \in Task \ {t} : Same(u)
    BY <1>2, <1>5 DEF Same
  <2>2. ~HasDir(t) /\ ~HasDir(t)'
    BY <1>2, <1>7 DEF HasDir
  <2>3. pc[t] \notin {"free", "new", "zombie"} \cup CallPc /\ pc'[t] = pc[t]
    BY <1>0, <1>2 DEF CallPc, ForkPc, CopyPc, ReapPc
  <2> QED BY <1>0, <1>2, <1>7, <1>9, <2>1, <2>2, <2>3, CalmAlone
<1> QED BY <1>0, <1>2, <1>6, <1>10 DEF HaltsOnlyWhenStarved, MemInv

(* A range of pages that is still to be mapped.                            *)
LEMMA OneRange ==
  ASSUME NEW a \in VPage, NEW b \in VPage, a <= b
  PROVE  /\ << <<a, b>> >> \in Ranges /\ << <<a, b>> >> \in Seq(VPage \X VPage)
         /\ << <<a, b>> >> # <<>>
         /\ \A v : Pending(<< <<a, b>> >>, v) <=> a <= v /\ v <= b
BY DEF Ranges, Pending

(* No range has no page.                                                   *)
LEMMA NoRange ==
  /\ <<>> \in Ranges /\ <<>> \in Seq(VPage \X VPage)
  /\ \A v : ~Pending(<<>>, v)
BY DEF Ranges, Pending

(* sbrk over a page boundary begins to map pages.                          *)
LEMMA SbrkPagesStep ==
  ASSUME MemInv, NEW CONSTANT t \in Task, NEW CONSTANT incr \in 1..MaxIncr,
         sbrk_pages(t, incr), cr3[t] # BadDir, halted = "no"
  PROVE  MemInv'
<1>0. MemTypeOK /\ Tasks /\ Pages /\ TaskInv(t) /\ pc[t] = "user" /\ heap_end[t] # NoHeap
  BY DEF Tasks, MemInv, sbrk_pages, Goes
<1>1. PICK h : h = heap_end[t]
  OBVIOUS
<1>2. PICK end : end = h + incr
  OBVIOUS
<1>3. PICK r : r = << PagesBetween(h, end) >>
  OBVIOUS
<1>4. /\ h % PageSize = 0 \/ (h % PageSize) + incr > PageSize
      /\ end <= HeapTop
      /\ pc' = [pc EXCEPT ![t] = "map"] /\ dir' = [dir EXCEPT ![t] = cr3[t]]
      /\ todo' = [todo EXCEPT ![t] = r] /\ goal' = [goal EXCEPT ![t] = end]
      /\ UNCHANGED << used, mem, cr3, esp0, heap_end, parent, child, at, page, lost, starved, halted >>
  BY <1>1, <1>2, <1>3 DEF sbrk_pages, Goes, spaceVars, taskVars, HeapTop
<1>5. h \in 0..HeapTop /\ h \in Nat /\ incr \in Nat \ {0} /\ end \in 0..HeapTop /\ end # 0
      /\ end \in -1..UserSize
  <2>1. h \in -1..UserSize /\ h # -1
    BY <1>0, <1>1 DEF MemTypeOK, NoHeap
  <2> QED BY <1>2, <1>4, <2>1, HeapSizes, MemoryAssumption
<1>6. PICK a, b : a = PagesIn(h) + 1 /\ b = PagesIn(end)
  OBVIOUS
<1>7. /\ a \in VPage /\ b \in VPage /\ a <= b /\ b <= StackFrom - 1 /\ r = << <<a, b>> >>
      /\ PagesIn(h) \in Nat
  <2>1. PagesIn(h) \in 0..(StackFrom - 1) /\ b \in 0..(StackFrom - 1)
    BY <1>5, <1>6, HeapPages
  <2>2. a <= b
    BY <1>2, <1>4, <1>5, <1>6, MorePages
  <2>3. r = << <<a, b>> >>
    BY <1>3, <1>6 DEF PagesBetween
  <2> QED BY <1>6, <2>1, <2>2, <2>3, HeapSizes DEF VPage
<1>8. /\ r \in Ranges /\ r \in Seq(VPage \X VPage) /\ r # <<>>
      /\ \A v : Pending(r, v) <=> a <= v /\ v <= b
  BY <1>7, OneRange
<1>9. cr3[t] \in Page /\ dir[t] = 0 /\ page[t] = 0
  BY <1>0 DEF TaskInv, Caller
<1>10. /\ pc' \in [Task -> Pc] /\ pc'[t] = "map" /\ \A u \in Task \ {t} : pc'[u] = pc[u]
       /\ dir' \in [Task -> 0..PageCount] /\ dir'[t] = cr3[t] /\ \A u \in Task \ {t} : dir'[u] = dir[u]
  BY <1>0, <1>4, <1>9, PagesAre DEF MemTypeOK, Pc
<1>11. /\ todo' \in [Task -> Seq(VPage \X VPage)] /\ todo'[t] = r
       /\ \A u \in Task \ {t} : todo'[u] = todo[u]
       /\ goal' \in [Task -> -1..UserSize] /\ goal'[t] = end
       /\ \A u \in Task \ {t} : goal'[u] = goal[u]
  BY <1>0, <1>4, <1>5, <1>8 DEF MemTypeOK
<1>12. MemTypeOK'
  BY <1>0, <1>4, <1>10, <1>11 DEF MemTypeOK
<1>13. HeapRight(t)'
  <2>1. SUFFICES ASSUME ~starved
                 PROVE  \A v \in VPage :
                          /\ FrameIn(cr3[t], v) # 0 \/ Pending(r, v) <=> InUse(end, v)
                          /\ Pending(r, v) => FrameIn(cr3[t], v) = 0
    <3>1. \A v \in VPage : FrameIn(dir[t], v)' = FrameIn(cr3[t], v)
      BY <1>4, <1>10, CalmStops DEF FrameIn
    <3>2. \A v \in VPage : (Pending(todo[t], v)' <=> Pending(r, v)) /\ (InUse(goal[t], v)' <=> InUse(end, v))
      BY <1>11 DEF Pending, InUse
    <3>3. pc'[t] \in MapPc /\ goal'[t] \in 0..HeapTop /\ todo'[t] # <<>> /\ starved' = starved
      BY <1>4, <1>5, <1>8, <1>10, <1>11 DEF MapPc
    <3> QED BY <2>1, <3>1, <3>2, <3>3 DEF HeapRight
  <2>2. \A v \in VPage : FrameIn(cr3[t], v) # 0 <=> v <= PagesIn(h) \/ v >= StackFrom
    BY <1>0, <1>1, <2>1 DEF TaskInv, HeapRight, MapPc, InUse
  <2>3. \A v \in VPage : InUse(end, v) <=> v <= b \/ v >= StackFrom
    BY <1>6 DEF InUse
  <2> QED BY <1>6, <1>7, <1>8, <2>2, <2>3, HeapSizes DEF VPage
<1>14. TaskInv(t)'
  <2>1. Caller(t)'
    BY <1>4, <1>9, <1>10 DEF Caller, MapPc
  <2>2. Parental(t)' /\ Copying(t)'
    BY <1>10 DEF Parental, Copying, ForkPc, CopyPc, ReapPc
  <2>3. Mapping(t)'
    BY <1>8, <1>10, <1>11 DEF Mapping
  <2>4. Hungry(t)'
    BY <1>4, <1>9, <1>10, PagesAre DEF Hungry
  <2> QED BY <1>13, <2>1, <2>2, <2>3, <2>4 DEF TaskInv
<1>15. Tasks' /\ Pages'
  <2>1. \A u \in Task \ {t} : Same(u)
    BY <1>4, <1>10, <1>11 DEF Same
  <2>2. ~HasDir(t) /\ ~HasDir(t)'
    BY <1>4, <1>9, <1>10 DEF HasDir
  <2>3. pc[t] \notin {"free", "new", "zombie"} \cup CallPc /\ pc'[t] \notin {"free", "new", "zombie"} \cup CallPc
    BY <1>0, <1>10 DEF CallPc, ForkPc, CopyPc, ReapPc
  <2> QED BY <1>0, <1>4, <1>9, <1>14, <2>1, <2>2, <2>3, CalmAlone
<1> QED BY <1>0, <1>4, <1>12, <1>15 DEF HaltsOnlyWhenStarved, MemInv

(* The end of sbrk.                                                        *)
LEMMA SbrkEndsStep ==
  ASSUME MemInv, NEW CONSTANT t \in Task, sbrk_ends(t), halted = "no"
  PROVE  MemInv'
<1>0. /\ MemTypeOK /\ Tasks /\ Pages /\ TaskInv(t) /\ pc[t] = "map" /\ dir[t] = cr3[t] /\ todo[t] = <<>>
      /\ pc' = [pc EXCEPT ![t] = "user"] /\ dir' = [dir EXCEPT ![t] = 0]
      /\ goal' = [goal EXCEPT ![t] = NoHeap]
      /\ UNCHANGED << used, mem, cr3, esp0, heap_end, parent, child, at, page, todo, lost, starved, halted >>
  BY DEF Tasks, MemInv, sbrk_ends, Goes, spaceVars, taskVars
<1>1. /\ pc' \in [Task -> Pc] /\ pc'[t] = "user" /\ \A u \in Task \ {t} : pc'[u] = pc[u]
      /\ dir' \in [Task -> 0..PageCount] /\ dir'[t] = 0 /\ \A u \in Task \ {t} : dir'[u] = dir[u]
      /\ goal' \in [Task -> -1..UserSize] /\ \A u \in Task \ {t} : goal'[u] = goal[u]
  <2>1. 0 \in 0..PageCount
    BY MemoryAssumption
  <2> QED BY <1>0, <2>1, HeapSizes DEF MemTypeOK, Pc
<1>2. MemTypeOK'
  BY <1>0, <1>1 DEF MemTypeOK
<1>3. cr3[t] \in Page /\ page[t] = 0
  BY <1>0 DEF TaskInv, Caller, MapPc
<1>4. HeapRight(t)'
  <2>1. SUFFICES ASSUME ~starved
                 PROVE  /\ heap_end[t] \in 0..HeapTop
                        /\ \A v \in VPage : FrameIn(cr3[t], v) # 0 <=> InUse(heap_end[t], v)
    <3>1. \A v \in VPage : FrameIn(cr3[t], v)' = FrameIn(cr3[t], v)
      BY <1>0, CalmStops DEF FrameIn
    <3> QED BY <1>0, <1>1, <2>1, <3>1 DEF HeapRight, MapPc, InUse
  <2>2. heap_end[t] = goal[t] /\ goal[t] \in 0..HeapTop
        /\ \A v \in VPage : FrameIn(dir[t], v) # 0 \/ Pending(todo[t], v) <=> InUse(goal[t], v)
    BY <1>0, <2>1 DEF TaskInv, HeapRight, MapPc
  <2>3. \A v : ~Pending(todo[t], v)
    BY <1>0, NoRange
  <2> QED BY <1>0, <2>2, <2>3
<1>5. TaskInv(t)'
  <2>1. pc'[t] = "user" /\ dir'[t] = 0 /\ page'[t] = 0 /\ cr3'[t] \in Page
    BY <1>0, <1>1, <1>3
  <2>2. Hungry(t)'
    BY <2>1, PagesAre DEF Hungry
  <2> QED BY <1>4, <2>1, <2>2, RestInv
<1>6. Tasks' /\ Pages'
  <2>1. \A u \in Task \ {t} : Same(u)
    BY <1>0, <1>1 DEF Same
  <2>2. ~HasDir(t) /\ ~HasDir(t)'
    BY <1>0, <1>1 DEF HasDir
  <2>3. pc[t] \notin {"free", "new", "zombie"} \cup CallPc /\ pc'[t] \notin {"free", "new", "zombie"} \cup CallPc
    BY <1>0, <1>1 DEF CallPc, ForkPc, CopyPc, ReapPc
  <2> QED BY <1>0, <1>3, <1>5, <2>1, <2>2, <2>3, CalmAlone
<1> QED BY <1>0, <1>2, <1>6 DEF HaltsOnlyWhenStarved, MemInv

(* The end of an execve that has failed.                                   *)
LEMMA ExecFailedStep ==
  ASSUME MemInv, NEW CONSTANT t \in Task, exec_failed(t), halted = "no"
  PROVE  MemInv'
<1>0. /\ MemTypeOK /\ Tasks /\ Pages /\ TaskInv(t) /\ pc[t] = "exec_failed"
      /\ pc' = [pc EXCEPT ![t] = "user"] /\ dir' = [dir EXCEPT ![t] = 0]
      /\ goal' = [goal EXCEPT ![t] = NoHeap] /\ todo' = [todo EXCEPT ![t] = <<>>]
      /\ UNCHANGED << used, mem, cr3, esp0, heap_end, parent, child, at, page, lost, starved, halted >>
  BY DEF Tasks, MemInv, exec_failed, Goes, spaceVars, taskVars
<1>1. /\ pc' \in [Task -> Pc] /\ pc'[t] = "user" /\ \A u \in Task \ {t} : pc'[u] = pc[u]
      /\ dir' \in [Task -> 0..PageCount] /\ dir'[t] = 0 /\ \A u \in Task \ {t} : dir'[u] = dir[u]
      /\ goal' \in [Task -> -1..UserSize] /\ \A u \in Task \ {t} : goal'[u] = goal[u]
      /\ todo' \in [Task -> Seq(VPage \X VPage)] /\ \A u \in Task \ {t} : todo'[u] = todo[u]
  <2>1. 0 \in 0..PageCount
    BY MemoryAssumption
  <2> QED BY <1>0, <2>1, HeapSizes, NoRange DEF MemTypeOK, Pc
<1>2. MemTypeOK'
  BY <1>0, <1>1 DEF MemTypeOK
<1>3. cr3[t] \in Page /\ page[t] = 0
  BY <1>0 DEF TaskInv, Caller
<1>4. HeapRight(t)'
  <2>1. SpaceKept(t)
    BY <1>0, CalmStops DEF SpaceKept
  <2> QED BY <1>0, <1>1, <2>1, HeapStays DEF TaskInv, MapPc
<1>5. TaskInv(t)'
  <2>1. pc'[t] = "user" /\ dir'[t] = 0 /\ page'[t] = 0 /\ cr3'[t] \in Page
    BY <1>0, <1>1, <1>3
  <2>2. Hungry(t)'
    BY <2>1, PagesAre DEF Hungry
  <2> QED BY <1>4, <2>1, <2>2, RestInv
<1>6. Tasks' /\ Pages'
  <2>1. \A u \in Task \ {t} : Same(u)
    BY <1>0, <1>1 DEF Same
  <2>2. ~HasDir(t) /\ ~HasDir(t)'
    BY <1>0, <1>1 DEF HasDir
  <2>3. pc[t] \notin {"free", "new", "zombie"} \cup CallPc /\ pc'[t] \notin {"free", "new", "zombie"} \cup CallPc
    BY <1>0, <1>1 DEF CallPc, ForkPc, CopyPc, ReapPc
  <2> QED BY <1>0, <1>3, <1>5, <2>1, <2>2, <2>3, CalmAlone
<1> QED BY <1>0, <1>2, <1>6 DEF HaltsOnlyWhenStarved, MemInv
------------------------------------------------------------------------------
(* Two ranges, one after the other.                                        *)
LEMMA TwoRanges ==
  ASSUME NEW a \in VPage, NEW b \in VPage, NEW c \in VPage, NEW d \in VPage, a <= b, b < c, c <= d
  PROVE  LET s == << <<a, b>>, <<c, d>> >>
         IN  /\ s \in Ranges /\ s \in Seq(VPage \X VPage) /\ s # <<>>
             /\ \A v : Pending(s, v) <=> (a <= v /\ v <= b) \/ (c <= v /\ v <= d)
BY DEF Ranges, Pending

(* The directory of the new space, and what is to be mapped in it.         *)
LEMMA ExecStep ==
  ASSUME MemInv, NEW CONSTANT t \in Task, NEW CONSTANT memsz \in Programs,
         exec(t, memsz), cr3[t] # BadDir, halted = "no"
  PROVE  MemInv'
<1>0. MemTypeOK /\ Tasks /\ Pages /\ TaskInv(t) /\ pc[t] = "user"
  BY DEF Tasks, MemInv, exec, Goes
<1>1. PICK p \in Page : /\ addr_alloc_page(p) /\ mem' = [mem EXCEPT ![p] = Empty]
                        /\ dir' = [dir EXCEPT ![t] = p]
  BY DEF exec
<1>2. UNCHANGED << cr3, esp0, heap_end, parent, child, page, lost, starved, halted >>
  BY DEF exec, taskVars
<1>3. PICK r : r = << <<1, PagesIn(memsz)>>, <<StackFrom, VPages>> >>
  OBVIOUS
<1>4. PICK to \in {"map", "exec_undo"} :
        /\ pc' = [pc EXCEPT ![t] = to]
        /\ \/ /\ to = "map" /\ todo' = [todo EXCEPT ![t] = r] /\ goal' = [goal EXCEPT ![t] = memsz]
              /\ at' = at
           \/ /\ to = "exec_undo" /\ at' = [at EXCEPT ![t] = 1] /\ todo' = todo /\ goal' = goal
  BY <1>3 DEF exec, Goes
<1>5. memsz \in 0..HeapTop /\ memsz # 0 /\ memsz \in -1..UserSize
  <2>1. memsz \in 1..HeapTop
    BY MemoryAssumption DEF HeapTop
  <2> QED BY <2>1, HeapSizes
<1>6. PICK b : b = PagesIn(memsz)
  OBVIOUS
<1>7. /\ b \in 1..(StackFrom - 1)
      /\ r \in Ranges /\ r \in Seq(VPage \X VPage) /\ r # <<>>
      /\ \A v : Pending(r, v) <=> (1 <= v /\ v <= b) \/ (StackFrom <= v /\ v <= VPages)
  <2>1. b \in 1..(StackFrom - 1)
    BY <1>5, <1>6, HeapPages, HeapSizes
  <2>2. 1 \in VPage /\ b \in VPage /\ StackFrom \in VPage /\ VPages \in VPage /\ 1 <= b
        /\ b < StackFrom /\ StackFrom <= VPages
    BY <2>1, HeapSizes DEF VPage
  <2> QED BY <1>3, <1>6, <2>1, <2>2, TwoRanges
<1>8. p \notin used /\ used' = used \cup {p} /\ p # 0 /\ p \in 0..PageCount
  BY <1>1, PagesAre DEF addr_alloc_page, Free
<1>9. cr3[t] \in Page /\ dir[t] = 0 /\ page[t] = 0
  BY <1>0 DEF TaskInv, Caller
<1>10. t \in Spaces /\ p # cr3[t]
  <2>1. t \in Spaces
    BY <1>0, <1>9, SpaceOfATask
  <2>2. LastStop \in Stops /\ StopAt(cr3[t], LastStop) = cr3[t] /\ cr3[t] # 0
    BY <1>9, PagesAre, LastStopIs, Sizes DEF Stops
  <2>3. InSpace(t, LastStop, cr3[t])
    BY <2>1, <2>2 DEF InSpace
  <2> QED BY <1>0, <1>8, <2>1, <2>3, FreeIsNobodys
<1>11. /\ pc' \in [Task -> Pc] /\ pc'[t] = to /\ \A u \in Task \ {t} : pc'[u] = pc[u]
       /\ dir' \in [Task -> 0..PageCount] /\ dir'[t] = p /\ \A u \in Task \ {t} : dir'[u] = dir[u]
  BY <1>0, <1>1, <1>4, <1>8 DEF MemTypeOK, Pc
<1>12. /\ todo' \in [Task -> Seq(VPage \X VPage)] /\ goal' \in [Task -> -1..UserSize]
       /\ \A u \in Task \ {t} : todo'[u] = todo[u] /\ goal'[u] = goal[u]
       /\ at' \in [Task -> 0..LastStop] /\ \A u \in Task \ {t} : at'[u] = at[u]
       /\ to = "map" => todo'[t] = r /\ goal'[t] = memsz
       /\ to = "exec_undo" => at'[t] = 1
  <2>1. 1 \in 0..LastStop
    BY Sizes
  <2>2. CASE to = "map"
    BY <1>0, <1>4, <1>5, <1>7, <2>2 DEF MemTypeOK
  <2>3. CASE to = "exec_undo"
    BY <1>0, <1>4, <2>1, <2>3 DEF MemTypeOK
  <2> QED BY <2>2, <2>3
<1>13. mem' \in [Page -> [Entry -> 0..PageCount]] /\ mem'[p] = Empty
  BY <1>0, <1>1, ClearedPage DEF MemTypeOK
<1>14. MemTypeOK'
  BY <1>0, <1>2, <1>8, <1>11, <1>12, <1>13 DEF MemTypeOK
<1>15. \A q : mem'[q] = mem[q] \/ \A u, n : ~InSpace(u, n, q) /\ ~InCall(u, n, q)
  BY <1>0, <1>1, <1>8, FreeIsNobodys DEF MemTypeOK
<1>16. pc[t] \notin {"free", "new", "zombie"} \cup CallPc /\ pc'[t] \notin {"free", "new", "zombie"} \cup CallPc
  BY <1>0, <1>11 DEF CallPc, ForkPc, CopyPc, ReapPc
<1>17. StepOf(t, t)
  <2>1. \A u \in Task \ {t} : Same(u)
    BY <1>2, <1>11, <1>12 DEF Same
  <2>2. starved => starved'
    BY <1>2
  <2> QED BY <1>0, <1>15, <1>16, <2>1, <2>2, StepAlone
<1>18. SpaceKept(t)
  BY <1>2, <1>10, <1>15, SpaceStays DEF SpaceKept
<1>19. \A n \in Stops : StopAt(p, n)' = IF n = LastStop THEN p ELSE 0
  BY <1>13, EmptyDir
<1>20. TaskInv(t)'
  <2>1. Caller(t)'
    BY <1>2, <1>9, <1>10, <1>11, <1>12, Sizes DEF Caller, MapPc, Stops
  <2>2. Parental(t)' /\ Copying(t)'
    BY <1>11 DEF Parental, Copying, ForkPc, CopyPc, ReapPc
  <2>3. Mapping(t)'
    BY <1>7, <1>11, <1>12 DEF Mapping, MapPc
  <2>4. Hungry(t)'
    BY <1>2, <1>9, <1>11, PagesAre DEF Hungry
  <2>5. HeapRight(t)'
    <3>1. CASE to = "map"
      <4>1. \A v \in VPage : FrameIn(dir[t], v)' = 0
        BY <1>11, <1>19, FrameStopIn, StopsOfAPage, Sizes DEF FrameIn
      <4>2. \A v \in VPage : Pending(r, v) <=> InUse(memsz, v)
        BY <1>6, <1>7, HeapSizes DEF InUse, VPage
      <4>3. \A v \in VPage : (Pending(todo[t], v)' <=> Pending(r, v)) /\ (InUse(goal[t], v)' <=> InUse(memsz, v))
        BY <1>12, <3>1 DEF Pending, InUse
      <4>4. pc'[t] = "map" /\ goal'[t] \in 0..HeapTop /\ todo'[t] # <<>>
        BY <1>5, <1>7, <1>11, <1>12, <3>1
      <4> QED BY <4>1, <4>2, <4>3, <4>4 DEF HeapRight, MapPc
    <3>2. CASE to = "exec_undo"
      BY <1>0, <1>2, <1>11, <1>18, <3>2, HeapStays DEF TaskInv, MapPc
    <3> QED BY <3>1, <3>2
  <2> QED BY <2>1, <2>2, <2>3, <2>4, <2>5 DEF TaskInv
<1>21. Tasks'
  BY <1>0, <1>17, <1>20, TasksAgain
<1>22. /\ \A n, q : InSpace(t, n, q)' <=> InSpace(t, n, q)
       /\ \A q : IsStack(t, q)' <=> IsStack(t, q)
  BY <1>0, <1>2, <1>9, <1>16, <1>18, <1>21, PlacesStay
<1>23. \A n, q : InCall(t, n, q)' <=> n = LastStop /\ q = p
  <2>1. HasDir(t)' /\ From(t)' = 1
    BY <1>2, <1>8, <1>10, <1>11, <1>12 DEF HasDir, From
  <2> QED BY <1>8, <1>11, <1>19, <2>1, Sizes DEF InCall, Stops
<1>24. \A n, q : ~InCall(t, n, q) /\ (IsPage(t, q)' <=> IsPage(t, q))
  BY <1>2, <1>9 DEF InCall, HasDir, IsPage
<1>25. Takes(t, t, p, "call", t, LastStop)
  BY <1>22, <1>23, <1>24 DEF Takes
<1>26. Pages'
  BY <1>0, <1>2, <1>8, <1>17, <1>25, TakenPage
<1> QED BY <1>0, <1>2, <1>14, <1>21, <1>26 DEF HaltsOnlyWhenStarved, MemInv

(* The pages of a space are what is at its stops.                          *)
LEMMA PagesOfIs ==
  ASSUME NEW d \in Page, NEW p
  PROVE  p \in PagesOf(d) <=> \E n \in Stops : p = StopAt(d, n) /\ p # 0
<1>1. d # 0 /\ LastStop \in Stops /\ StopAt(d, LastStop) = d
  BY PagesAre, LastStopIs, Sizes DEF Stops
<1>2. ASSUME p \in PagesOf(d) PROVE \E n \in Stops : p = StopAt(d, n) /\ p # 0
  <2>1. CASE p = d
    BY <1>1, <2>1
  <2>2. CASE \E v \in VPage : p = Table(d, v) /\ p # 0
    BY <2>2, FramesAreStops, FrameStopIn DEF TableIn
  <2>3. CASE \E v \in VPage : p = Frame(d, v) /\ p # 0
    BY <2>3, FramesAreStops, FrameStopIn DEF FrameIn
  <2> QED BY <1>2, <2>1, <2>2, <2>3 DEF PagesOf, Mapped
<1>3. ASSUME NEW n \in Stops, p = StopAt(d, n), p # 0 PROVE p \in PagesOf(d)
  <2>1. CASE n = LastStop
    BY <1>1, <1>3, <2>1 DEF PagesOf
  <2>2. CASE n # LastStop
    <3>1. PICK v \in VPage : n = IF Col(n) = W THEN TableStop(v) ELSE FrameStop(v)
      BY <2>2, StopIsOfAPage, Sizes DEF Stops
    <3>2. p = Table(d, v) \/ p = Frame(d, v)
      BY <1>3, <3>1, FramesAreStops DEF TableIn, FrameIn
    <3> QED BY <1>3, <3>2 DEF PagesOf, Mapped
  <2> QED BY <2>1, <2>2
<1> QED BY <1>2, <1>3

(* The process goes over to its new space, and the old one is forgotten.   *)
LEMMA ExecEndsStep ==
  ASSUME MemInv, NEW CONSTANT t \in Task, exec_ends(t), halted = "no"
  PROVE  MemInv'
<1>0. /\ MemTypeOK /\ Tasks /\ Pages /\ TaskInv(t) /\ pc[t] = "map" /\ todo[t] = <<>>
      /\ UNCHANGED << used, mem, esp0, heap_end, parent, child, at, page, todo, starved >>
  BY DEF Tasks, MemInv, exec_ends, spaceVars
<1>1. PICK d : d = dir[t]
  OBVIOUS
<1>2. /\ d \in Page /\ d # cr3[t] /\ cr3[t] \in Page /\ page[t] = 0
      /\ t \in Spaces /\ ~FreedStack(t) /\ HasDir(t) /\ From(t) = 1
  <2>1. d # cr3[t] /\ pc[t] \in BuildPc
    BY <1>0, <1>1 DEF exec_ends, BuildPc, MapPc
  <2>2. page[t] = 0
    BY <1>0 DEF TaskInv, Caller
  <2> QED BY <1>0, <1>1, <2>1, <2>2, Building
<1>3. ~starved => /\ heap_end[t] = goal[t] /\ goal[t] \in 0..HeapTop
                  /\ \A v \in VPage : FrameIn(d, v) # 0 <=> InUse(goal[t], v)
  <2>1. \A v : ~Pending(todo[t], v)
    BY <1>0, NoRange
  <2> QED BY <1>0, <1>1, <2>1 DEF TaskInv, HeapRight, MapPc
<1>4. CASE /\ pc' = [pc EXCEPT ![t] = "user"] /\ lost' = lost \cup PagesOf(cr3[t])
           /\ cr3' = [cr3 EXCEPT ![t] = d] /\ dir' = [dir EXCEPT ![t] = 0]
           /\ goal' = [goal EXCEPT ![t] = NoHeap] /\ halted' = halted
  <2>1. /\ pc' \in [Task -> Pc] /\ pc'[t] = "user" /\ \A u \in Task \ {t} : pc'[u] = pc[u]
        /\ dir' \in [Task -> 0..PageCount] /\ dir'[t] = 0 /\ \A u \in Task \ {t} : dir'[u] = dir[u]
        /\ cr3' \in [Task -> -1..PageCount] /\ cr3'[t] = d /\ \A u \in Task \ {t} : cr3'[u] = cr3[u]
        /\ goal' \in [Task -> -1..UserSize] /\ \A u \in Task \ {t} : goal'[u] = goal[u]
    <3>1. 0 \in 0..PageCount /\ d \in -1..PageCount
      BY <1>2, PagesAre, MemoryAssumption
    <3> QED BY <1>0, <1>4, <3>1, HeapSizes DEF MemTypeOK, Pc
  <2>2. \A p : p \in lost' <=> p \in lost \/ \E m : InSpace(t, m, p)
    <3>1. \A p : p \in PagesOf(cr3[t]) <=> \E n \in Stops : p = StopAt(cr3[t], n) /\ p # 0
      BY <1>2, PagesOfIs
    <3> QED BY <1>2, <1>4, <3>1 DEF InSpace
  <2>3. lost' \subseteq Page
    <3>1. \A p : p \in lost' => p \in lost \/ \E n \in Stops : p = StopAt(cr3[t], n) /\ p # 0
      BY <2>2 DEF InSpace
    <3>2. \A n \in Stops : StopAt(cr3[t], n) \in 0..PageCount
      BY <1>0, <1>2, StopType
    <3>3. \A p \in 0..PageCount : p # 0 => p \in Page
      BY MemoryAssumption DEF Page
    <3>4. \A p : p \in lost => p \in Page
      BY <1>0 DEF MemTypeOK
    <3> QED BY <3>1, <3>2, <3>3, <3>4
  <2>4. MemTypeOK'
    BY <1>0, <1>4, <2>1, <2>3 DEF MemTypeOK
  <2>5. StepOf(t, t)
    <3>1. \A u \in Task \ {t} : Same(u)
      BY <1>0, <2>1 DEF Same
    <3>2. pc[t] \notin {"free", "new", "zombie"} \cup CallPc /\ pc'[t] \notin CallPc
      BY <1>0, <2>1 DEF CallPc, ForkPc, CopyPc, ReapPc
    <3> QED BY <1>0, <3>1, <3>2, StepAlone
  <2>6. \A e, n : StopAt(e, n)' = StopAt(e, n)
    BY <1>0, CalmStops
  <2>7. TaskInv(t)'
    <3>1. pc'[t] = "user" /\ dir'[t] = 0 /\ page'[t] = 0 /\ cr3'[t] \in Page
      BY <1>0, <1>2, <2>1
    <3>2. Hungry(t)'
      BY <3>1, PagesAre DEF Hungry
    <3>3. HeapRight(t)'
      <4>1. \A v \in VPage : FrameIn(cr3[t], v)' = FrameIn(d, v)
        BY <2>1, <2>6 DEF FrameIn
      <4>2. \A v \in VPage : InUse(heap_end[t], v)' <=> InUse(heap_end[t], v)
        BY <1>0 DEF InUse
      <4> QED BY <1>0, <1>3, <3>1, <4>1, <4>2 DEF HeapRight, MapPc
    <3> QED BY <3>1, <3>2, <3>3, RestInv
  <2>8. Tasks'
    BY <1>0, <2>5, <2>7, TasksAgain
  <2>9. t \in Spaces' /\ ~FreedStack(t)' /\ ~HasDir(t)'
    <3>1. t \notin Reaped' /\ ~FreedStack(t)'
      BY <2>1, <2>8, WholeNext
    <3> QED BY <1>2, <2>1, <3>1, PagesAre DEF Spaces, HasDir
  <2>10. \A n, p : /\ InSpace(t, n, p)' <=> InCall(t, n, p)
                   /\ ~InCall(t, n, p)'
                   /\ IsStack(t, p)' <=> IsStack(t, p)
                   /\ IsPage(t, p)' <=> IsPage(t, p)
    BY <1>0, <1>1, <1>2, <2>1, <2>6, <2>9 DEF InSpace, InCall, IsStack, IsPage, Stops
  <2>11. \A x \in Task : \A n, p :
           /\ InSpace(x, n, p)' <=> IF x = t THEN InCall(t, n, p) ELSE InSpace(x, n, p)
           /\ InCall(x, n, p)' <=> InCall(x, n, p) /\ x # t
           /\ IsStack(x, p)' <=> IsStack(x, p)
           /\ IsPage(x, p)' <=> IsPage(x, p)
    BY <1>0, <2>5, <2>10, OthersOwn
  <2>12. CallToSpace(t, t)
    BY <2>2, <2>11, HandedOver
  <2>13. Pages'
    BY <1>0, <2>12, TreeHanded
  <2> QED BY <1>0, <1>4, <2>4, <2>8, <2>13 DEF HaltsOnlyWhenStarved, MemInv
<1>5. CASE Table(d, VPages) = 0 /\ halted' = "no stack" /\ UNCHANGED << pc, lost, cr3, dir, goal >>
  <2>1. Tasks' /\ Pages'
    BY <1>0, <1>5, NothingMoves DEF spaceVars, taskVars, callVars
  <2>2. MemTypeOK'
    BY <1>0, <1>5 DEF MemTypeOK, Halts
  <2>3. starved
    <3>1. FrameIn(d, VPages) = 0
      BY <1>5, HeapSizes, FramesAreStops DEF Frame
    <3>2. InUse(goal[t], VPages)
      BY HeapSizes DEF InUse, VPage
    <3> QED BY <1>3, <3>1, <3>2, HeapSizes
  <2> QED BY <1>0, <2>1, <2>2, <2>3 DEF HaltsOnlyWhenStarved, MemInv
<1> QED BY <1>1, <1>4, <1>5 DEF exec_ends
------------------------------------------------------------------------------
(* The next page of the ranges, and what is left when it has been mapped.  *)
LEMMA RangeIs ==
  ASSUME NEW s \in Seq(VPage \X VPage), NEW i \in 1..Len(s)
  PROVE  /\ s[i] \in VPage \X VPage
         /\ s[i][1] \in VPage /\ s[i][2] \in VPage
         /\ s[i][1] \in Int /\ s[i][2] \in Int
<1>1. s[i] \in VPage \X VPage
  BY ElementOfSeq
<1> QED BY <1>1 DEF VPage

(* A sequence with one range in it.                                        *)
LEMMA ARange ==
  ASSUME NEW s \in Seq(VPage \X VPage), Len(s) = 1, s[1][1] <= s[1][2]
  PROVE  s \in Ranges /\ s # <<>> /\ \A v : Pending(s, v) <=> s[1][1] <= v /\ v <= s[1][2]
<1>1. 1..Len(s) = {1} /\ s # <<>>
  BY EmptySeq
<1>2. s \in Ranges
  BY <1>1 DEF Ranges
<1>3. \A v : Pending(s, v) <=> s[1][1] <= v /\ v <= s[1][2]
  BY <1>1 DEF Pending
<1> QED BY <1>1, <1>2, <1>3

(* A sequence with two ranges in it.                                       *)
LEMMA RangePair ==
  ASSUME NEW s \in Seq(VPage \X VPage), Len(s) = 2,
         s[1][1] <= s[1][2], s[1][2] < s[2][1], s[2][1] <= s[2][2]
  PROVE  /\ s \in Ranges /\ s # <<>>
         /\ \A v : Pending(s, v) <=> (s[1][1] <= v /\ v <= s[1][2])
                                      \/ (s[2][1] <= v /\ v <= s[2][2])
<1>1. 1..Len(s) = {1, 2}
  OBVIOUS
<1>2. s # <<>>
  <2>1. Len(<<>>) = 0 /\ 0 # 2
    OBVIOUS
  <2> QED BY <2>1, Zenon
<1>3. s \in Ranges
  <2>1. \A i \in {1, 2} : s[i][1] <= s[i][2]
    OBVIOUS
  <2>2. \A i \in 1..Len(s) : s[i][1] <= s[i][2]
    BY <1>1, <2>1, Zenon
  <2>3. Len(s) <= 2
    OBVIOUS
  <2> QED BY <2>2, <2>3, Zenon DEF Ranges
<1>4. \A v : Pending(s, v) <=> \E i \in {1, 2} : s[i][1] <= v /\ v <= s[i][2]
  BY <1>1 DEF Pending
<1>5. \A v : Pending(s, v) <=> (s[1][1] <= v /\ v <= s[1][2]) \/ (s[2][1] <= v /\ v <= s[2][2])
  <2>1. \A v : (\E i \in {1, 2} : s[i][1] <= v /\ v <= s[i][2])
                <=> (s[1][1] <= v /\ v <= s[1][2]) \/ (s[2][1] <= v /\ v <= s[2][2])
    BY Zenon
  <2> QED BY <1>4, <2>1, Zenon
<1> QED BY <1>2, <1>3, <1>5

(* What Ranges says of a sequence, element by element.                     *)
LEMMA RangesAreShort ==
  ASSUME NEW s \in Ranges, s # <<>>
  PROVE  /\ s \in Seq(VPage \X VPage) /\ Len(s) \in {1, 2} /\ Head(s) = s[1]
         /\ s[1][1] \in VPage /\ s[1][2] \in VPage /\ s[1][1] <= s[1][2]
         /\ Len(s) = 2 => /\ s[2][1] \in VPage /\ s[2][2] \in VPage
                          /\ s[1][2] < s[2][1] /\ s[2][1] <= s[2][2]
         /\ Tail(s) \in Seq(VPage \X VPage) /\ Len(Tail(s)) = Len(s) - 1
         /\ Len(s) = 2 => Tail(s)[1] = s[2]
<1>1. s \in Seq(VPage \X VPage) /\ Len(s) <= 2
  BY DEF Ranges
<1>2. Len(s) \in Nat /\ Len(s) # 0
  BY <1>1, EmptySeq, LenProperties
<1>3. Len(s) \in {1, 2}
  <2>1. \A n \in Nat : n # 0 /\ n <= 2 => n \in {1, 2}
    OBVIOUS
  <2> QED BY <1>1, <1>2, <2>1, Zenon
<1>4. 1 \in 1..Len(s) /\ (Len(s) = 2 => 2 \in 1..Len(s))
  BY <1>3
<1>5. /\ s[1][1] <= s[1][2]
      /\ Len(s) = 2 => s[2][1] <= s[2][2] /\ s[1][2] < s[2][1]
  BY <1>4 DEF Ranges
<1>6. /\ s[1][1] \in VPage /\ s[1][2] \in VPage
      /\ Len(s) = 2 => s[2][1] \in VPage /\ s[2][2] \in VPage
  BY <1>1, <1>4, RangeIs
<1>7. /\ Head(s) = s[1] /\ Tail(s) \in Seq(VPage \X VPage) /\ Len(Tail(s)) = Len(s) - 1
      /\ \A i \in 1..Len(Tail(s)) : Tail(s)[i] = s[i + 1]
  BY <1>1, HeadTailProperties
<1>8. Len(s) = 2 => Tail(s)[1] = s[2]
  <2>1. SUFFICES ASSUME Len(s) = 2 PROVE Tail(s)[1] = s[2]
    OBVIOUS
  <2>2. 2 - 1 = 1 /\ 1..1 = {1} /\ 1 \in {1} /\ 1 + 1 = 2
    OBVIOUS
  <2>3. Len(Tail(s)) = 1
    BY <1>7, <2>1, <2>2, Zenon
  <2>4. 1 \in 1..Len(Tail(s))
    BY <2>2, <2>3, Zenon
  <2>5. Tail(s)[1] = s[1 + 1]
    BY <1>7, <2>4, Zenon
  <2> QED BY <2>2, <2>5, Zenon
<1> QED BY <1>1, <1>3, <1>5, <1>6, <1>7, <1>8

(* The range at the head begins one page later.                            *)
LEMMA ShorterRange ==
  ASSUME NEW s \in Ranges, s # <<>>, NEW a \in VPage, NEW b \in VPage
  PROVE  LET r == << <<a, b>> >> \o Tail(s)
         IN  /\ r \in Seq(VPage \X VPage) /\ Len(r) = Len(s)
             /\ r[1][1] = a /\ r[1][2] = b
             /\ Len(s) = 2 => r[2] = s[2]
<1> DEFINE r == << <<a, b>> >> \o Tail(s)
<1>1. PICK f : f = << <<a, b>> >>
  OBVIOUS
<1>2. f \in Seq(VPage \X VPage) /\ Len(f) = 1 /\ f[1][1] = a /\ f[1][2] = b
  BY <1>1
<1>3. PICK g : g = Tail(s)
  OBVIOUS
<1>4. /\ g \in Seq(VPage \X VPage) /\ Len(g) = Len(s) - 1 /\ Len(s) \in {1, 2}
      /\ Len(s) = 2 => g[1] = s[2]
  BY <1>3, RangesAreShort
<1>5. PICK q : q = f \o g
  OBVIOUS
<1>6. /\ q \in Seq(VPage \X VPage) /\ Len(q) = Len(f) + Len(g)
      /\ \A i \in 1..(Len(f) + Len(g)) : q[i] = IF i <= Len(f) THEN f[i] ELSE g[i - Len(f)]
  BY <1>2, <1>4, <1>5, ConcatProperties
<1>7. Len(q) = Len(s) /\ 1 \in 1..(Len(f) + Len(g)) /\ (Len(s) = 2 => 2 \in 1..(Len(f) + Len(g)))
  BY <1>2, <1>4, <1>6
<1>8. q[1] = f[1]
  BY <1>2, <1>6, <1>7
<1>9. Len(s) = 2 => q[2] = g[1]
  BY <1>2, <1>6, <1>7
<1>10. q = r
  BY <1>1, <1>3, <1>5
<1> QED BY <1>2, <1>4, <1>6, <1>7, <1>8, <1>9, <1>10

FirstOf(s)  == Head(s)[1]
WithoutFirst(s) ==
  IF FirstOf(s) = Head(s)[2] THEN Tail(s) ELSE << <<FirstOf(s) + 1, Head(s)[2]>> >> \o Tail(s)

(* One page less is pending, the first one.                                *)
LEMMA NextPage ==
  ASSUME NEW s \in Ranges, s # <<>>
  PROVE  /\ FirstOf(s) \in VPage /\ Pending(s, FirstOf(s))
         /\ WithoutFirst(s) \in Ranges
         /\ WithoutFirst(s) = <<>> => Len(WithoutFirst(s)) < Len(s)
         /\ \A u \in VPage : Pending(WithoutFirst(s), u) <=> Pending(s, u) /\ u # FirstOf(s)
<1>a. PICK v, last, rest : v = Head(s)[1] /\ last = Head(s)[2] /\ rest = WithoutFirst(s)
  OBVIOUS
<1>b. v = FirstOf(s) /\ rest = IF v = last THEN Tail(s) ELSE << <<v + 1, last>> >> \o Tail(s)
  BY <1>a DEF FirstOf, WithoutFirst
<1>c. SUFFICES /\ v \in VPage /\ Pending(s, v)
               /\ rest \in Ranges /\ (rest = <<>> => Len(rest) < Len(s))
               /\ \A u \in VPage : Pending(rest, u) <=> Pending(s, u) /\ u # v
  BY <1>a, <1>b, Zenon
<1>1. /\ s \in Seq(VPage \X VPage) /\ Len(s) \in {1, 2}
      /\ v \in VPage /\ last \in VPage /\ v <= last /\ v = s[1][1] /\ last = s[1][2]
      /\ Len(s) = 2 => s[2][1] \in VPage /\ s[2][2] \in VPage /\ last < s[2][1] /\ s[2][1] <= s[2][2]
      /\ Tail(s) \in Seq(VPage \X VPage) /\ Len(Tail(s)) = Len(s) - 1
      /\ Len(s) = 2 => Tail(s)[1] = s[2]
  BY <1>a, RangesAreShort
<1>2. \A u \in VPage : u \in Int
  BY DEF VPage
<1>3. rest = <<>> => Len(rest) < Len(s)
  BY <1>1, EmptySeq
<1>4. v # last => v + 1 \in VPage /\ v + 1 <= last
  <2>1. \A a, b \in VPage : a <= b /\ a # b => a + 1 \in VPage /\ a + 1 <= b
    BY Sizes DEF VPage
  <2> QED BY <1>1, <2>1, Zenon
<1>5. v # last => /\ rest \in Seq(VPage \X VPage) /\ Len(rest) = Len(s)
                  /\ rest[1][1] = v + 1 /\ rest[1][2] = last
                  /\ Len(s) = 2 => rest[2] = s[2]
  BY <1>1, <1>4, <1>b, ShorterRange
<1>6. v = last => rest = Tail(s)
  BY <1>b
<1>7. CASE Len(s) = 1
  <2>1. \A u : Pending(s, u) <=> v <= u /\ u <= last
    BY <1>1, <1>7, ARange
  <2>2. CASE v = last
    <3>1. rest = <<>>
      BY <1>1, <1>6, <1>7, <2>2, EmptySeq
    <3>2. rest \in Ranges /\ \A u : ~Pending(rest, u)
      BY <3>1, NoRange
    <3>3. Pending(s, v) /\ \A u \in VPage : Pending(s, u) => u = v
      BY <1>1, <1>2, <2>1, <2>2
    <3> QED BY <1>1, <1>3, <3>2, <3>3
  <2>3. CASE v # last
    <3>1. rest \in Ranges /\ \A u : Pending(rest, u) <=> v + 1 <= u /\ u <= last
      BY <1>4, <1>5, <1>7, <2>3, ARange
    <3>2. Pending(s, v) /\ \A u \in VPage : v + 1 <= u <=> v <= u /\ u # v
      BY <1>1, <1>2, <2>1
    <3> QED BY <1>1, <1>3, <2>1, <3>1, <3>2
  <2> QED BY <2>2, <2>3
<1>8. CASE Len(s) = 2
  <2>1. PICK c \in VPage, d \in VPage : c = s[2][1] /\ d = s[2][2]
    BY <1>1, <1>8
  <2>2. last < c /\ c <= d
    BY <1>1, <1>8, <2>1
  <2>3. \A u : Pending(s, u) <=> (v <= u /\ u <= last) \/ (c <= u /\ u <= d)
    BY <1>1, <1>8, <2>1, <2>2, RangePair
  <2> DEFINE Between == \A u \in VPage : /\ (v <= u /\ u <= v <=> u = v) /\ (c <= u => u # v)
                                         /\ v + 1 <= u <=> v <= u /\ u # v
  <2>6. Between
    <3>1. ASSUME NEW a \in Int, NEW b \in Int, NEW e \in Int, a <= b, b < e, NEW u \in Int
          PROVE  /\ (a <= u /\ u <= a <=> u = a) /\ (e <= u => u # a)
                 /\ a + 1 <= u <=> a <= u /\ u # a
      BY <3>1
    <3>2. v \in VPage /\ last \in VPage /\ v <= last
      BY <1>1
    <3> QED BY <1>2, <2>2, <3>1, <3>2
  <2>7. Pending(s, v)
    BY <1>1, <1>2, <2>3
  <2> HIDE DEF Between
  <2>4. CASE v = last
    <3>1. rest \in Seq(VPage \X VPage) /\ Len(rest) = 1 /\ rest[1][1] = c /\ rest[1][2] = d
      BY <1>1, <1>6, <1>8, <2>1, <2>4
    <3>2. rest \in Ranges /\ \A u : Pending(rest, u) <=> c <= u /\ u <= d
      BY <2>2, <3>1, ARange
    <3>3. \A u \in VPage : (v <= u /\ u <= last <=> u = v) /\ (c <= u => u # v)
      BY <2>4, <2>6 DEF Between
    <3> QED BY <1>1, <1>3, <2>3, <2>7, <3>2, <3>3
  <2>5. CASE v # last
    <3>1. /\ rest \in Seq(VPage \X VPage) /\ Len(rest) = 2 /\ rest[1][1] = v + 1
          /\ rest[1][2] = last /\ rest[2][1] = c /\ rest[2][2] = d
      BY <1>5, <1>8, <2>1, <2>5
    <3>2. /\ rest \in Ranges
          /\ \A u : Pending(rest, u) <=> (v + 1 <= u /\ u <= last) \/ (c <= u /\ u <= d)
      BY <1>4, <2>2, <2>5, <3>1, RangePair
    <3>3. \A u \in VPage : (v + 1 <= u <=> v <= u /\ u # v) /\ (c <= u => u # v)
      BY <2>6 DEF Between
    <3> QED BY <1>1, <1>3, <2>3, <2>7, <3>2, <3>3
  <2> QED BY <2>4, <2>5
<1> QED BY <1>1, <1>7, <1>8

(* One range less is pending.                                              *)
LEMMA NextRange ==
  ASSUME NEW s \in Ranges, s # <<>>
  PROVE  Tail(s) \in Ranges /\ Len(Tail(s)) < Len(s)
<1>1. PICK q : q = Tail(s)
  OBVIOUS
<1>2. PICK n \in {1, 2} : n = Len(s)
  BY RangesAreShort
<1>3. q \in Seq(VPage \X VPage) /\ Len(q) = n - 1
  BY <1>1, <1>2, RangesAreShort
<1>4. n = 2 => q[1] = s[2] /\ s[2][1] <= s[2][2]
  BY <1>1, <1>2, RangesAreShort
<1>5. Len(q) < n
  BY <1>2, <1>3
<1>6. q \in Ranges
  <2>1. CASE n = 1
    <3>1. Len(q) = 0
      BY <1>3, <2>1
    <3>2. q = <<>>
      BY <1>3, <3>1, EmptySeq
    <3> QED BY <3>2, NoRange
  <2>2. CASE n = 2
    <3>1. Len(q) = 1 /\ q[1][1] <= q[1][2]
      BY <1>3, <1>4, <2>2
    <3> QED BY <1>3, <3>1, ARange
  <2> QED BY <2>1, <2>2
<1> QED BY <1>1, <1>2, <1>5, <1>6

(* What a call owns that is mapping pages, before and after.               *)
LEMMA MapPlaces ==
  ASSUME Tasks, Pages, Tasks', NEW CONSTANT t \in Task, pc[t] \in MapPc, pc'[t] \in MapPc,
         cr3'[t] = cr3[t], dir'[t] = dir[t], esp0'[t] = esp0[t],
         NEW CONSTANT d, d = dir[t], NEW CONSTANT r, r = cr3[t]
  PROVE  /\ \A n, p : InSpace(t, n, p) <=> n \in Stops /\ p = StopAt(r, n) /\ p # 0
         /\ \A n, p : InSpace(t, n, p)' <=> n \in Stops /\ p = StopAt(r, n)' /\ p # 0
         /\ \A n, p : InCall(t, n, p) <=> d # r /\ n \in Stops /\ p = StopAt(d, n) /\ p # 0
         /\ \A n, p : InCall(t, n, p)' <=> d # r /\ n \in Stops /\ p = StopAt(d, n)' /\ p # 0
         /\ \A p : IsStack(t, p)' <=> IsStack(t, p)
<1>1. /\ d \in Page /\ r \in Page /\ t \in Spaces /\ t \notin Reaped /\ ~FreedStack(t)
      /\ From(t) = 1 /\ (HasDir(t) <=> d # r)
  BY Building DEF BuildPc
<1>2. t \in Spaces' /\ ~FreedStack(t)'
  <2>1. pc'[t] # "zombie" /\ pc'[t] # "new"
    BY DEF MapPc
  <2>2. t \notin Reaped' /\ ~FreedStack(t)'
    BY <2>1, WholeNext
  <2> QED BY <1>1, <2>2, PagesAre DEF Spaces
<1>3. From(t)' = 1 /\ (HasDir(t)' <=> d # r)
  BY <1>1, PagesAre DEF From, HasDir, MapPc
<1> QED BY <1>1, <1>2, <1>3 DEF InSpace, InCall, IsStack, Stops

(* What is to be shown of a process that goes on mapping.                  *)
LEMMA MapGoesOn ==
  ASSUME NEW CONSTANT t \in Task, TaskInv(t), pc[t] \in MapPc, pc'[t] \in MapPc,
         cr3'[t] = cr3[t], dir'[t] = dir[t], page'[t] # 0 <=> pc'[t] = "map_table",
         Mapping(t)', HeapRight(t)'
  PROVE  TaskInv(t)'
<1>1. Caller(t)'
  BY DEF TaskInv, Caller, MapPc
<1>2. Parental(t)' /\ Copying(t)'
  BY DEF Parental, Copying, MapPc, ForkPc, CopyPc, ReapPc
<1>3. Hungry(t)'
  <2>1. cr3[t] \in Page
    BY DEF TaskInv, Caller, MapPc
  <2> QED BY <2>1, PagesAre DEF Hungry, MapPc
<1> QED BY <1>1, <1>2, <1>3 DEF TaskInv

(* The heap when page v has been mapped, or the rest has been given up.    *)
LEMMA HeapAdvances ==
  ASSUME MemTypeOK, NEW CONSTANT t \in Task, TaskInv(t), pc[t] \in MapPc, pc'[t] = "map",
         todo[t] # <<>>, NEW CONSTANT v, v = NextV(t), NEW CONSTANT rest, rest = PageDone(t),
         todo'[t] = rest, goal'[t] = goal[t], starved' = starved,
         rest = <<>> => heap_end'[t] = goal[t],
         \A u \in VPage : FrameIn(dir[t], u)' # 0 <=> u = v \/ FrameIn(dir[t], u) # 0
  PROVE  HeapRight(t)'
<1>1. todo[t] \in Ranges
  BY DEF TaskInv, Mapping
<1>2. PICK s : s = todo[t]
  OBVIOUS
<1>3. /\ v \in VPage /\ Pending(s, v)
      /\ \A u \in VPage : Pending(rest, u) <=> Pending(s, u) /\ u # v
  <2>1. v = FirstOf(s) /\ rest = WithoutFirst(s)
    BY <1>2 DEF NextV, PageDone, FirstOf, WithoutFirst
  <2>2. s \in Ranges /\ s # <<>>
    BY <1>1, <1>2
  <2> QED BY <2>1, <2>2, NextPage
<1>4. SUFFICES ASSUME ~starved
               PROVE  /\ goal[t] \in 0..HeapTop
                      /\ \A u \in VPage :
                           /\ FrameIn(dir[t], u)' # 0 \/ Pending(rest, u) <=> InUse(goal[t], u)
                           /\ Pending(rest, u) => FrameIn(dir[t], u)' = 0
                      /\ rest = <<>> => heap_end'[t] = goal'[t]
  <2>1. \A u \in VPage : (Pending(todo[t], u)' <=> Pending(rest, u)) /\ (InUse(goal[t], u)' <=> InUse(goal[t], u))
    BY DEF Pending, InUse
  <2> QED BY <1>4, <2>1 DEF HeapRight, MapPc
<1>5. /\ goal[t] \in 0..HeapTop
      /\ \A u \in VPage :
           /\ FrameIn(dir[t], u) # 0 \/ Pending(s, u) <=> InUse(goal[t], u)
           /\ Pending(s, u) => FrameIn(dir[t], u) = 0
  BY <1>2, <1>4 DEF TaskInv, HeapRight
<1> QED BY <1>3, <1>5

(* What Allotted changes.                                                  *)
LEMMA AllottedIs ==
  ASSUME MemTypeOK, NEW CONSTANT t \in Task, NEW CONSTANT rest \in Ranges, Allotted(t, rest)
  PROVE  /\ todo' \in [Task -> Seq(VPage \X VPage)] /\ todo'[t] = rest
         /\ \A u \in Task \ {t} : todo'[u] = todo[u]
         /\ heap_end' \in [Task -> -1..UserSize]
         /\ \A u \in Task \ {t} : heap_end'[u] = heap_end[u]
         /\ Len(rest) < Len(todo[t]) => heap_end'[t] = goal[t]
<1>1. rest \in Seq(VPage \X VPage)
  BY DEF Ranges
<1>2. heap_end \in [Task -> -1..UserSize] /\ goal[t] \in -1..UserSize
  BY DEF MemTypeOK
<1>3. /\ todo' \in [Task -> Seq(VPage \X VPage)] /\ todo'[t] = rest
      /\ \A u \in Task \ {t} : todo'[u] = todo[u]
  BY <1>1 DEF Allotted, MemTypeOK
<1>4. heap_end' = IF Len(rest) < Len(todo[t]) THEN [heap_end EXCEPT ![t] = goal[t]] ELSE heap_end
  BY DEF Allotted
<1> QED BY <1>2, <1>3, <1>4
------------------------------------------------------------------------------
(* The next page of the ranges that are to be mapped.                      *)
LEMMA NextToMap ==
  ASSUME NEW t \in Task, TaskInv(t), pc[t] \in MapPc, todo[t] # <<>>
  PROVE  /\ NextV(t) \in VPage /\ Pending(todo[t], NextV(t))
         /\ PageDone(t) \in Ranges /\ Tail(todo[t]) \in Ranges
         /\ PageDone(t) = <<>> => Len(PageDone(t)) < Len(todo[t])
         /\ ~starved => Frame(dir[t], NextV(t)) = 0
<1>1. PICK s \in Ranges : s = todo[t] /\ s # <<>>
  BY DEF TaskInv, Mapping
<1>2. NextV(t) = FirstOf(s) /\ PageDone(t) = WithoutFirst(s)
  BY <1>1 DEF NextV, PageDone, FirstOf, WithoutFirst
<1>3. /\ NextV(t) \in VPage /\ Pending(s, NextV(t)) /\ PageDone(t) \in Ranges
      /\ PageDone(t) = <<>> => Len(PageDone(t)) < Len(s)
  BY <1>1, <1>2, NextPage
<1>4. Tail(s) \in Ranges
  BY <1>1, NextRange
<1>5. ~starved => FrameIn(dir[t], NextV(t)) = 0
  BY <1>1, <1>3 DEF TaskInv, HeapRight
<1> QED BY <1>1, <1>3, <1>4, <1>5, FramesAreStops

(* The tree that is being filled has what it had, and one page more.       *)
LEMMA FrameTakes ==
  ASSUME MemTypeOK, Tasks, Pages, Tasks', NEW CONSTANT t \in Task,
         pc[t] \in MapPc, pc'[t] \in MapPc,
         cr3'[t] = cr3[t], dir'[t] = dir[t], esp0'[t] = esp0[t], page'[t] = page[t],
         NEW CONSTANT d, d = dir[t], NEW CONSTANT N \in Stops, NEW CONSTANT p \in Page,
         StopAt(d, N) = 0,
         \A n \in Stops : StopAt(d, n)' = IF n = N THEN p ELSE StopAt(d, n),
         d # cr3[t] => SpaceKept(t)
  PROVE  Takes(t, t, p, Hand(t), t, N)
<1>1. PICK r : r = cr3[t]
  OBVIOUS
<1>2. /\ \A n, q : InSpace(t, n, q) <=> n \in Stops /\ q = StopAt(r, n) /\ q # 0
      /\ \A n, q : InSpace(t, n, q)' <=> n \in Stops /\ q = StopAt(r, n)' /\ q # 0
      /\ \A n, q : InCall(t, n, q) <=> d # r /\ n \in Stops /\ q = StopAt(d, n) /\ q # 0
      /\ \A n, q : InCall(t, n, q)' <=> d # r /\ n \in Stops /\ q = StopAt(d, n)' /\ q # 0
      /\ \A q : IsStack(t, q)' <=> IsStack(t, q)
  BY <1>1, MapPlaces
<1>3. \A q : IsPage(t, q)' <=> IsPage(t, q)
  BY DEF IsPage
<1>4. p # 0
  BY PagesAre
<1>5. \A n, q : n \in Stops /\ q = StopAt(d, n)' /\ q # 0
                  <=> (n \in Stops /\ q = StopAt(d, n) /\ q # 0) \/ (n = N /\ q = p)
  BY <1>4
<1>6. Hand(t) = IF d = r THEN "space" ELSE "call"
  BY <1>1 DEF Hand
<1>7. CASE d = r
  BY <1>2, <1>3, <1>5, <1>6, <1>7 DEF Takes
<1>8. CASE d # r
  <2>1. \A n, q : InSpace(t, n, q)' <=> InSpace(t, n, q)
    BY <1>1, <1>2, <1>8 DEF SpaceKept
  <2> QED BY <1>2, <1>3, <1>5, <1>6, <1>8, <2>1 DEF Takes
<1> QED BY <1>7, <1>8

(* execve maps in a new space and leaves the old one as it is.             *)
LEMMA MapKeepsSpace ==
  ASSUME Tasks, Pages, NEW CONSTANT t \in Task, pc[t] \in MapPc, cr3'[t] = cr3[t], dir[t] # cr3[t],
         \A x : mem'[x] = mem[x] \/ \A u, n : /\ InSpace(u, n, x) => Hand(t) = "space" /\ u = t
                                              /\ InCall(u, n, x) => Hand(t) = "call" /\ u = t
  PROVE  SpaceKept(t)
<1>1. t \in Spaces
  BY Building DEF BuildPc
<1>2. Hand(t) # "space"
  BY DEF Hand
<1> QED BY <1>1, <1>2, SpaceStays DEF SpaceKept

(* A frame is mapped; its table must be made first; memory has run out; or *)
(* the page is mapped already, and the kernel stops.                       *)
LEMMA MapPageStep ==
  ASSUME MemInv, NEW CONSTANT t \in Task, map_page(t), halted = "no"
  PROVE  MemInv'
<1>0. MemTypeOK /\ Tasks /\ Pages /\ TaskInv(t) /\ pc[t] = "map" /\ todo[t] # <<>>
  BY Zenon DEF Tasks, MemInv, map_page
<1>1. UNCHANGED << cr3, esp0, parent, child, dir, at, goal, lost >>
  BY Zenon DEF map_page
<1>2. PICK d : d = dir[t]
  OBVIOUS
<1>3. PICK v \in VPage : v = NextV(t)
  BY <1>0, NextToMap DEF MapPc
<1>4. PICK rest \in Ranges : rest = PageDone(t)
  BY <1>0, NextToMap DEF MapPc
<1>5. /\ Pending(todo[t], v) /\ (rest = <<>> => Len(rest) < Len(todo[t]))
      /\ Tail(todo[t]) \in Ranges
      /\ ~starved => Frame(d, v) = 0
  BY <1>0, <1>2, <1>3, <1>4, NextToMap DEF MapPc
<1>6. /\ d \in Page /\ page[t] = 0 /\ cr3[t] \in Page /\ pc[t] \in MapPc /\ pc[t] \in BuildPc
      /\ pc[t] \notin {"free", "new", "zombie"} \cup CallPc
  BY <1>0, <1>2 DEF TaskInv, Caller, BuildPc, MapPc, CallPc, ForkPc, CopyPc, ReapPc
<1>7. CASE /\ Table(d, v) # 0 /\ Frame(d, v) = 0
           /\ \E p \in Page : addr_alloc_page(p) /\ MapFrame(d, v, p)
           /\ Allotted(t, rest) /\ UNCHANGED << pc, page, starved, halted >>
  <2>1. PICK p \in Page : addr_alloc_page(p) /\ MapFrame(d, v, p)
    BY <1>7
  <2>2. p \notin used /\ used' = used \cup {p} /\ p # 0
    BY <2>1, PagesAre DEF addr_alloc_page, Free
  <2>3. /\ mem' \in [Page -> [Entry -> 0..PageCount]]
        /\ \A n \in Stops : StopAt(d, n)' = IF n = FrameStop(v) THEN p ELSE StopAt(d, n)
        /\ \A x : mem'[x] = mem[x] \/ \A u, n : /\ InSpace(u, n, x) => Hand(t) = "space" /\ u = t
                                                /\ InCall(u, n, x) => Hand(t) = "call" /\ u = t
    BY <1>0, <1>2, <1>6, <1>7, <2>1, FrameMapped
  <2>4. /\ todo' \in [Task -> Seq(VPage \X VPage)] /\ todo'[t] = rest
        /\ \A u \in Task \ {t} : todo'[u] = todo[u]
        /\ heap_end' \in [Task -> -1..UserSize]
        /\ \A u \in Task \ {t} : heap_end'[u] = heap_end[u]
        /\ Len(rest) < Len(todo[t]) => heap_end'[t] = goal[t]
    BY <1>0, <1>7, AllottedIs
  <2>5. MemTypeOK'
    BY <1>0, <1>1, <1>7, <2>2, <2>3, <2>4 DEF MemTypeOK
  <2>6. StepOf(t, t)
    <3>1. \A u \in Task \ {t} : Same(u)
      BY <1>1, <1>7, <2>4 DEF Same
    <3>2. \A x : mem'[x] = mem[x] \/ \A u \in Task \ {t} : \A n : ~InSpace(u, n, x) /\ ~InCall(u, n, x)
      BY <2>3
    <3>3. pc'[t] \notin CallPc /\ (starved => starved')
      BY <1>6, <1>7
    <3> QED BY <1>0, <1>6, <3>1, <3>2, <3>3, StepAlone
  <2>7. FrameStop(v) \in Stops /\ StopAt(d, FrameStop(v)) = 0
    BY <1>7, FrameStopIn, FramesAreStops DEF FrameIn
  <2>8. HeapRight(t)'
    <3>1. \A u \in VPage : FrameIn(dir[t], u)' # 0 <=> u = v \/ FrameIn(dir[t], u) # 0
      BY <1>1, <1>2, <2>2, <2>3, FrameStopIn, FrameStopsApart DEF FrameIn
    <3>2. pc'[t] = "map" /\ goal'[t] = goal[t] /\ starved' = starved
      BY <1>0, <1>1, <1>7
    <3>3. rest = <<>> => heap_end'[t] = goal[t]
      BY <1>5, <2>4
    <3> QED BY <1>0, <1>3, <1>4, <1>6, <2>4, <3>1, <3>2, <3>3, HeapAdvances
  <2>9. TaskInv(t)'
    <3>1. Mapping(t)'
      BY <1>0, <1>7, <2>4 DEF Mapping
    <3>2. pc'[t] \in MapPc /\ page'[t] = 0 /\ pc'[t] # "map_table"
      BY <1>0, <1>6, <1>7
    <3> QED BY <1>0, <1>1, <1>6, <2>8, <3>1, <3>2, MapGoesOn
  <2>10. Tasks'
    BY <1>0, <2>6, <2>9, TasksAgain
  <2>11. Takes(t, t, p, Hand(t), t, FrameStop(v))
    <3>1. d # cr3[t] => SpaceKept(t)
      BY <1>0, <1>1, <1>2, <1>6, <2>3, MapKeepsSpace
    <3>2. pc'[t] \in MapPc /\ page'[t] = page[t]
      BY <1>6, <1>7
    <3> QED BY <1>0, <1>1, <1>2, <1>6, <2>3, <2>7, <2>10, <3>1, <3>2, FrameTakes
  <2>12. Pages'
    <3>1. Hand(t) \in {"space", "call"}
      BY DEF Hand
    <3> QED BY <1>0, <1>1, <2>2, <2>6, <2>11, <3>1, TakenPage
  <2> QED BY <1>0, <1>7, <2>5, <2>10, <2>12 DEF HaltsOnlyWhenStarved, MemInv
<1>8. CASE /\ Table(d, v) = 0 /\ pc' = [pc EXCEPT ![t] = "map_table"]
           /\ \E p \in Page : addr_alloc_page(p) /\ page' = [page EXCEPT ![t] = p]
           /\ UNCHANGED << mem, heap_end, todo, starved, halted >>
  <2>1. PICK p \in Page : addr_alloc_page(p) /\ page' = [page EXCEPT ![t] = p]
    BY <1>8
  <2>2. p \notin used /\ used' = used \cup {p} /\ p # 0 /\ p \in 0..PageCount
    BY <2>1, PagesAre DEF addr_alloc_page, Free
  <2>3. /\ page' \in [Task -> 0..PageCount] /\ page'[t] = p /\ \A u \in Task \ {t} : page'[u] = page[u]
        /\ pc' \in [Task -> Pc] /\ pc'[t] = "map_table" /\ \A u \in Task \ {t} : pc'[u] = pc[u]
    BY <1>0, <1>8, <2>1, <2>2 DEF MemTypeOK, Pc
  <2>4. MemTypeOK'
    BY <1>0, <1>1, <1>8, <2>2, <2>3 DEF MemTypeOK
  <2>5. StepOf(t, t)
    <3>1. \A u \in Task \ {t} : Same(u)
      BY <1>1, <1>8, <2>3 DEF Same
    <3>2. pc'[t] \notin CallPc
      BY <2>3 DEF CallPc, ForkPc, CopyPc, ReapPc
    <3> QED BY <1>0, <1>6, <1>8, <3>1, <3>2, StepAlone
  <2>6. \A e, n : StopAt(e, n)' = StopAt(e, n)
    BY <1>8, CalmStops
  <2>7. HeapRight(t)'
    <3>1. SUFFICES ASSUME ~starved
                   PROVE  /\ goal[t] \in 0..HeapTop
                          /\ \A u \in VPage :
                               /\ FrameIn(dir[t], u) # 0 \/ Pending(todo[t], u) <=> InUse(goal[t], u)
                               /\ Pending(todo[t], u) => FrameIn(dir[t], u) = 0
                          /\ todo[t] = <<>> => heap_end[t] = goal[t]
      <4>1. \A u \in VPage : FrameIn(dir[t], u)' = FrameIn(dir[t], u)
        BY <1>1, <2>6 DEF FrameIn
      <4>2. \A u \in VPage : (Pending(todo[t], u)' <=> Pending(todo[t], u)) /\ (InUse(goal[t], u)' <=> InUse(goal[t], u))
        BY <1>1, <1>8 DEF Pending, InUse
      <4>3. todo'[t] = todo[t] /\ heap_end'[t] = heap_end[t] /\ goal'[t] = goal[t]
        BY <1>1, <1>8
      <4> QED BY <1>8, <2>3, <3>1, <4>1, <4>2, <4>3 DEF HeapRight, MapPc
    <3> QED BY <1>0, <1>6, <3>1 DEF TaskInv, HeapRight
  <2>8. TaskInv(t)'
    <3>1. Mapping(t)'
      <4>1. TableIn(dir[t], v) = 0
        BY <1>2, <1>8, FramesAreStops
      <4>2. NextV(t)' = v /\ TableIn(dir[t], v)' = 0
        BY <1>1, <1>3, <1>8, <2>6, <4>1 DEF NextV, TableIn
      <4>3. todo'[t] \in Ranges /\ todo'[t] # <<>>
        BY <1>0, <1>6, <1>8 DEF TaskInv, Mapping
      <4> QED BY <4>2, <4>3 DEF Mapping
    <3>2. pc'[t] \in MapPc /\ page'[t] # 0 /\ pc'[t] = "map_table"
      BY <2>2, <2>3 DEF MapPc
    <3> QED BY <1>0, <1>1, <1>6, <2>7, <3>1, <3>2, MapGoesOn
  <2>9. Tasks'
    BY <1>0, <2>5, <2>8, TasksAgain
  <2>10. Takes(t, t, p, "page", t, 0)
    <3>1. PICK r : r = cr3[t]
      OBVIOUS
    <3>2. /\ \A n, q : InSpace(t, n, q) <=> n \in Stops /\ q = StopAt(r, n) /\ q # 0
          /\ \A n, q : InSpace(t, n, q)' <=> n \in Stops /\ q = StopAt(r, n)' /\ q # 0
          /\ \A n, q : InCall(t, n, q) <=> d # r /\ n \in Stops /\ q = StopAt(d, n) /\ q # 0
          /\ \A n, q : InCall(t, n, q)' <=> d # r /\ n \in Stops /\ q = StopAt(d, n)' /\ q # 0
          /\ \A q : IsStack(t, q)' <=> IsStack(t, q)
      <4>1. pc'[t] \in MapPc
        BY <2>3 DEF MapPc
      <4> QED BY <1>0, <1>1, <1>2, <1>6, <2>9, <3>1, <4>1, MapPlaces
    <3>3. \A q : ~IsPage(t, q) /\ (IsPage(t, q)' <=> q = p)
      BY <1>6, <2>2, <2>3 DEF IsPage
    <3> QED BY <2>6, <3>2, <3>3 DEF Takes
  <2>11. Pages'
    BY <1>0, <1>1, <2>2, <2>5, <2>10, TakenPage
  <2> QED BY <1>0, <1>8, <2>4, <2>9, <2>11 DEF HaltsOnlyWhenStarved, MemInv
<1>9. CASE /\ starved' = TRUE /\ Allotted(t, Tail(todo[t]))
           /\ UNCHANGED << used, mem, pc, page, halted >>
  <2>1. /\ todo' \in [Task -> Seq(VPage \X VPage)] /\ todo'[t] = Tail(todo[t])
        /\ \A u \in Task \ {t} : todo'[u] = todo[u]
        /\ heap_end' \in [Task -> -1..UserSize]
        /\ \A u \in Task \ {t} : heap_end'[u] = heap_end[u]
    <3>1. PICK s \in Ranges : s = Tail(todo[t])
      BY <1>5
    <3>2. Allotted(t, s)
      BY <1>9, <3>1
    <3> QED BY <1>0, <3>1, <3>2, AllottedIs
  <2>2. MemTypeOK'
    BY <1>0, <1>1, <1>9, <2>1 DEF MemTypeOK
  <2>3. StepOf(t, t)
    <3>1. \A u \in Task \ {t} : Same(u)
      BY <1>1, <1>9, <2>1 DEF Same
    <3> QED BY <1>0, <1>6, <1>9, <3>1, StepAlone
  <2>4. \A e, n : StopAt(e, n)' = StopAt(e, n)
    BY <1>9, CalmStops
  <2>5. TaskInv(t)'
    <3>1. Mapping(t)'
      BY <1>0, <1>5, <1>9, <2>1 DEF Mapping
    <3>2. HeapRight(t)'
      BY <1>9 DEF HeapRight
    <3>3. pc'[t] \in MapPc /\ page'[t] = 0 /\ pc'[t] # "map_table"
      BY <1>0, <1>6, <1>9
    <3> QED BY <1>0, <1>1, <1>6, <3>1, <3>2, <3>3, MapGoesOn
  <2>6. Tasks'
    BY <1>0, <2>3, <2>5, TasksAgain
  <2>7. Calm(t, t)
    <3>1. PICK r : r = cr3[t]
      OBVIOUS
    <3>2. /\ \A n, q : InSpace(t, n, q) <=> n \in Stops /\ q = StopAt(r, n) /\ q # 0
          /\ \A n, q : InSpace(t, n, q)' <=> n \in Stops /\ q = StopAt(r, n)' /\ q # 0
          /\ \A n, q : InCall(t, n, q) <=> d # r /\ n \in Stops /\ q = StopAt(d, n) /\ q # 0
          /\ \A n, q : InCall(t, n, q)' <=> d # r /\ n \in Stops /\ q = StopAt(d, n)' /\ q # 0
          /\ \A q : IsStack(t, q)' <=> IsStack(t, q)
      <4>1. pc'[t] \in MapPc
        BY <1>6, <1>9
      <4> QED BY <1>0, <1>1, <1>2, <1>6, <2>6, <3>1, <4>1, MapPlaces
    <3>3. \A q : IsPage(t, q)' <=> IsPage(t, q)
      BY <1>9 DEF IsPage
    <3> QED BY <2>4, <3>2, <3>3 DEF Calm
  <2>8. Pages'
    BY <1>0, <1>1, <1>9, <2>3, <2>7, CalmPages
  <2> QED BY <1>0, <1>9, <2>2, <2>6, <2>8 DEF HaltsOnlyWhenStarved, MemInv
<1>10. CASE /\ Frame(d, v) # 0 /\ halted' \in Halts
            /\ UNCHANGED << used, mem, pc, heap_end, page, todo, starved >>
  <2>1. starved
    BY <1>5, <1>10
  <2>2. Tasks' /\ Pages'
    BY <1>0, <1>1, <1>10, NothingMoves DEF spaceVars, taskVars, callVars
  <2>3. MemTypeOK'
    BY <1>0, <1>1, <1>10 DEF MemTypeOK
  <2>4. HaltsOnlyWhenStarved'
    BY <1>10, <2>1, Zenon DEF HaltsOnlyWhenStarved
  <2> QED BY <2>2, <2>3, <2>4 DEF MemInv
<1>11. \/ /\ Table(d, v) # 0 /\ Frame(d, v) = 0
          /\ \E p \in Page : addr_alloc_page(p) /\ MapFrame(d, v, p)
          /\ Allotted(t, rest) /\ UNCHANGED << pc, page, starved, halted >>
       \/ /\ Table(d, v) = 0 /\ pc' = [pc EXCEPT ![t] = "map_table"]
          /\ \E p \in Page : addr_alloc_page(p) /\ page' = [page EXCEPT ![t] = p]
          /\ UNCHANGED << mem, heap_end, todo, starved, halted >>
       \/ /\ starved' = TRUE /\ Allotted(t, Tail(todo[t]))
          /\ UNCHANGED << used, mem, pc, page, halted >>
       \/ /\ Frame(d, v) # 0 /\ halted' \in Halts
          /\ UNCHANGED << used, mem, pc, heap_end, page, todo, starved >>
  <2>1. halted' = "mapped twice" => halted' \in Halts
    BY Zenon DEF Halts
  <2>2. UNCHANGED spaceVars => UNCHANGED << used, mem >>
    BY DEF spaceVars
  <2> QED BY <1>2, <1>3, <1>4, <2>1, <2>2, Zenon DEF map_page, Goes, Exhausted
<1> QED BY <1>7, <1>8, <1>9, <1>10, <1>11
------------------------------------------------------------------------------
(* The same, when a table comes with the frame that was in hand.           *)
LEMMA TableTakes ==
  ASSUME MemTypeOK, Tasks, Pages, Tasks', NEW CONSTANT t \in Task,
         pc[t] \in MapPc, pc'[t] \in MapPc, page'[t] = 0,
         cr3'[t] = cr3[t], dir'[t] = dir[t], esp0'[t] = esp0[t],
         NEW CONSTANT d, d = dir[t], NEW CONSTANT N \in Stops, NEW CONSTANT M \in Stops, N # M,
         NEW CONSTANT r \in Page, NEW CONSTANT q \in Page,
         StopAt(d, N) = 0, StopAt(d, M) = 0,
         \A n \in Stops : StopAt(d, n)' = IF n = N THEN r ELSE IF n = M THEN q ELSE StopAt(d, n),
         d # cr3[t] => SpaceKept(t)
  PROVE  TakesTable(t, t, q, r, Hand(t), N, M)
<1>1. PICK R : R = cr3[t]
  OBVIOUS
<1>2. /\ \A n, p : InSpace(t, n, p) <=> n \in Stops /\ p = StopAt(R, n) /\ p # 0
      /\ \A n, p : InSpace(t, n, p)' <=> n \in Stops /\ p = StopAt(R, n)' /\ p # 0
      /\ \A n, p : InCall(t, n, p) <=> d # R /\ n \in Stops /\ p = StopAt(d, n) /\ p # 0
      /\ \A n, p : InCall(t, n, p)' <=> d # R /\ n \in Stops /\ p = StopAt(d, n)' /\ p # 0
      /\ \A p : IsStack(t, p)' <=> IsStack(t, p)
  BY <1>1, MapPlaces
<1>3. \A p : ~IsPage(t, p)'
  BY DEF IsPage
<1>4. r # 0 /\ q # 0
  BY PagesAre
<1>5. ASSUME NEW CONSTANT n, NEW CONSTANT p
      PROVE  n \in Stops /\ p = StopAt(d, n)' /\ p # 0
               <=> (n \in Stops /\ p = StopAt(d, n) /\ p # 0) \/ (n = N /\ p = r) \/ (n = M /\ p = q)
  <2>1. CASE n = N
    BY <1>4, <2>1
  <2>2. CASE n = M
    BY <1>4, <2>2
  <2>3. CASE n \notin {N, M}
    BY <2>3
  <2> QED BY <2>1, <2>2, <2>3
<1>6. Hand(t) = IF d = R THEN "space" ELSE "call"
  BY <1>1 DEF Hand
<1>7. CASE d = R
  BY <1>2, <1>3, <1>5, <1>6, <1>7 DEF TakesTable
<1>8. CASE d # R
  <2>1. \A n, p : InSpace(t, n, p)' <=> InSpace(t, n, p)
    BY <1>1, <1>2, <1>8 DEF SpaceKept
  <2> QED BY <1>2, <1>3, <1>5, <1>6, <1>8, <2>1 DEF TakesTable
<1> QED BY <1>7, <1>8

(* The frame and its table are mapped; or memory has run out, the frame is *)
(* forgotten, and the new space is given up or the call ends.              *)
LEMMA MapTableStep ==
  ASSUME MemInv, NEW CONSTANT t \in Task, map_table(t), halted = "no"
  PROVE  MemInv'
<1>0. MemTypeOK /\ Tasks /\ Pages /\ TaskInv(t) /\ pc[t] = "map_table"
  BY DEF Tasks, MemInv, map_table, Goes
<1>1. UNCHANGED << cr3, esp0, parent, child, halted >> /\ page' = [page EXCEPT ![t] = 0]
  BY DEF map_table
<1>2. PICK d : d = dir[t]
  OBVIOUS
<1>3. todo[t] # <<>> /\ TableIn(d, NextV(t)) = 0 /\ pc[t] \in MapPc
  BY <1>0, <1>2 DEF TaskInv, Mapping, MapPc
<1>4. PICK v \in VPage : v = NextV(t)
  BY <1>0, <1>3, NextToMap
<1>5. PICK rest \in Ranges : rest = PageDone(t)
  BY <1>0, <1>3, NextToMap
<1>6. Pending(todo[t], v) /\ (rest = <<>> => Len(rest) < Len(todo[t]))
  BY <1>0, <1>3, <1>4, <1>5, NextToMap
<1>7. PICK r \in Page : r = page[t]
  BY <1>0, MemoryAssumption DEF TaskInv, Caller, MemTypeOK, Page
<1>8. /\ d \in Page /\ r # 0 /\ cr3[t] \in Page /\ pc[t] \in BuildPc /\ Table(d, v) = 0
      /\ pc[t] \notin {"free", "new", "zombie"} \cup CallPc
  <2>1. Table(d, v) = 0
    BY <1>3, <1>4, FramesAreStops
  <2> QED BY <1>0, <1>2, <1>7, <2>1, PagesAre
          DEF TaskInv, Caller, BuildPc, MapPc, CallPc, ForkPc, CopyPc, ReapPc
<1>9. /\ page' \in [Task -> 0..PageCount] /\ page'[t] = 0
      /\ \A u \in Task \ {t} : page'[u] = page[u]
  BY <1>0, <1>1, MemoryAssumption DEF MemTypeOK
<1>10. IsPage(t, r) /\ \A p : (IsPage(t, p) <=> p = r) /\ ~IsPage(t, p)'
  BY <1>7, <1>8, <1>9 DEF IsPage
<1>11. PICK to \in {"map", "exec_undo", "user"} :
        /\ pc' = [pc EXCEPT ![t] = to] /\ pc' \in [Task -> Pc] /\ pc'[t] = to
        /\ \A u \in Task \ {t} : pc'[u] = pc[u]
  BY <1>0 DEF MemTypeOK, Pc, map_table, Goes
<1>12. pc'[t] \notin CallPc
  BY <1>11 DEF CallPc, ForkPc, CopyPc, ReapPc
<1>13. CASE /\ to = "map"
            /\ \E q \in Page : addr_alloc_page(q) /\ MapFrameInNewTable(d, v, r, q)
            /\ Allotted(t, rest) /\ UNCHANGED << dir, at, goal, lost, starved >>
  <2>1. PICK q \in Page : addr_alloc_page(q) /\ MapFrameInNewTable(d, v, r, q)
    BY <1>13
  <2>2. q \notin used /\ used' = used \cup {q} /\ q # 0
    BY <2>1, PagesAre DEF addr_alloc_page, Free
  <2>3. /\ mem' \in [Page -> [Entry -> 0..PageCount]]
        /\ \A n \in Stops : StopAt(d, n)' = IF n = FrameStop(v) THEN r
                                            ELSE IF n = TableStop(v) THEN q ELSE StopAt(d, n)
        /\ \A x : mem'[x] = mem[x] \/ \A u, n : /\ InSpace(u, n, x) => Hand(t) = "space" /\ u = t
                                                /\ InCall(u, n, x) => Hand(t) = "call" /\ u = t
        /\ StopAt(d, FrameStop(v)) = 0 /\ StopAt(d, TableStop(v)) = 0
    BY <1>0, <1>2, <1>8, <2>1, <2>2, TableMapped
  <2>4. /\ todo' \in [Task -> Seq(VPage \X VPage)] /\ todo'[t] = rest
        /\ \A u \in Task \ {t} : todo'[u] = todo[u]
        /\ heap_end' \in [Task -> -1..UserSize]
        /\ \A u \in Task \ {t} : heap_end'[u] = heap_end[u]
        /\ Len(rest) < Len(todo[t]) => heap_end'[t] = goal[t]
    BY <1>0, <1>13, AllottedIs
  <2>5. MemTypeOK'
    BY <1>0, <1>1, <1>9, <1>11, <1>13, <2>2, <2>3, <2>4 DEF MemTypeOK
  <2>6. StepOf(t, t)
    <3>1. \A u \in Task \ {t} : Same(u)
      BY <1>1, <1>9, <1>11, <1>13, <2>4 DEF Same
    <3>2. \A x : mem'[x] = mem[x] \/ \A u \in Task \ {t} : \A n : ~InSpace(u, n, x) /\ ~InCall(u, n, x)
      BY <2>3
    <3> QED BY <1>0, <1>8, <1>12, <1>13, <3>1, <3>2, StepAlone
  <2>7. pc'[t] = "map" /\ pc'[t] \in MapPc
    BY <1>11, <1>13 DEF MapPc
  <2>8. /\ FrameStop(v) \in Stops /\ TableStop(v) \in Stops
        /\ \A u \in VPage : FrameStop(u) # TableStop(v)
    BY FrameStopIn, StopsOfAPage, PageIndices, Sizes DEF W
  <2>9. HeapRight(t)'
    <3>1. \A u \in VPage : FrameIn(dir[t], u)' # 0 <=> u = v \/ FrameIn(dir[t], u) # 0
      BY <1>2, <1>8, <1>13, <2>3, <2>8, FrameStopIn, FrameStopsApart DEF FrameIn
    <3>2. goal'[t] = goal[t] /\ starved' = starved
      BY <1>13
    <3>3. rest = <<>> => heap_end'[t] = goal[t]
      BY <1>6, <2>4
    <3> QED BY <1>0, <1>3, <1>4, <1>5, <2>4, <2>7, <3>1, <3>2, <3>3, HeapAdvances
  <2>10. TaskInv(t)'
    <3>1. Mapping(t)'
      BY <2>4, <2>7 DEF Mapping
    <3>2. cr3'[t] = cr3[t] /\ dir'[t] = dir[t]
      BY <1>1, <1>13
    <3> QED BY <1>0, <1>3, <1>9, <2>7, <2>9, <3>1, <3>2, MapGoesOn
  <2>11. Tasks'
    BY <1>0, <2>6, <2>10, TasksAgain
  <2>12. TakesTable(t, t, q, r, Hand(t), FrameStop(v), TableStop(v))
    <3>1. d # cr3[t] => SpaceKept(t)
      BY <1>0, <1>1, <1>2, <1>3, <2>3, MapKeepsSpace
    <3>2. cr3'[t] = cr3[t] /\ dir'[t] = dir[t] /\ esp0'[t] = esp0[t]
      BY <1>1, <1>13
    <3> QED BY <1>0, <1>2, <1>3, <1>9, <2>3, <2>7, <2>8, <2>11, <3>1, <3>2, TableTakes
  <2>13. Pages'
    <3>1. Hand(t) \in {"space", "call"}
      BY DEF Hand
    <3> QED BY <1>0, <1>10, <1>13, <2>2, <2>6, <2>12, <3>1, TableTaken
  <2> QED BY <1>0, <1>1, <1>13, <2>5, <2>11, <2>13 DEF HaltsOnlyWhenStarved, MemInv
<1>14. CASE /\ to \in {"exec_undo", "user"} /\ starved' = TRUE /\ lost' = lost \cup {r}
            /\ UNCHANGED << used, mem, heap_end >>
            /\ to = "exec_undo" => /\ d # cr3[t] /\ at' = [at EXCEPT ![t] = 1]
                                   /\ UNCHANGED << dir, todo, goal >>
            /\ to = "user" => /\ d = cr3[t] /\ todo' = [todo EXCEPT ![t] = <<>>]
                              /\ goal' = [goal EXCEPT ![t] = NoHeap]
                              /\ dir' = [dir EXCEPT ![t] = 0] /\ UNCHANGED at
  <2>1. /\ at' \in [Task -> 0..LastStop] /\ (to = "exec_undo" => at'[t] = 1)
        /\ dir' \in [Task -> 0..PageCount] /\ dir'[t] = IF to = "user" THEN 0 ELSE d
        /\ todo' \in [Task -> Seq(VPage \X VPage)] /\ goal' \in [Task -> -1..UserSize]
        /\ \A u \in Task \ {t} : at'[u] = at[u] /\ dir'[u] = dir[u] /\ todo'[u] = todo[u] /\ goal'[u] = goal[u]
    <3>1. 1 \in 0..LastStop /\ 0 \in 0..PageCount
      BY Sizes, MemoryAssumption
    <3>2. CASE to = "exec_undo"
      BY <1>0, <1>2, <1>14, <3>1, <3>2 DEF MemTypeOK
    <3>3. CASE to = "user"
      <4>1. /\ todo' = [todo EXCEPT ![t] = <<>>] /\ goal' = [goal EXCEPT ![t] = NoHeap]
            /\ dir' = [dir EXCEPT ![t] = 0] /\ at' = at
        BY <1>14, <3>3
      <4>2. /\ todo \in [Task -> Seq(VPage \X VPage)] /\ <<>> \in Seq(VPage \X VPage)
            /\ goal \in [Task -> -1..UserSize] /\ NoHeap \in -1..UserSize
            /\ dir \in [Task -> 0..PageCount] /\ at \in [Task -> 0..LastStop]
        BY <1>0, HeapSizes, NoRange DEF MemTypeOK
      <4>3. /\ todo' \in [Task -> Seq(VPage \X VPage)] /\ \A u \in Task \ {t} : todo'[u] = todo[u]
        BY <4>1, <4>2
      <4>4. /\ goal' \in [Task -> -1..UserSize] /\ \A u \in Task \ {t} : goal'[u] = goal[u]
        BY <4>1, <4>2
      <4>5. /\ dir' \in [Task -> 0..PageCount] /\ dir'[t] = 0 /\ \A u \in Task \ {t} : dir'[u] = dir[u]
        BY <3>1, <4>1, <4>2
      <4> QED BY <3>3, <4>1, <4>2, <4>3, <4>4, <4>5
    <3> QED BY <1>14, <3>2, <3>3
  <2>2. MemTypeOK'
    BY <1>0, <1>1, <1>9, <1>11, <1>14, <2>1 DEF MemTypeOK
  <2>3. StepOf(t, t)
    <3>1. \A u \in Task \ {t} : Same(u)
      BY <1>1, <1>9, <1>11, <1>14, <2>1 DEF Same
    <3> QED BY <1>0, <1>8, <1>12, <1>14, <3>1, StepAlone
  <2>4. \A e, n : StopAt(e, n)' = StopAt(e, n)
    BY <1>14, CalmStops
  <2>5. TaskInv(t)'
    <3>1. HeapRight(t)'
      BY <1>14 DEF HeapRight
    <3>2. Hungry(t)'
      BY <1>14 DEF Hungry
    <3>3. cr3'[t] \in Page /\ page'[t] = 0
      BY <1>1, <1>8, <1>9
    <3>4. CASE to = "user"
      <4>1. pc'[t] = "user" /\ dir'[t] = 0
        BY <1>11, <2>1, <3>4
      <4> QED BY <3>1, <3>2, <3>3, <4>1, RestInv
    <3>5. CASE to = "exec_undo"
      <4>1. pc'[t] = "exec_undo" /\ dir'[t] \in Page /\ dir'[t] # cr3'[t] /\ at'[t] \in Stops
        BY <1>1, <1>8, <1>11, <1>14, <2>1, <3>5, Sizes DEF Stops
      <4>2. Caller(t)'
        BY <3>3, <4>1 DEF Caller, MapPc
      <4>3. Parental(t)' /\ Copying(t)' /\ Mapping(t)'
        BY <4>1 DEF Parental, Copying, Mapping, MapPc, ForkPc, CopyPc, ReapPc
      <4> QED BY <3>1, <3>2, <4>2, <4>3 DEF TaskInv
    <3> QED BY <1>14, <3>4, <3>5
  <2>6. Tasks'
    BY <1>0, <2>3, <2>5, TasksAgain
  <2>7. /\ \A n, p : InSpace(t, n, p)' <=> InSpace(t, n, p)
        /\ \A p : IsStack(t, p)' <=> IsStack(t, p)
    <3>1. cr3'[t] = cr3[t] /\ esp0'[t] = esp0[t]
      BY <1>1
    <3>2. SpaceKept(t)
      BY <1>1, <2>4 DEF SpaceKept
    <3>3. pc'[t] \notin {"free", "new", "zombie"} /\ pc[t] \notin {"free", "new", "zombie"}
      BY <1>0, <1>11
    <3> QED BY <1>0, <1>8, <2>6, <3>1, <3>2, <3>3, PlacesStay
  <2>8. \A n, p : InCall(t, n, p)' <=> InCall(t, n, p)
    <3>1. CASE to = "user"
      <4>1. ~HasDir(t) /\ ~HasDir(t)'
        BY <1>2, <1>14, <2>1, <3>1 DEF HasDir
      <4> QED BY <4>1 DEF InCall
    <3>2. CASE to = "exec_undo"
      <4>1. dir'[t] = dir[t] /\ cr3'[t] = cr3[t] /\ pc'[t] = "exec_undo" /\ at'[t] = 1
        BY <1>1, <1>2, <1>11, <1>14, <2>1, <3>2
      <4>2. (HasDir(t)' <=> HasDir(t)) /\ From(t)' = From(t)
        BY <1>0, <4>1 DEF HasDir, From
      <4> QED BY <2>4, <4>1, <4>2 DEF InCall
    <3> QED BY <1>14, <3>1, <3>2
  <2>9. Owns("page", t, 0, r)
    BY <1>10, PageOwns
  <2>10. \A x, n : ~InSpace(x, n, r) /\ ~InCall(x, n, r) /\ ~IsStack(x, r)
    BY <1>0, <2>9, OwnedOnce
  <2>11. Gives(t, t, r)
    BY <1>10, <2>7, <2>8, <2>10 DEF Gives
  <2>12. Pages'
    BY <1>0, <1>14, <2>3, <2>9, <2>11, LostPage
  <2> QED BY <1>0, <1>1, <1>14, <2>2, <2>6, <2>12 DEF HaltsOnlyWhenStarved, MemInv
<1>15. \/ /\ Goes(t, "map_table", "map")
          /\ \E q \in Page : addr_alloc_page(q) /\ MapFrameInNewTable(d, v, r, q)
          /\ Allotted(t, rest) /\ UNCHANGED << dir, at, goal, lost, starved >>
       \/ /\ Goes(t, "map_table", "exec_undo") /\ starved' = TRUE /\ lost' = lost \cup {r}
          /\ UNCHANGED << used, mem, heap_end >> /\ d # cr3[t] /\ at' = [at EXCEPT ![t] = 1]
          /\ UNCHANGED << dir, todo, goal >>
       \/ /\ Goes(t, "map_table", "user") /\ starved' = TRUE /\ lost' = lost \cup {r}
          /\ UNCHANGED << used, mem, heap_end >> /\ d = cr3[t] /\ todo' = [todo EXCEPT ![t] = <<>>]
          /\ goal' = [goal EXCEPT ![t] = NoHeap] /\ dir' = [dir EXCEPT ![t] = 0] /\ UNCHANGED at
  BY <1>2, <1>4, <1>5, <1>7 DEF map_table, Exhausted, spaceVars
<1>16. \A s : Goes(t, "map_table", s) => pc'[t] = s
  BY <1>0 DEF Goes, MemTypeOK
<1> QED BY <1>11, <1>13, <1>14, <1>15, <1>16
------------------------------------------------------------------------------
(* Every step of a call that is under way, and of one that begins.         *)
LEMMA ForkSteps ==
  ASSUME MemInv, NEW CONSTANT t \in Task, sys_fork(t), halted = "no"
  PROVE  MemInv'
<1>1. CASE copy_dir(t)
  <2>0. pc[t] = "copy_dir"
    BY <1>1 DEF copy_dir
  <2>1. CASE \E p \in Page :
               /\ Goes(t, "copy_dir", "copy") /\ addr_alloc_page(p)
               /\ mem' = [mem EXCEPT ![p] = Empty]
               /\ dir' = [dir EXCEPT ![t] = p]
               /\ at'  = [at EXCEPT ![t] = 1]
               /\ UNCHANGED << taskVars, child, page, todo, goal, lost, starved, halted >>
    <3>1. PICK p \in Page :
               /\ Goes(t, "copy_dir", "copy") /\ addr_alloc_page(p)
               /\ mem' = [mem EXCEPT ![p] = Empty]
               /\ dir' = [dir EXCEPT ![t] = p]
               /\ at'  = [at EXCEPT ![t] = 1]
               /\ UNCHANGED << taskVars, child, page, todo, goal, lost, starved, halted >>
      BY <2>1
    <3> QED BY <2>0, <3>1, CopyDirStep
  <2>2. CASE Exhausted /\ fork_ends(t, BadDir) /\ UNCHANGED spaceVars
    BY <2>0, <2>2, CopyDirFailsStep
  <2> QED BY <1>1, <2>1, <2>2, Zenon DEF copy_dir
<1>2. CASE copy_undo(t)
  <2>1. "copy_undo" \in WalkPc /\ "copy_failed" = WalkEnd("copy_undo")
    BY DEF WalkPc, WalkEnd
  <2>2. /\ memory_destroy_uvm(t, "copy_undo", "copy_failed")
        /\ UNCHANGED << taskVars, child, dir, page, todo, goal, lost, starved, halted >>
    BY <1>2, Zenon DEF copy_undo
  <2> QED BY <2>1, <2>2, WalkStep
<1>3. CASE task_uninit(t)
  <2>1. starved' = starved
    BY <1>3 DEF task_uninit
  <2> QED BY <1>3, <2>1, TaskUninitStep
<1>4. CASE copy_ends(t)
  BY <1>4, CopyEndsStep
<1>5. CASE tss_init_stack(t)
  BY <1>5, TssInitStackStep
<1>6. CASE tss_init_dir(t)
  BY <1>6, TssInitDirStep
<1>7. CASE copy_page(t)
  BY <1>7, CopyPageStep
<1>8. CASE copy_table(t)
  BY <1>8, CopyTableStep
<1> QED BY <1>1, <1>2, <1>3, <1>4, <1>5, <1>6, <1>7, <1>8 DEF sys_fork

(* The steps of sys_wait.                                                  *)
LEMMA WaitSteps ==
  ASSUME MemInv, NEW CONSTANT t \in Task, sys_wait(t), halted = "no"
  PROVE  MemInv'
<1>1. CASE reap(t)
  <2>1. "reap" \in WalkPc /\ "reap_stack" = WalkEnd("reap")
    BY DEF WalkPc, WalkEnd
  <2>2. /\ memory_destroy_uvm(t, "reap", "reap_stack")
        /\ UNCHANGED << taskVars, child, dir, page, todo, goal, lost, starved, halted >>
    BY <1>1, Zenon DEF reap
  <2> QED BY <2>1, <2>2, WalkStep
<1>2. CASE reap_stack(t)
  BY <1>2, ReapStackStep
<1> QED BY <1>1, <1>2 DEF sys_wait

(* The steps of sys_execv.                                                 *)
LEMMA ExecSteps ==
  ASSUME MemInv, NEW CONSTANT t \in Task, sys_execv(t), halted = "no"
  PROVE  MemInv'
<1>1. CASE exec_undo(t)
  <2>1. "exec_undo" \in WalkPc /\ "exec_failed" = WalkEnd("exec_undo")
    BY DEF WalkPc, WalkEnd
  <2>2. /\ memory_destroy_uvm(t, "exec_undo", "exec_failed")
        /\ UNCHANGED << taskVars, child, dir, page, todo, goal, lost, starved, halted >>
    BY <1>1, Zenon DEF exec_undo
  <2> QED BY <2>1, <2>2, WalkStep
<1>2. CASE exec_ends(t)
  BY <1>2, ExecEndsStep
<1>3. CASE exec_failed(t)
  BY <1>3, ExecFailedStep
<1> QED BY <1>1, <1>2, <1>3 DEF sys_execv

(* Every step of a call that is under way,                                 *)
LEMMA ProceedsStep ==
  ASSUME MemInv, NEW CONSTANT t \in Task, Proceeds(t), halted = "no"
  PROVE  MemInv'
<1>1. CASE sys_fork(t)
  BY <1>1, ForkSteps
<1>2. CASE sys_wait(t)
  BY <1>2, WaitSteps
<1>3. CASE map_page(t)
  BY <1>3, MapPageStep
<1>4. CASE map_table(t)
  BY <1>4, MapTableStep
<1>5. CASE sbrk_ends(t)
  BY <1>5, SbrkEndsStep
<1>6. CASE sys_execv(t)
  BY <1>6, ExecSteps
<1> QED BY <1>1, <1>2, <1>3, <1>4, <1>5, <1>6 DEF Proceeds

(* every beginning of a call,                                              *)
LEMMA BeginsStep ==
  ASSUME MemInv, NEW CONSTANT t \in Task, Begins(t), halted = "no"
  PROVE  MemInv'
<1>0. cr3[t] # BadDir
  BY DEF Begins
<1>1. CASE fork(t)
  BY <1>0, <1>1, ForkStep
<1>2. CASE wait(t)
  BY <1>0, <1>2, WaitStep
<1>3. CASE exit(t)
  BY <1>0, <1>3, ExitStep
<1>4. CASE sys_sbrk(t)
  <2>1. CASE sbrk_outside(t)
    BY <2>1, SbrkOutsideStep
  <2>2. ASSUME NEW CONSTANT incr \in 1..MaxIncr, sbrk_in_page(t, incr)
        PROVE  MemInv'
    BY <1>0, <2>2, SbrkInPageStep
  <2>3. ASSUME NEW CONSTANT incr \in 1..MaxIncr, sbrk_pages(t, incr)
        PROVE  MemInv'
    BY <1>0, <2>3, SbrkPagesStep
  <2> QED BY <1>4, <2>1, <2>2, <2>3 DEF sys_sbrk
<1>5. CASE exec_without_dir(t)
  BY <1>5, ExecWithoutDirStep
<1>6. CASE \E memsz \in Programs : exec(t, memsz)
  <2>1. PICK memsz \in Programs : exec(t, memsz)
    BY <1>6
  <2> QED BY <1>0, <2>1, ExecStep
<1> QED BY <1>1, <1>2, <1>3, <1>4, <1>5, <1>6 DEF Begins

(* and so every step of the system keeps the invariant.                    *)
LEMMA MemInvStep ==
  ASSUME MemInv, [Next]_vars
  PROVE  MemInv'
<1>1. CASE halted = "no" /\ \E t \in Task : Proceeds(t)
  BY <1>1, ProceedsStep
<1>2. CASE halted = "no" /\ \E t \in Task : Reset(t)
  BY <1>2, ResetStep
<1>3. CASE halted = "no" /\ \E t \in Task : Begins(t)
  BY <1>3, BeginsStep
<1>4. CASE UNCHANGED vars
  BY <1>4, NothingChanges
<1> QED BY <1>1, <1>2, <1>3, <1>4 DEF Next, Halted
------------------------------------------------------------------------------
(* The first task owns a stack, a directory, a table and a page.           *)
LEMMA InitStops ==
  ASSUME Init, NEW n \in Stops
  PROVE  StopAt(2, n) = IF n = LastStop THEN 2 ELSE IF n = W THEN 4 ELSE IF n = 1 THEN 3 ELSE 0
<1>1. CASE n = LastStop
  BY <1>1 DEF StopAt
<1>2. CASE n # LastStop
  <2>1. n \in 1..(LastStop - 1)
    BY <1>2, Sizes DEF Stops
  <2>2. Row(n) \in 1..PdeCount /\ Col(n) \in 1..W /\ n = (Row(n) - 1) * W + Col(n)
    BY <2>1, RowAndCol
  <2>3. 1 \in Entry /\ Row(n) \in Entry /\ (Col(n) # W => Col(n) \in Entry) /\ W # 1
    BY <2>2, Sizes DEF W
  <2>4. mem[2] = [Empty EXCEPT ![1] = 4] /\ mem[4] = [Empty EXCEPT ![1] = 3]
    BY MemoryAssumption DEF Init, Page
  <2>5. \A e \in Entry : mem[2][e] = (IF e = 1 THEN 4 ELSE 0) /\ mem[4][e] = (IF e = 1 THEN 3 ELSE 0)
    BY <2>4 DEF Empty
  <2>6. StopAt(2, n) = IF Row(n) # 1 THEN 0
                       ELSE IF Col(n) = W THEN 4 ELSE IF Col(n) = 1 THEN 3 ELSE 0
    BY <2>1, <2>3, <2>5, StopIs
  <2>7. CASE Row(n) = 1
    <3>1. n = Col(n)
      BY <2>2, <2>7, Sizes
    <3> QED BY <1>2, <2>6, <2>7, <3>1
  <2>8. CASE Row(n) # 1
    <3>1. (Row(n) - 1) * W >= W
      <4>1. Row(n) - 1 \in Nat /\ 1 <= Row(n) - 1 /\ W \in Nat
        BY <2>2, <2>8, Sizes
      <4>2. 1 * W <= (Row(n) - 1) * W
        BY <4>1, ProductMonotonic
      <4>3. 1 * W = W
        BY Sizes
      <4> QED BY <4>1, <4>2, <4>3
    <3>2. n > W /\ W >= 1
      BY <2>2, <3>1, Sizes
    <3>3. n # W /\ n # 1
      BY <3>2, Sizes DEF Stops
    <3> QED BY <1>2, <2>6, <2>8, <3>3
  <2> QED BY <2>7, <2>8
<1> QED BY <1>1, <1>2

(* So these are all the owners at the start.                               *)
LEMMA InitOwns ==
  ASSUME Init, NEW k, NEW x, NEW n, NEW p
  PROVE  Owns(k, x, n, p) <=>
           \/ k = "space" /\ x = First /\ n = LastStop /\ p = 2
           \/ k = "space" /\ x = First /\ n = W /\ p = 4
           \/ k = "space" /\ x = First /\ n = 1 /\ p = 3
           \/ k = "stack" /\ x = First /\ n = 0 /\ p = 1
<1>1. /\ \A t \in Task : cr3[t] = (IF t = First THEN 2 ELSE 0) /\ esp0[t] = (IF t = First THEN 1 ELSE 0)
      /\ \A t \in Task : dir[t] = 0 /\ page[t] = 0
      /\ \A t \in Task : pc[t] = (IF t = First THEN "user" ELSE "free")
      /\ lost = {} /\ First \in Task
  BY DEF Init, Task
<1>2. Reaped = {} /\ \A c \in Task : ~FreedStack(c)
  BY <1>1 DEF Reaped, FreedStack, ReapPc
<1>3. \A t : t \in Spaces <=> t = First
  BY <1>1, <1>2 DEF Spaces, BadDir
<1>4. 1 \in Stops /\ W \in Stops /\ LastStop \in Stops /\ W # LastStop /\ W # 1 /\ 1 # LastStop
  <2>1. W <= PdeCount * W
    <3>1. 1 * W <= PdeCount * W
      BY Sizes, ProductMonotonic
    <3> QED BY <3>1, Sizes
  <2>2. W > 1
    BY Sizes DEF W
  <2> QED BY <2>1, <2>2, Sizes DEF Stops
<1>5. InSpace(x, n, p) <=>
        \/ x = First /\ n = LastStop /\ p = 2
        \/ x = First /\ n = W /\ p = 4
        \/ x = First /\ n = 1 /\ p = 3
  BY <1>1, <1>3, <1>4, InitStops DEF InSpace
<1>6. ~InCall(x, n, p) /\ ~IsPage(x, p) /\ (IsStack(x, p) <=> x = First /\ p = 1)
  BY <1>1, <1>2 DEF InCall, HasDir, IsPage, IsStack
<1> QED BY <1>1, <1>5, <1>6 DEF Owns

(* The invariant holds at the start.                                       *)
LEMMA InitHolds ==
  ASSUME Init
  PROVE  MemInv
<1>0. /\ PageCount \in Nat /\ PageCount >= 4 /\ 1 \in Page /\ 2 \in Page /\ 4 \in Page /\ First \in Task
      /\ 1 \in Entry
  BY MemoryAssumption, Sizes DEF Page, Task
<1>1. MemTypeOK
  <2>1. Empty \in [Entry -> 0..PageCount] /\ UserSize \in Nat
    BY <1>0, MemoryAssumption, Sizes DEF Empty, UserSize
  <2>2. mem \in [Page -> [Entry -> 0..PageCount]]
    <3>1. [Empty EXCEPT ![1] = 4] \in [Entry -> 0..PageCount]
          /\ [Empty EXCEPT ![1] = 3] \in [Entry -> 0..PageCount]
      BY <1>0, <2>1
    <3> QED BY <2>1, <3>1 DEF Init
  <2>3. /\ used \subseteq Page /\ cr3 \in [Task -> -1..PageCount]
        /\ esp0 \in [Task -> 0..PageCount] /\ heap_end \in [Task -> -1..UserSize]
        /\ parent \in [Task -> Task \cup {NoTask}] /\ pc \in [Task -> Pc]
    BY <1>0, <2>1 DEF Init, NoHeap, NoTask, Pc, Page
  <2>4. /\ child \in [Task -> Slot \cup {NoTask}] /\ dir \in [Task -> 0..PageCount]
        /\ page \in [Task -> 0..PageCount] /\ goal \in [Task -> -1..UserSize]
    BY <1>0, <2>1 DEF Init, NoHeap, NoTask
  <2>6. at \in [Task -> 0..LastStop]
    <3>1. 0 \in 0..LastStop
      BY Sizes
    <3> QED BY <3>1 DEF Init
  <2>7. lost \subseteq Page /\ starved \in BOOLEAN /\ halted \in Halts
    BY DEF Init, Halts
  <2>5. todo \in [Task -> Seq(VPage \X VPage)]
    <3>1. << >> \in Seq(VPage \X VPage)
      OBVIOUS
    <3> QED BY <3>1 DEF Init
  <2> QED BY <2>2, <2>3, <2>4, <2>5, <2>6, <2>7 DEF MemTypeOK
<1>2. HaltsOnlyWhenStarved
  BY DEF Init, HaltsOnlyWhenStarved
<1>3. Pages
  <2>1. Apart
    BY InitOwns DEF Apart
  <2>2. Accounted
    <3>1. \A p : p \in used <=> p = 1 \/ p = 2 \/ p = 3 \/ p = 4
      BY DEF Init
    <3>2. \A p : (\E k, x, n : Owns(k, x, n, p)) <=> p = 1 \/ p = 2 \/ p = 3 \/ p = 4
      <4> SUFFICES ASSUME NEW p
                   PROVE  (\E k, x, n : Owns(k, x, n, p)) <=> p = 1 \/ p = 2 \/ p = 3 \/ p = 4
        OBVIOUS
      <4>1. ASSUME p = 1 PROVE Owns("stack", First, 0, p)
        BY <4>1, InitOwns
      <4>2. ASSUME p = 2 PROVE Owns("space", First, LastStop, p)
        BY <4>2, InitOwns
      <4>3. ASSUME p = 3 PROVE Owns("space", First, 1, p)
        BY <4>3, InitOwns
      <4>4. ASSUME p = 4 PROVE Owns("space", First, W, p)
        BY <4>4, InitOwns
      <4>5. (\E k, x, n : Owns(k, x, n, p)) => p = 1 \/ p = 2 \/ p = 3 \/ p = 4
        BY InitOwns
      <4>6. p = 1 \/ p = 2 \/ p = 3 \/ p = 4 => \E k, x, n : Owns(k, x, n, p)
        BY <4>1, <4>2, <4>3, <4>4
      <4> QED BY <4>5, <4>6
    <3> QED BY <3>1, <3>2 DEF Accounted
  <2> QED BY <2>1, <2>2 DEF Pages
<1>4. Tasks
  <2>1. ASSUME NEW t \in Task
        PROVE  TaskInv(t) /\ pc[t] \in {"free", "user"}
    <3>1. /\ cr3[t] = (IF t = First THEN 2 ELSE 0) /\ esp0[t] = (IF t = First THEN 1 ELSE 0)
          /\ dir[t] = 0 /\ page[t] = 0 /\ heap_end[t] = NoHeap
          /\ pc[t] = (IF t = First THEN "user" ELSE "free")
      BY DEF Init
    <3>2. Caller(t)
      BY <1>0, <3>1 DEF Caller, MapPc
    <3>3. Parental(t) /\ Copying(t) /\ Mapping(t)
      BY <3>1 DEF Parental, Copying, Mapping, MapPc, ForkPc, CopyPc, ReapPc
    <3>4. Hungry(t) /\ HeapRight(t)
      BY <3>1 DEF Hungry, HeapRight, MapPc, BadDir
    <3> QED BY <3>1, <3>2, <3>3, <3>4 DEF TaskInv
  <2>2. ChildrenApart /\ OneReaper
    BY <2>1 DEF ChildrenApart, OneReaper, ForkPc, CopyPc, ReapPc
  <2> QED BY <2>1, <2>2 DEF Tasks
<1> QED BY <1>1, <1>2, <1>3, <1>4 DEF MemInv

(* The invariant holds always.                                             *)
LEMMA MemInvAlways == Spec => []MemInv
<1>1. Init => MemInv
  BY InitHolds
<1>2. MemInv /\ [Next]_vars => MemInv'
  BY MemInvStep
<1> QED BY <1>1, <1>2, PTL DEF Spec
------------------------------------------------------------------------------
(* The claims of Memory are what Owns says is owned.                       *)
(* Named, one kind of place after the other.                               *)
SpaceNames == UNION { { << "space", t, n, StopAt(cr3[t], n) >> : n \in Stops } : t \in Spaces }
CallNames  == UNION { { << "call", t, n, StopAt(dir[t], n) >> : n \in InHand(t) } : t \in Task }
StackNames == { << "stack", c, 0, esp0[c] >> : c \in { c \in Task : ~FreedStack(c) } }
PageNames  == { << "page", t, 0, page[t] >> : t \in Task }
LostNames  == { << "lost", 0, 0, p >> : p \in lost }

(* Named is these five.                                                    *)
LEMMA NamedIs ==
  \A c : c \in Named <=> c \in SpaceNames \/ c \in CallNames \/ c \in StackNames
                          \/ c \in PageNames \/ c \in LostNames
<1>1. Named = SpaceNames \cup CallNames \cup StackNames \cup PageNames \cup LostNames
  BY Zenon DEF Named, SpaceNames, CallNames, StackNames, PageNames, LostNames
<1> QED BY <1>1

(* What a place in a space is named,                                       *)
LEMMA SpaceNamesAre ==
  \A c : c \in SpaceNames <=>
           \E t \in Spaces : \E n \in Stops : c = << "space", t, n, StopAt(cr3[t], n) >>
<1> DEFINE names(t) == { << "space", t, n, StopAt(cr3[t], n) >> : n \in Stops }
<1>1. \A t, c : c \in names(t) <=> \E n \in Stops : c = << "space", t, n, StopAt(cr3[t], n) >>
  OBVIOUS
<1>2. SpaceNames = UNION { names(t) : t \in Spaces }
  BY DEF SpaceNames
<1> HIDE DEF names
<1>3. \A c : c \in SpaceNames <=> \E t \in Spaces : c \in names(t)
  BY <1>2
<1> QED BY <1>1, <1>3

(* one in what a call has in hand,                                         *)
LEMMA CallNamesAre ==
  \A c : c \in CallNames <=>
           \E t \in Task : \E n \in InHand(t) : c = << "call", t, n, StopAt(dir[t], n) >>
<1> DEFINE names(t) == { << "call", t, n, StopAt(dir[t], n) >> : n \in InHand(t) }
<1>1. \A t, c : c \in names(t) <=> \E n \in InHand(t) : c = << "call", t, n, StopAt(dir[t], n) >>
  OBVIOUS
<1>2. CallNames = UNION { names(t) : t \in Task }
  BY DEF CallNames
<1> HIDE DEF names
<1>3. \A c : c \in CallNames <=> \E t \in Task : c \in names(t)
  BY <1>2
<1> QED BY <1>1, <1>3

(* a stack,                                                                *)
LEMMA StackNamesAre ==
  \A c : c \in StackNames <=> \E t \in Task : ~FreedStack(t) /\ c = << "stack", t, 0, esp0[t] >>
BY Zenon DEF StackNames

(* a page just allocated,                                                  *)
LEMMA PageNamesAre ==
  \A c : c \in PageNames <=> \E t \in Task : c = << "page", t, 0, page[t] >>
BY Zenon DEF PageNames

(* and a page that is lost.                                                *)
LEMMA LostNamesAre ==
  \A c : c \in LostNames <=> \E p \in lost : c = << "lost", 0, 0, p >>
BY Zenon DEF LostNames

(* A page is claimed where it is owned, and nowhere else.                  *)
LEMMA ClaimsAreOwned ==
  ASSUME MemTypeOK
  PROVE  \A c : c \in Claims <=> \E k, x, n, p : c = << k, x, n, p >> /\ Owns(k, x, n, p)
<1>1. ASSUME NEW x \in Task
      PROVE  InHand(x) = IF HasDir(x) THEN From(x)..LastStop ELSE {}
  BY DEF InHand, HasDir, From, Stops
<1>2. \A p \in lost : p # 0
  BY DEF MemTypeOK, Page
<1>3. ASSUME NEW c, c \in Claims
      PROVE  \E k, x, n, p : c = << k, x, n, p >> /\ Owns(k, x, n, p)
  <2>0. c \in Named /\ c[4] # 0
    BY <1>3 DEF Claims
  <2>1. CASE c \in SpaceNames
    <3>1. PICK t \in Spaces, n \in Stops : c = << "space", t, n, StopAt(cr3[t], n) >>
      BY <2>1, SpaceNamesAre
    <3>2. PICK p : p = StopAt(cr3[t], n)
      OBVIOUS
    <3>3. c = << "space", t, n, p >> /\ p # 0
      BY <2>0, <3>1, <3>2
    <3>4. Owns("space", t, n, p)
      BY <3>2, <3>3 DEF Owns, InSpace
    <3> QED BY <3>3, <3>4
  <2>2. CASE c \in CallNames
    <3>1. PICK t \in Task : \E n \in InHand(t) : c = << "call", t, n, StopAt(dir[t], n) >>
      BY <2>2, CallNamesAre
    <3>2. PICK n \in InHand(t) : c = << "call", t, n, StopAt(dir[t], n) >>
      BY <3>1
    <3>3. PICK p : p = StopAt(dir[t], n)
      OBVIOUS
    <3>4. c = << "call", t, n, p >> /\ p # 0
      BY <2>0, <3>2, <3>3
    <3>5. Owns("call", t, n, p)
      BY <1>1, <3>3, <3>4 DEF Owns, InCall
    <3> QED BY <3>4, <3>5
  <2>3. CASE c \in StackNames
    <3>1. PICK t \in Task : ~FreedStack(t) /\ c = << "stack", t, 0, esp0[t] >>
      BY <2>3, StackNamesAre
    <3>2. PICK p : p = esp0[t]
      OBVIOUS
    <3>3. c = << "stack", t, 0, p >> /\ p # 0
      BY <2>0, <3>1, <3>2
    <3>4. Owns("stack", t, 0, p)
      BY <3>1, <3>2, <3>3 DEF Owns, IsStack
    <3> QED BY <3>3, <3>4
  <2>4. CASE c \in PageNames
    <3>1. PICK t \in Task : c = << "page", t, 0, page[t] >>
      BY <2>4, PageNamesAre
    <3>2. PICK p : p = page[t]
      OBVIOUS
    <3>3. c = << "page", t, 0, p >> /\ p # 0
      BY <2>0, <3>1, <3>2
    <3>4. Owns("page", t, 0, p)
      BY <3>2, <3>3 DEF Owns, IsPage
    <3> QED BY <3>3, <3>4
  <2>5. CASE c \in LostNames
    <3>1. PICK p \in lost : c = << "lost", 0, 0, p >>
      BY <2>5, LostNamesAre
    <3>2. Owns("lost", 0, 0, p)
      BY DEF Owns
    <3> QED BY <3>1, <3>2
  <2> QED BY <2>0, <2>1, <2>2, <2>3, <2>4, <2>5, NamedIs
<1>4. ASSUME NEW k, NEW x, NEW n, NEW p, Owns(k, x, n, p)
      PROVE  << k, x, n, p >> \in Claims
  <2> DEFINE c == << k, x, n, p >>
  <2>1. c \in Named /\ p # 0
    <3>1. CASE k = "space" /\ InSpace(x, n, p)
      BY <3>1, SpaceNamesAre, NamedIs DEF InSpace
    <3>2. CASE k = "call" /\ InCall(x, n, p)
      <4>1. x \in Task /\ n \in InHand(x) /\ p = StopAt(dir[x], n) /\ p # 0
        BY <1>1, <3>2 DEF InCall
      <4>2. c \in CallNames
        BY <3>2, <4>1, CallNamesAre
      <4> QED BY <4>1, <4>2, NamedIs
    <3>3. CASE k = "stack" /\ IsStack(x, p) /\ n = 0
      BY <3>3, StackNamesAre, NamedIs DEF IsStack
    <3>4. CASE k = "page" /\ IsPage(x, p) /\ n = 0
      BY <3>4, PageNamesAre, NamedIs DEF IsPage
    <3>5. CASE k = "lost" /\ p \in lost /\ x = 0 /\ n = 0
      BY <1>2, <3>5, LostNamesAre, NamedIs
    <3> QED BY <1>4, <3>1, <3>2, <3>3, <3>4, <3>5 DEF Owns
  <2>2. c[4] = p
    OBVIOUS
  <2> QED BY <2>1, <2>2 DEF Claims
<1> QED BY <1>3, <1>4

(* So OneOwner follows from the invariant,                                 *)
LEMMA OneOwnerHolds ==
  ASSUME MemInv
  PROVE  OneOwner
<1> SUFFICES ASSUME halted # "freed twice", NEW c \in Claims, NEW d \in Claims, c[4] = d[4]
             PROVE  c = d
  BY DEF OneOwner
<1>1. MemTypeOK /\ Apart
  BY DEF MemInv, Pages
<1>2. PICK k, x, n, p : c = << k, x, n, p >> /\ Owns(k, x, n, p)
  BY <1>1, ClaimsAreOwned
<1>3. PICK l, y, m, q : d = << l, y, m, q >> /\ Owns(l, y, m, q)
  BY <1>1, ClaimsAreOwned
<1>4. p = q
  BY <1>2, <1>3
<1>5. k = l /\ x = y /\ n = m
  BY <1>1, <1>2, <1>3, <1>4 DEF Apart
<1> QED BY <1>2, <1>3, <1>4, <1>5

(* and AllAccounted,                                                       *)
LEMMA AllAccountedHolds ==
  ASSUME MemInv
  PROVE  AllAccounted
<1> SUFFICES ASSUME halted # "freed twice"
             PROVE  used = { c[4] : c \in Claims }
  BY DEF AllAccounted
<1>1. MemTypeOK /\ Accounted
  BY DEF MemInv, Pages
<1>2. ASSUME NEW p \in used
      PROVE  p \in { c[4] : c \in Claims }
  <2>1. PICK k, x, n : Owns(k, x, n, p)
    BY <1>1, <1>2 DEF Accounted
  <2>2. << k, x, n, p >> \in Claims
    BY <1>1, <2>1, ClaimsAreOwned
  <2>3. << k, x, n, p >>[4] = p
    OBVIOUS
  <2> QED BY <2>2, <2>3
<1>3. ASSUME NEW c \in Claims
      PROVE  c[4] \in used
  <2>1. PICK k, x, n, p : c = << k, x, n, p >> /\ Owns(k, x, n, p)
    BY <1>1, ClaimsAreOwned
  <2> QED BY <1>1, <2>1 DEF Accounted
<1> QED BY <1>2, <1>3

(* and HeapMapped.                                                         *)
LEMMA HeapMappedHolds ==
  ASSUME MemInv
  PROVE  HeapMapped
<1> SUFFICES ASSUME NEW t \in Task, ~starved, pc[t] = "user", heap_end[t] # NoHeap,
                    NEW v \in 1..PagesIn(heap_end[t])
             PROVE  v \in Mapped(cr3[t])
  BY DEF HeapMapped
<1>1. TaskInv(t)
  BY DEF MemInv, HaltsOnlyWhenStarved, Tasks
<1>2. /\ heap_end[t] \in 0..HeapTop
      /\ \A u \in VPage : FrameIn(cr3[t], u) # 0 <=> InUse(heap_end[t], u)
  BY <1>1 DEF TaskInv, HeapRight, MapPc
<1>3. v \in VPage /\ v <= PagesIn(heap_end[t])
  BY <1>2, HeapPages, HeapSizes DEF VPage
<1>4. Frame(cr3[t], v) # 0
  BY <1>2, <1>3, FramesAreStops DEF InUse
<1> QED BY <1>3, <1>4 DEF Mapped
------------------------------------------------------------------------------
(***************************************************************************)
(* Every variable of the memory model keeps its type, for any number of    *)
(* pages, tasks, tables and entries.                                       *)
(***************************************************************************)
THEOREM MemTypes == Spec => []MemTypeOK
BY MemInvAlways, PTL DEF MemInv

(***************************************************************************)
(* No page is ever in two places, however the calls of many processes      *)
(* interleave: addr_alloc_page gives out a page that nobody names, and     *)
(* each walk frees only what is its own.                                   *)
(***************************************************************************)
THEOREM EveryPageHasOneOwner == Spec => []OneOwner
BY MemInvAlways, OneOwnerHolds, PTL

(***************************************************************************)
(* The bitmap marks exactly the pages that somebody names, or that the     *)
(* code is known to forget: no other path leaks a page, and none frees one *)
(* that is in use.                                                         *)
(***************************************************************************)
THEOREM PagesAreAccountedFor == Spec => []AllAccounted
BY MemInvAlways, AllAccountedHolds, PTL

(***************************************************************************)
(* While memory lasts, what sys_sbrk and sys_execv have promised is        *)
(* mapped.                                                                 *)
(***************************************************************************)
THEOREM HeapsAreMapped == Spec => []HeapMapped
BY MemInvAlways, HeapMappedHolds, PTL

(***************************************************************************)
(* The failure paths stop the kernel only after memory has run out: while  *)
(* every allocation succeeds no stack is freed twice, no page mapped       *)
(* twice, and no process dispatched with -1 for a directory.               *)
(***************************************************************************)
THEOREM KernelHaltsOnlyWhenStarved == Spec => []HaltsOnlyWhenStarved
<1>1. MemInv => HaltsOnlyWhenStarved
  BY DEF MemInv
<1> QED BY <1>1, MemInvAlways, PTL
------------------------------------------------------------------------------
(***************************************************************************)
(* What a step may write of the pages of a space: nothing, but for the     *)
(* sbrk of the process that has it.                                        *)
(***************************************************************************)
Elsewhere == \A p : mem'[p] = mem[p] \/ \A x, n : ~InSpace(x, n, p)

(* Clearing a page that is in no space.                                    *)
LEMMA WritesElsewhere ==
  ASSUME MemTypeOK, Pages, NEW q, mem' = [mem EXCEPT ![q] = Empty], \A x, n : ~InSpace(x, n, q)
  PROVE  Elsewhere
<1>1. \A p : (\A x, n : ~InSpace(x, n, p)) \/ p \in Page
  BY SpaceOwns, OwnedIsUsed DEF MemTypeOK
<1>2. \A p \in Page : p # q => mem'[p] = mem[p]
  BY ClearedPage
<1> QED BY <1>1, <1>2 DEF Elsewhere

(* A page that was free is in no space.                                    *)
LEMMA NewPageElsewhere ==
  ASSUME MemTypeOK, Pages, NEW q \in Page, addr_alloc_page(q), mem' = [mem EXCEPT ![q] = Empty]
  PROVE  Elsewhere
<1>1. q \notin used
  BY DEF addr_alloc_page, Free
<1> QED BY <1>1, FreeIsNobodys, WritesElsewhere

(* Nor is the page of a kernel stack.                                      *)
LEMMA StackElsewhere ==
  ASSUME MemTypeOK, Pages, NEW z \in Task, ~FreedStack(z), addr_free_page(esp0[z])
  PROVE  Elsewhere
<1>1. PICK q : q = esp0[z]
  OBVIOUS
<1>2. mem' = [mem EXCEPT ![q] = Empty]
  BY <1>1 DEF addr_free_page
<1>3. ASSUME NEW x, NEW n, InSpace(x, n, q)
      PROVE  FALSE
  <2>1. IsStack(z, q)
    BY <1>1, <1>3 DEF IsStack, InSpace
  <2> QED BY <1>3, <2>1, StackOwns, OwnedOnce
<1> QED BY <1>2, <1>3, WritesElsewhere

(* Nor is what memory_destroy_uvm frees.                                   *)
LEMMA WalkElsewhere ==
  ASSUME MemTypeOK, Tasks, Pages, NEW t \in Task, pc[t] \in WalkPc, NEW here, NEW done,
         memory_destroy_uvm(t, here, done)
  PROVE  Elsewhere
<1>1. PICK n : n = NextStop(dir[t], at[t])
  OBVIOUS
<1>2. PICK q : q = StopAt(dir[t], n)
  OBVIOUS
<1>3. mem' = [mem EXCEPT ![q] = Empty]
  BY <1>1, <1>2 DEF memory_destroy_uvm, addr_free_page
<1>4. InCall(t, n, q)
  BY <1>1, <1>2, NextStopIs
<1>5. \A x, m : ~InSpace(x, m, q)
  BY <1>4, CallOwns, OwnedOnce
<1> QED BY <1>3, <1>5, WritesElsewhere

(* The copy is written in pages of the copy.                               *)
LEMMA CopyWritesElsewhere ==
  ASSUME MemInv, NEW CONSTANT t \in Task, copy_page(t) \/ copy_table(t), halted = "no"
  PROVE  Elsewhere
<1>0. MemTypeOK /\ Tasks /\ Pages /\ TaskInv(t) /\ pc[t] \in {"copy", "copy_table"} /\ pc[t] \in BuildPc
  BY DEF MemInv, Tasks, copy_page, copy_table, Goes, BuildPc
<1>1. PICK d : d = dir[t]
  OBVIOUS
<1>2. PICK v : v = Min(ToCopy(t))
  OBVIOUS
<1>3. d \in Page /\ Hand(t) = "call"
  BY <1>0, <1>1 DEF TaskInv, Caller, Hand
<1>4. CASE mem' = mem
  BY <1>4 DEF Elsewhere
<1>5. CASE pc[t] = "copy" /\ ToCopy(t) # {} /\ Table(d, v) # 0 /\ \E p \in Page : MapFrame(d, v, p)
  <2>1. PICK p \in Page : MapFrame(d, v, p)
    BY <1>5
  <2>2. v \in VPage
    BY <1>0, <1>2, <1>5, FirstToCopy
  <2>3. \A x : mem'[x] = mem[x] \/ \A u, n : ~InSpace(u, n, x)
    BY <1>0, <1>1, <1>3, <1>5, <2>1, <2>2, FrameMapped
  <2> QED BY <2>3 DEF Elsewhere
<1>6. CASE /\ pc[t] = "copy_table"
           /\ \E q \in Page : addr_alloc_page(q) /\ MapFrameInNewTable(d, v, page[t], q)
  <2>1. PICK q \in Page : addr_alloc_page(q) /\ MapFrameInNewTable(d, v, page[t], q)
    BY <1>6
  <2>2. q \notin used
    BY <2>1 DEF addr_alloc_page, Free
  <2>3. PICK w \in VPage :
          /\ w >= at[t] /\ FrameIn(cr3[t], w) # 0
          /\ \A u \in VPage : u >= at[t] /\ u < w => FrameIn(cr3[t], u) = 0
          /\ TableIn(d, w) = 0
    BY <1>0, <1>1, <1>6 DEF TaskInv, Copying
  <2>4. ToCopy(t) # {}
    BY <2>3, FramesAreStops DEF ToCopy, Mapped
  <2>5. /\ v \in VPage /\ v >= at[t] /\ FrameIn(cr3[t], v) # 0
        /\ \A u \in VPage : u >= at[t] /\ u < v => FrameIn(cr3[t], u) = 0
    BY <1>0, <1>2, <2>4, FirstToCopy
  <2>6. v = w
    <3>1. ~(v < w) /\ ~(w < v)
      BY <2>3, <2>5
    <3> QED BY <2>5, <3>1 DEF VPage
  <2>7. Table(d, v) = 0
    BY <2>3, <2>6, FramesAreStops
  <2>8. PICK r \in Page : r = page[t]
    BY <1>0, <1>6, MemoryAssumption DEF TaskInv, Caller, MemTypeOK, Page
  <2>9. \A x : mem'[x] = mem[x] \/ \A u, n : ~InSpace(u, n, x)
    BY <1>0, <1>1, <1>3, <2>1, <2>2, <2>5, <2>7, <2>8, TableMapped
  <2> QED BY <2>9 DEF Elsewhere
<1>7. ASSUME copy_page(t)
      PROVE  \/ mem' = mem
             \/ /\ pc[t] = "copy" /\ ToCopy(t) # {} /\ Table(d, v) # 0
                /\ \E p \in Page : MapFrame(d, v, p)
  BY <1>1, <1>2, <1>7 DEF copy_page, spaceVars
<1>8. ASSUME copy_table(t)
      PROVE  \/ mem' = mem
             \/ /\ pc[t] = "copy_table"
                /\ \E q \in Page : addr_alloc_page(q) /\ MapFrameInNewTable(d, v, page[t], q)
  BY <1>0, <1>1, <1>2, <1>8 DEF copy_table, spaceVars, Goes
<1> QED BY <1>4, <1>5, <1>6, <1>7, <1>8

(***************************************************************************)
(* memory_alloc_for_page_dir puts frames where there was none, in what the *)
(* call has in hand or in the space of its own process.                    *)
(***************************************************************************)
AddsFrames(t) ==
  /\ pc[t] \in MapPc
  /\ \A p : mem'[p] = mem[p] \/ \A x, n : InSpace(x, n, p) => x = t /\ dir[t] = cr3[t]
  /\ \A v \in VPage : FrameIn(dir[t], v)' = FrameIn(dir[t], v) \/ FrameIn(dir[t], v) = 0

(* That is all map_page and map_table do.                                  *)
LEMMA MapAddsFrames ==
  ASSUME MemInv, NEW CONSTANT t \in Task, map_page(t) \/ map_table(t), halted = "no"
  PROVE  mem' = mem \/ (cr3'[t] = cr3[t] /\ dir'[t] = dir[t] /\ AddsFrames(t))
<1>0. MemTypeOK /\ Tasks /\ Pages /\ TaskInv(t) /\ pc[t] \in MapPc /\ pc[t] \in BuildPc
  BY Zenon DEF MemInv, Tasks, map_page, map_table, Goes, MapPc, BuildPc
<1>1. PICK d : d = dir[t]
  OBVIOUS
<1>2. PICK v : v = NextV(t)
  OBVIOUS
<1>3. d \in Page /\ (Hand(t) = "space" <=> d = cr3[t])
  BY <1>0, <1>1 DEF TaskInv, Caller, Hand
<1>4. todo[t] # <<>> => v \in VPage
  BY <1>0, <1>2, NextToMap
<1>5. CASE /\ todo[t] # <<>> /\ Table(d, v) # 0 /\ Frame(d, v) = 0
           /\ cr3' = cr3 /\ dir' = dir /\ \E p \in Page : MapFrame(d, v, p)
  <2>1. PICK p \in Page : MapFrame(d, v, p)
    BY <1>5
  <2>2. /\ \A n \in Stops : StopAt(d, n)' = IF n = FrameStop(v) THEN p ELSE StopAt(d, n)
        /\ \A x : mem'[x] = mem[x] \/ \A u, n : InSpace(u, n, x) => Hand(t) = "space" /\ u = t
    BY <1>0, <1>1, <1>4, <1>5, <2>1, FrameMapped
  <2>3. FrameIn(d, v) = 0
    BY <1>4, <1>5, FramesAreStops
  <2>4. ASSUME NEW u \in VPage
        PROVE  StopAt(d, FrameStop(u))' = StopAt(d, FrameStop(u)) \/ StopAt(d, FrameStop(u)) = 0
    BY <2>2, <2>3, FrameStopIn DEF FrameIn
  <2>5. \A u \in VPage : FrameIn(dir[t], u)' = FrameIn(dir[t], u) \/ FrameIn(dir[t], u) = 0
    BY <1>1, <1>5, <2>4 DEF FrameIn
  <2> QED BY <1>0, <1>1, <1>3, <1>5, <2>2, <2>5 DEF AddsFrames
<1>6. CASE /\ pc[t] = "map_table" /\ cr3' = cr3 /\ dir' = dir
           /\ \E q \in Page : addr_alloc_page(q) /\ MapFrameInNewTable(d, v, page[t], q)
  <2>1. PICK q \in Page : addr_alloc_page(q) /\ MapFrameInNewTable(d, v, page[t], q)
    BY <1>6
  <2>2. q \notin used
    BY <2>1 DEF addr_alloc_page, Free
  <2>3. todo[t] # <<>> /\ TableIn(d, v) = 0
    BY <1>0, <1>1, <1>2, <1>6 DEF TaskInv, Mapping
  <2>4. v \in VPage /\ Table(d, v) = 0
    BY <1>4, <2>3, FramesAreStops
  <2>5. PICK r \in Page : r = page[t]
    BY <1>0, <1>6, MemoryAssumption DEF TaskInv, Caller, MemTypeOK, Page
  <2>6. /\ \A n \in Stops : StopAt(d, n)' = IF n = FrameStop(v) THEN r
                                            ELSE IF n = TableStop(v) THEN q ELSE StopAt(d, n)
        /\ \A x : mem'[x] = mem[x] \/ \A u, n : InSpace(u, n, x) => Hand(t) = "space" /\ u = t
        /\ StopAt(d, FrameStop(v)) = 0 /\ StopAt(d, TableStop(v)) = 0
    BY <1>0, <1>1, <2>1, <2>2, <2>4, <2>5, TableMapped
  <2>7. ASSUME NEW u \in VPage
        PROVE  StopAt(d, FrameStop(u))' = StopAt(d, FrameStop(u)) \/ StopAt(d, FrameStop(u)) = 0
    BY <2>6, FrameStopIn
  <2>8. \A u \in VPage : FrameIn(dir[t], u)' = FrameIn(dir[t], u) \/ FrameIn(dir[t], u) = 0
    BY <1>1, <1>6, <2>7 DEF FrameIn
  <2> QED BY <1>0, <1>1, <1>3, <1>6, <2>6, <2>8 DEF AddsFrames
<1>7. ASSUME map_page(t)
      PROVE  \/ mem' = mem
             \/ /\ todo[t] # <<>> /\ Table(d, v) # 0 /\ Frame(d, v) = 0
                /\ cr3' = cr3 /\ dir' = dir /\ \E p \in Page : MapFrame(d, v, p)
  <2>1. UNCHANGED spaceVars => mem' = mem
    BY DEF spaceVars
  <2>2. UNCHANGED << mem, heap_end, todo, starved, halted >> => mem' = mem
    OBVIOUS
  <2>3. cr3' = cr3 /\ dir' = dir /\ todo[t] # <<>>
    BY <1>7, Zenon DEF map_page
  <2> QED BY <1>1, <1>2, <1>7, <2>1, <2>2, <2>3, Zenon DEF map_page
<1>8. ASSUME map_table(t)
      PROVE  \/ mem' = mem
             \/ /\ pc[t] = "map_table" /\ cr3' = cr3 /\ dir' = dir
                /\ \E q \in Page : addr_alloc_page(q) /\ MapFrameInNewTable(d, v, page[t], q)
  BY <1>1, <1>2, <1>8 DEF map_table, spaceVars, Goes
<1> QED BY <1>5, <1>6, <1>7, <1>8

(* And no other step writes a page of a space.                             *)
LEMMA OtherStepsElsewhere ==
  ASSUME MemInv, NEW CONSTANT t \in Task, halted = "no",
         Proceeds(t) \/ Reset(t) \/ Begins(t), ~(map_page(t) \/ map_table(t))
  PROVE  Elsewhere
<1>0. MemTypeOK /\ Tasks /\ Pages /\ TaskInv(t)
  BY DEF MemInv, Tasks
<1>1. mem' = mem => Elsewhere
  BY DEF Elsewhere
<1>2. CASE sys_fork(t)
  <2>1. CASE task_uninit(t) \/ copy_ends(t) \/ tss_init_stack(t)
    BY <1>1, <2>1 DEF task_uninit, copy_ends, tss_init_stack, spaceVars
  <2>2. CASE tss_init_dir(t)
    <3>1. PICK c \in Slot : c = child[t]
      BY <1>0, <2>2, Forks DEF tss_init_dir, Goes, ForkPc
    <3>2. /\ c \in Task /\ pc[t] = "fork_dir"
      BY <2>2, <3>1 DEF tss_init_dir, Goes, Task
    <3>3. ~FreedStack(c)
      BY <1>0, <3>1, <3>2 DEF FreedStack, Tasks, ChildrenApart, ForkPc
    <3>4. CASE \E p \in Page : addr_alloc_page(p) /\ mem' = [mem EXCEPT ![p] = Empty]
      BY <1>0, <3>4, NewPageElsewhere
    <3>5. CASE addr_free_page(esp0[c])
      BY <1>0, <3>2, <3>3, <3>5, StackElsewhere
    <3> QED BY <2>2, <3>1, <3>4, <3>5 DEF tss_init_dir
  <2>3. CASE copy_dir(t)
    <3>1. CASE \E p \in Page : addr_alloc_page(p) /\ mem' = [mem EXCEPT ![p] = Empty]
      BY <1>0, <3>1, NewPageElsewhere
    <3>2. CASE UNCHANGED spaceVars
      BY <1>1, <3>2 DEF spaceVars
    <3> QED BY <2>3, <3>1, <3>2, Zenon DEF copy_dir
  <2>4. CASE copy_page(t) \/ copy_table(t)
    BY <2>4, CopyWritesElsewhere
  <2>5. CASE copy_undo(t)
    <3>1. memory_destroy_uvm(t, "copy_undo", "copy_failed") /\ pc[t] \in WalkPc
      BY <2>5 DEF copy_undo, memory_destroy_uvm, WalkPc
    <3> QED BY <1>0, <3>1, WalkElsewhere
  <2> QED BY <1>2, <2>1, <2>2, <2>3, <2>4, <2>5 DEF sys_fork
<1>3. CASE sys_wait(t)
  <2>1. CASE reap(t)
    <3>1. memory_destroy_uvm(t, "reap", "reap_stack") /\ pc[t] \in WalkPc
      BY <2>1 DEF reap, memory_destroy_uvm, WalkPc
    <3> QED BY <1>0, <3>1, WalkElsewhere
  <2>2. CASE reap_stack(t)
    <3>1. PICK z \in Slot : z = child[t] /\ pc[z] = "zombie" /\ z \in Task
      BY <1>0, <2>2 DEF reap_stack, TaskInv, Parental, ReapPc, Task
    <3>2. ~FreedStack(z)
      BY <1>0, <3>1, Whole
    <3>3. addr_free_page(esp0[z])
      BY <2>2, <3>1 DEF reap_stack
    <3> QED BY <1>0, <3>1, <3>2, <3>3, StackElsewhere
  <2> QED BY <1>3, <2>1, <2>2 DEF sys_wait
<1>4. CASE sbrk_ends(t) \/ Reset(t)
  BY <1>1, <1>4 DEF sbrk_ends, Reset, spaceVars
<1>5. CASE sys_execv(t)
  <2>1. CASE exec_undo(t)
    <3>1. memory_destroy_uvm(t, "exec_undo", "exec_failed") /\ pc[t] \in WalkPc
      BY <2>1 DEF exec_undo, memory_destroy_uvm, WalkPc
    <3> QED BY <1>0, <3>1, WalkElsewhere
  <2>2. CASE exec_ends(t) \/ exec_failed(t)
    BY <1>1, <2>2 DEF exec_ends, exec_failed, spaceVars
  <2> QED BY <1>5, <2>1, <2>2 DEF sys_execv
<1>6. CASE Begins(t)
  <2>1. CASE fork(t) \/ wait(t) \/ exit(t) \/ exec_without_dir(t)
    BY <1>1, <2>1 DEF fork, wait, exit, exec_without_dir, spaceVars
  <2>2. CASE sys_sbrk(t)
    BY <1>1, <2>2 DEF sys_sbrk, sbrk_in_page, sbrk_pages, sbrk_outside, spaceVars
  <2>3. CASE \E memsz \in Programs : exec(t, memsz)
    <3>1. PICK p \in Page : addr_alloc_page(p) /\ mem' = [mem EXCEPT ![p] = Empty]
      BY <2>3 DEF exec
    <3> QED BY <1>0, <3>1, NewPageElsewhere
  <2> QED BY <1>6, <2>1, <2>2, <2>3 DEF Begins
<1> QED BY <1>2, <1>3, <1>4, <1>5, <1>6 DEF Proceeds

IsolatedStep ==
  \A t \in Spaces :
    t \in Spaces' /\ cr3'[t] = cr3[t] =>
      \A v \in VPage :
        \/ Frame(cr3[t], v)' = Frame(cr3[t], v)
        \/ Frame(cr3[t], v) = 0 /\ dir[t] = cr3[t] /\ pc[t] \in {"map", "map_table"}

(* So a step leaves every space as it is, or adds a frame to its own.      *)
LEMMA SpacesAreIsolated ==
  ASSUME MemInv, [Next]_vars
  PROVE  IsolatedStep
<1> SUFFICES ASSUME NEW CONSTANT x \in Spaces, cr3'[x] = cr3[x], NEW CONSTANT v \in VPage
             PROVE  \/ Frame(cr3[x], v)' = Frame(cr3[x], v)
                    \/ Frame(cr3[x], v) = 0 /\ dir[x] = cr3[x] /\ pc[x] \in {"map", "map_table"}
  BY DEF IsolatedStep
<1>1. PICK d : d = cr3[x]
  OBVIOUS
<1>2. Frame(d, v)' = FrameIn(d, v)' /\ Frame(d, v) = FrameIn(d, v)
  BY FramesAreStops, FramesAreStopsNext
<1>3. ASSUME \A p : mem'[p] = mem[p] \/ \A n : ~InSpace(x, n, p)
      PROVE  Frame(cr3[x], v)' = Frame(cr3[x], v)
  <2>1. \A n \in Stops : StopAt(cr3[x], n)' = StopAt(cr3[x], n)
    BY <1>3, SpaceStays
  <2>2. StopAt(d, FrameStop(v))' = StopAt(d, FrameStop(v))
    BY <1>1, <2>1, FrameStopIn
  <2>3. FrameIn(d, v)' = FrameIn(d, v)
    BY <2>2 DEF FrameIn
  <2> QED BY <1>1, <1>2, <2>3
<1>4. Elsewhere => \A p : mem'[p] = mem[p] \/ \A n : ~InSpace(x, n, p)
  BY DEF Elsewhere
<1>5. mem' = mem => Elsewhere
  BY DEF Elsewhere
<1>6. CASE \E t \in Task : halted = "no" /\ (map_page(t) \/ map_table(t))
  <2>1. PICK t \in Task : halted = "no" /\ (map_page(t) \/ map_table(t))
    BY <1>6
  <2>2. CASE mem' = mem
    BY <1>3, <1>4, <1>5, <2>2
  <2>3. CASE cr3'[t] = cr3[t] /\ dir'[t] = dir[t] /\ AddsFrames(t)
    <3>1. CASE x # t \/ dir[t] # cr3[t]
      BY <1>3, <2>3, <3>1 DEF AddsFrames
    <3>2. CASE x = t /\ dir[t] = cr3[t]
      <4>1. FrameIn(dir[t], v)' = FrameIn(dir[t], v) \/ FrameIn(dir[t], v) = 0
        BY <2>3 DEF AddsFrames
      <4>2. dir[t] = d /\ dir'[t] = d
        BY <1>1, <2>3, <3>2
      <4>3. FrameIn(d, v)' = FrameIn(d, v) \/ FrameIn(d, v) = 0
        BY <4>1, <4>2 DEF FrameIn
      <4> QED BY <1>1, <1>2, <2>3, <3>2, <4>3 DEF AddsFrames, MapPc
    <3> QED BY <3>1, <3>2
  <2> QED BY <2>1, <2>2, <2>3, MapAddsFrames
<1>7. CASE /\ ~\E t \in Task : halted = "no" /\ (map_page(t) \/ map_table(t))
           /\ \E t \in Task : halted = "no" /\ (Proceeds(t) \/ Reset(t) \/ Begins(t))
  <2>1. PICK t \in Task : halted = "no" /\ (Proceeds(t) \/ Reset(t) \/ Begins(t))
    BY <1>7
  <2>2. ~(map_page(t) \/ map_table(t))
    BY <1>7, <2>1
  <2>3. Elsewhere
    BY <2>1, <2>2, OtherStepsElsewhere
  <2> QED BY <1>3, <1>4, <2>3
<1>8. CASE UNCHANGED vars
  <2>1. mem' = mem
    BY <1>8 DEF vars, spaceVars
  <2> QED BY <1>3, <1>4, <1>5, <2>1
<1> QED BY <1>6, <1>7, <1>8 DEF Next, Halted

(***************************************************************************)
(* No step of another process changes what an address of a process stands  *)
(* for; its own sbrk only adds pages.                                      *)
(***************************************************************************)
THEOREM SpacesStayIsolated == Spec => Isolation
<1>1. MemInv /\ [Next]_vars => [IsolatedStep]_vars
  BY SpacesAreIsolated
<1> QED BY <1>1, MemInvAlways, PTL DEF Spec, Isolation, IsolatedStep
------------------------------------------------------------------------------
(* What other processes do leaves a call where it is.                      *)
LEMMA OthersKeepPc ==
  ASSUME MemInv, NEW CONSTANT u \in Task, NEW CONSTANT t \in Task \ {u}, halted = "no",
         pc[t] \notin {"free", "new", "zombie"}, Proceeds(u) \/ Reset(u) \/ Begins(u)
  PROVE  pc'[t] = pc[t]
<1>0. MemTypeOK /\ Tasks /\ TaskInv(u) /\ pc \in [Task -> Pc]
  BY DEF MemInv, Tasks, MemTypeOK
<1>1. \A a, b : Goes(u, a, b) => pc'[t] = pc[t]
  BY <1>0 DEF Goes
<1>2. pc' = pc => pc'[t] = pc[t]
  OBVIOUS
<1>3. \A a, b : memory_destroy_uvm(u, a, b) => pc'[t] = pc[t]
  BY <1>0 DEF memory_destroy_uvm
<1>4. ASSUME NEW d, fork_ends(u, d), pc[u] \in CopyPc
      PROVE  pc'[t] = pc[t]
  <2>1. PICK c \in Slot : c = child[u] /\ pc[c] = "new" /\ c \in Task
    BY <1>0, <1>4, Copies
  <2>2. pc' = [pc EXCEPT ![u] = "user", ![c] = "user"] /\ c # t
    BY <1>4, <2>1 DEF fork_ends
  <2> QED BY <1>0, <2>2
<1>5. CASE sys_fork(u)
  <2>1. CASE tss_init_stack(u)
    BY <1>1, <2>1 DEF tss_init_stack
  <2>2. CASE tss_init_dir(u)
    BY <1>1, <2>2 DEF tss_init_dir
  <2>3. CASE task_uninit(u)
    <3>1. PICK c \in Slot : c = child[u] /\ pc[c] = "new"
      BY <1>0, <2>3, Forks DEF task_uninit, ForkPc
    <3>2. pc' = [pc EXCEPT ![u] = "user", ![c] = "free"] /\ c # t
      BY <2>3, <3>1 DEF task_uninit
    <3> QED BY <1>0, <3>2
  <2>4. CASE copy_dir(u)
    <3>1. pc[u] \in CopyPc
      BY <2>4, Zenon DEF copy_dir, CopyPc
    <3>2. fork_ends(u, BadDir) \/ Goes(u, "copy_dir", "copy")
      BY <2>4, Zenon DEF copy_dir
    <3> QED BY <1>1, <1>4, <3>1, <3>2
  <2>5. CASE copy_page(u)
    BY <1>1, <1>2, <2>5 DEF copy_page
  <2>6. CASE copy_table(u)
    BY <1>1, <2>6 DEF copy_table
  <2>7. CASE copy_undo(u)
    BY <1>3, <2>7, Zenon DEF copy_undo
  <2>8. CASE copy_ends(u)
    <3>1. pc[u] \in CopyPc /\ (fork_ends(u, dir[u]) \/ fork_ends(u, BadDir))
      BY <2>8, Zenon DEF copy_ends, CopyPc
    <3> QED BY <1>4, <3>1
  <2> QED BY <1>5, <2>1, <2>2, <2>3, <2>4, <2>5, <2>6, <2>7, <2>8 DEF sys_fork
<1>6. CASE sys_wait(u)
  <2>1. CASE reap(u)
    BY <1>3, <2>1, Zenon DEF reap
  <2>2. CASE reap_stack(u)
    <3>1. PICK z \in Slot : z = child[u] /\ pc[z] = "zombie"
      BY <1>0, <2>2 DEF reap_stack, TaskInv, Parental, ReapPc
    <3>2. pc' = [pc EXCEPT ![u] = "user", ![z] = "free"] /\ z # t
      BY <2>2, <3>1 DEF reap_stack
    <3> QED BY <1>0, <3>2
  <2> QED BY <1>6, <2>1, <2>2 DEF sys_wait
<1>7. CASE map_page(u)
  <2>1. UNCHANGED << spaceVars, pc, page, halted >> => pc' = pc
    OBVIOUS
  <2>2. UNCHANGED << spaceVars, pc, heap_end, page, todo, starved >> => pc' = pc
    OBVIOUS
  <2>3. UNCHANGED << pc, page, starved, halted >> => pc' = pc
    OBVIOUS
  <2>4. pc' = pc \/ Goes(u, "map", "map_table")
    BY <1>7, <2>1, <2>2, <2>3, Zenon DEF map_page
  <2> QED BY <1>1, <1>2, <2>4
<1>8. CASE map_table(u) \/ sbrk_ends(u)
  BY <1>1, <1>8 DEF map_table, sbrk_ends
<1>9. CASE sys_execv(u)
  <2>1. CASE exec_ends(u)
    BY <1>0, <2>1 DEF exec_ends
  <2>2. CASE exec_undo(u)
    BY <1>3, <2>2, Zenon DEF exec_undo
  <2>3. CASE exec_failed(u)
    BY <1>1, <2>3 DEF exec_failed
  <2> QED BY <1>9, <2>1, <2>2, <2>3 DEF sys_execv
<1>10. CASE Reset(u)
  BY <1>10 DEF Reset
<1>11. CASE Begins(u)
  <2>1. CASE fork(u)
    <3> DEFINE free == { s \in Slot : pc[s] = "free" }
    <3>1. free \in SUBSET Nat /\ free # {}
      BY <2>1 DEF fork, Slot
    <3>2. PICK c \in Slot : c = Min(free) /\ pc[c] = "free"
      BY <3>1, MinIsLeast
    <3>3. pc' = [pc EXCEPT ![u] = "fork_stack", ![c] = "new"] /\ c # t
      BY <2>1, <3>2 DEF fork
    <3> QED BY <1>0, <3>3
  <2>2. CASE wait(u) \/ exit(u)
    BY <1>1, <2>2 DEF wait, exit
  <2>3. CASE sys_sbrk(u)
    BY <1>1, <2>3 DEF sys_sbrk, sbrk_in_page, sbrk_pages, sbrk_outside
  <2>4. CASE exec_without_dir(u)
    BY <2>4 DEF exec_without_dir
  <2>5. CASE \E memsz \in Programs : exec(u, memsz)
    BY <1>1, <2>5 DEF exec
  <2> QED BY <1>11, <2>1, <2>2, <2>3, <2>4, <2>5 DEF Begins
<1> QED BY <1>5, <1>6, <1>7, <1>8, <1>9, <1>10, <1>11 DEF Proceeds

(* A fork that has begun its copy ends in one of these ways.               *)
LEMMA CopyLeads ==
  ASSUME MemInv, NEW CONSTANT t \in Task, halted = "no",
         pc[t] \in {"copy_dir", "copy", "copy_failed"}, pc'[t] = "user",
         Proceeds(t) \/ Reset(t) \/ Begins(t)
  PROVE  \/ pc[t] = "copy_dir" /\ Exhausted /\ fork_ends(t, BadDir) /\ UNCHANGED spaceVars
         \/ copy_ends(t)
<1>0. MemTypeOK /\ pc \in [Task -> Pc]
  BY DEF MemInv, MemTypeOK
<1>1. \A a, b : Goes(t, a, b) => pc[t] = a /\ pc'[t] = b
  BY <1>0 DEF Goes
<1>2. CASE copy_dir(t)
  <2>1. ~Goes(t, "copy_dir", "copy")
    BY <1>1
  <2>2. pc[t] = "copy_dir" /\ Exhausted /\ fork_ends(t, BadDir) /\ UNCHANGED spaceVars
    BY <1>2, <2>1, Zenon DEF copy_dir
  <2> QED BY <2>2
<1>3. ~copy_page(t)
  BY <1>1 DEF copy_page
<1>4. ~tss_init_stack(t) /\ ~tss_init_dir(t) /\ ~task_uninit(t) /\ ~copy_table(t) /\ ~copy_undo(t)
  BY <1>1, Zenon
     DEF tss_init_stack, tss_init_dir, task_uninit, copy_table, copy_undo, memory_destroy_uvm
<1>5. ~sys_wait(t) /\ ~map_page(t) /\ ~map_table(t) /\ ~sbrk_ends(t)
  <2>1. ~sys_wait(t)
    BY DEF sys_wait, reap, reap_stack, memory_destroy_uvm
  <2>2. pc[t] # "map" /\ ~Goes(t, "map_table", "map") /\ ~Goes(t, "map_table", "exec_undo")
        /\ ~Goes(t, "map_table", "user") /\ ~Goes(t, "map", "user")
    BY <1>1
  <2>3. ~map_page(t)
    BY <2>2, Zenon DEF map_page
  <2>4. ~map_table(t) /\ ~sbrk_ends(t)
    BY <2>2, Zenon DEF map_table, sbrk_ends
  <2> QED BY <2>1, <2>3, <2>4
<1>6. ~sys_execv(t) /\ ~Reset(t)
  <2>1. pc[t] # "map" /\ pc[t] # "user" /\ pc[t] # "exec_undo" /\ ~Goes(t, "exec_failed", "user")
    BY <1>1
  <2>2. ~exec_ends(t) /\ ~Reset(t)
    BY <2>1, Zenon DEF exec_ends, Reset
  <2>3. ~exec_undo(t) /\ ~exec_failed(t)
    BY <2>1, Zenon DEF exec_undo, exec_failed, memory_destroy_uvm
  <2> QED BY <2>2, <2>3, Zenon DEF sys_execv
<1>7. ~Begins(t)
  <2>1. ~fork(t) /\ ~wait(t) /\ ~exit(t) /\ ~exec_without_dir(t)
    BY <1>1, Zenon DEF fork, wait, exit, exec_without_dir
  <2>2. ~sys_sbrk(t)
    BY <1>1, Zenon DEF sys_sbrk, sbrk_in_page, sbrk_pages, sbrk_outside
  <2>3. ~\E memsz \in Programs : exec(t, memsz)
    BY <1>1, Zenon DEF exec
  <2> QED BY <2>1, <2>2, <2>3 DEF Begins
<1> QED BY <1>2, <1>3, <1>4, <1>5, <1>6, <1>7 DEF Proceeds, sys_fork

ForkCopiesStep ==
  \A t \in Task, c \in Slot :
    pc[t] \in {"copy_dir", "copy", "copy_failed"} /\ pc'[t] = "user" /\ child[t] = c =>
      \/ cr3'[c] # BadDir /\ Mapped(cr3[c])' = Mapped(cr3[t])
      \/ cr3'[c] = BadDir /\ starved'

(* A step that ends the copy leaves the child with what its parent has.    *)
LEMMA ChildHasACopy ==
  ASSUME MemInv, [Next]_vars
  PROVE  ForkCopiesStep
<1> SUFFICES ASSUME NEW CONSTANT t \in Task, NEW CONSTANT c \in Slot,
                    pc[t] \in {"copy_dir", "copy", "copy_failed"}, pc'[t] = "user", child[t] = c
             PROVE  \/ cr3'[c] # BadDir /\ Mapped(cr3[c])' = Mapped(cr3[t])
                    \/ cr3'[c] = BadDir /\ starved'
  BY DEF ForkCopiesStep
<1>1. pc'[t] # pc[t] /\ pc[t] \notin {"free", "new", "zombie"}
  OBVIOUS
<1>2. ~UNCHANGED vars
  BY <1>1 DEF vars
<1>3. PICK u \in Task : halted = "no" /\ (Proceeds(u) \/ Reset(u) \/ Begins(u))
  BY <1>2 DEF Next, Halted
<1>4. u = t
  BY <1>1, <1>3, OthersKeepPc
<1>5. MemTypeOK /\ Tasks /\ TaskInv(t) /\ c \in Task
  BY <1>3 DEF MemInv, Tasks, Task
<1>6. cr3 \in [Task -> -1..PageCount]
  BY <1>5 DEF MemTypeOK
<1>7. \A d : fork_ends(t, d) => cr3'[c] = d
  BY <1>5, <1>6 DEF fork_ends
<1>8. CASE pc[t] = "copy_dir" /\ Exhausted /\ fork_ends(t, BadDir) /\ UNCHANGED spaceVars
  BY <1>7, <1>8 DEF Exhausted
<1>9. CASE copy_ends(t)
  <2>1. mem' = mem /\ starved' = starved
    BY <1>9 DEF copy_ends, spaceVars
  <2>2. CASE pc[t] = "copy" /\ ToCopy(t) = {} /\ fork_ends(t, dir[t])
    <3>1. PICK d : d = dir[t]
      OBVIOUS
    <3>2. cr3'[c] = d /\ d # BadDir
      BY <1>5, <1>7, <2>2, <3>1, PagesAre DEF TaskInv, Caller
    <3>3. \A v \in VPage : FrameIn(d, v) # 0 <=> FrameIn(cr3[t], v) # 0
      BY <1>5, <2>2, <3>1, CopyIsComplete
    <3>4. \A v \in VPage : Frame(d, v)' = Frame(d, v)
      BY <2>1 DEF Frame, Table
    <3>5. \A v \in VPage : Frame(d, v)' # 0 <=> Frame(cr3[t], v) # 0
      BY <3>3, <3>4, FramesAreStops
    <3>6. Mapped(d)' = Mapped(cr3[t])
      BY <3>5 DEF Mapped
    <3>7. Mapped(cr3[c])' = Mapped(d)'
      BY <3>2 DEF Mapped, Frame, Table
    <3> QED BY <3>2, <3>6, <3>7
  <2>3. CASE pc[t] = "copy_failed" /\ fork_ends(t, BadDir)
    <3>1. starved
      BY <1>5, <2>3 DEF TaskInv, Hungry
    <3> QED BY <1>7, <2>1, <2>3, <3>1
  <2> QED BY <1>9, <2>2, <2>3 DEF copy_ends
<1> QED BY <1>1, <1>3, <1>4, <1>8, <1>9, CopyLeads

(***************************************************************************)
(* A fork that ends with a directory ends with all the pages of the        *)
(* parent, copied while other processes take and give pages.               *)
(***************************************************************************)
THEOREM ForksCopyTheSpace == Spec => ForkCopies
<1>1. MemInv /\ [Next]_vars => [ForkCopiesStep]_vars
  BY ChildHasACopy
<1> QED BY <1>1, MemInvAlways, PTL DEF Spec, ForkCopies, ForkCopiesStep
=============================================================================
