-------------------------- MODULE LinkedListProofs --------------------------
(***************************************************************************)
(* The pointers of kernel/tools/list.c, for any number of lists and nodes: *)
(* they are always well linked, and implement the sequences that the other *)
(* modules use.                                                            *)
(***************************************************************************)
EXTENDS LinkedList, SequenceTheorems, FiniteSetTheorems, Numbers

(***************************************************************************)
(* The pointers stand for sequences C when each list has the nodes of its  *)
(* sequence on its two threads, and a node in no sequence points nowhere.  *)
(***************************************************************************)
Threads(s, from, to, forth, back) ==
  /\ from = IF Len(s) = 0 THEN Null ELSE s[1]
  /\ to   = IF Len(s) = 0 THEN Null ELSE s[Len(s)]
  /\ \A i \in 1..Len(s) :
       /\ forth[s[i]] = IF i = Len(s) THEN Null ELSE s[i + 1]
       /\ back[s[i]]  = IF i = 1 THEN Null ELSE s[i - 1]

In(C, n) == \E l \in List : n \in ToSet(C[l])

Represents(C) ==
  /\ C \in [List -> Seq(Node)]
  /\ \A l \in List : /\ NoDuplicate(C[l])
                     /\ count[l] = Len(C[l])
                     /\ Threads(C[l], first[l], last[l], next, pre)
  /\ \A k, l \in List : k # l => ToSet(C[k]) \cap ToSet(C[l]) = {}
  /\ \A n \in Node : ~In(C, n) => pre[n] = Null /\ next[n] = Null

LinkTypeOK ==
  /\ first \in [List -> Node \cup {Null}] /\ last \in [List -> Node \cup {Null}]
  /\ pre \in [Node -> Node \cup {Null}] /\ next \in [Node -> Node \cup {Null}]
  /\ count \in [List -> Nat]

LinkInv == LinkTypeOK /\ \E C : Represents(C)
------------------------------------------------------------------------------
(* Sequences, element by element.                                          *)
LEMMA SeqIs ==
  ASSUME NEW S, NEW s \in Seq(S)
  PROVE  /\ Len(s) \in Nat /\ DOMAIN s = 1..Len(s) /\ s = [i \in 1..Len(s) |-> s[i]]
         /\ \A i \in 1..Len(s) : s[i] \in S
         /\ \A x : x \in ToSet(s) <=> \E i \in 1..Len(s) : s[i] = x
<1>1. Len(s) \in Nat /\ DOMAIN s = 1..Len(s) /\ \A i \in 1..Len(s) : s[i] \in S
  BY LenProperties
<1>2. s = [i \in 1..Len(s) |-> s[i]]
  OBVIOUS
<1>3. ToSet(s) = { s[i] : i \in 1..Len(s) }
  BY <1>1 DEF ToSet
<1> QED BY <1>1, <1>2, <1>3

(* They are the same when they have the same length and elements.          *)
LEMMA SeqSame ==
  ASSUME NEW S, NEW s \in Seq(S), NEW t \in Seq(S), Len(s) = Len(t),
         \A i \in 1..Len(s) : s[i] = t[i]
  PROVE  s = t
<1>1. s = [i \in 1..Len(s) |-> s[i]] /\ t = [i \in 1..Len(t) |-> t[i]]
  BY SeqIs
<1> QED BY <1>1

(* No longer than there are nodes.                                         *)
LEMMA NotLonger ==
  ASSUME NEW s \in Seq(Node), NoDuplicate(s)
  PROVE  Len(s) <= Cardinality(Node) /\ Cardinality(Node) \in Nat
<1>1. IsFiniteSet(Node) /\ Cardinality(Node) \in Nat
  BY LinkedListAssumption, FS_CardinalityType
<1>2. Len(s) \in Nat /\ DOMAIN s = 1..Len(s) /\ s \in [1..Len(s) -> Node]
  BY SeqIs
<1>3. IsFiniteSet(1..Len(s)) /\ Cardinality(1..Len(s)) = Len(s)
  <2>1. \A n \in Nat : IsFiniteSet(1..n) /\ Cardinality(1..n) = n
    BY FS_Interval
  <2> QED BY <1>2, <2>1
<1>4. ASSUME Cardinality(Node) < Len(s) PROVE FALSE
  <2>1. PICK i \in 1..Len(s), j \in 1..Len(s) : i # j /\ s[i] = s[j]
    BY <1>1, <1>2, <1>3, <1>4, FS_PigeonHole
  <2> QED BY <1>2, <2>1 DEF NoDuplicate
<1> QED BY <1>1, <1>2, <1>4

(* The first k of a sequence.                                              *)
LEMMA PrefixGrows ==
  ASSUME NEW S, NEW s \in Seq(S)
  PROVE  /\ SubSeq(s, 1, 0) = <<>> /\ SubSeq(s, 1, Len(s)) = s
         /\ \A k \in 1..Len(s) :
              /\ SubSeq(s, 1, k) = Append(SubSeq(s, 1, k - 1), s[k])
              /\ SubSeq(s, 1, k) # <<>> /\ Last(SubSeq(s, 1, k)) = s[k]
<1>1. Len(s) \in Nat
  BY SeqIs
<1>2. \A k \in 0..Len(s) : /\ SubSeq(s, 1, k) \in Seq(S) /\ Len(SubSeq(s, 1, k)) = k
                           /\ \A i \in 1..k : SubSeq(s, 1, k)[i] = s[i]
  OBVIOUS
<1>3. SubSeq(s, 1, 0) = <<>>
  BY <1>1, <1>2, EmptySeq
<1>4. SubSeq(s, 1, Len(s)) = s
  <2>1. Len(s) \in 0..Len(s)
    BY <1>1
  <2> QED BY <1>2, <2>1, SeqSame
<1>5. ASSUME NEW k \in 1..Len(s)
      PROVE  /\ SubSeq(s, 1, k) = Append(SubSeq(s, 1, k - 1), s[k])
             /\ SubSeq(s, 1, k) # <<>> /\ Last(SubSeq(s, 1, k)) = s[k]
  <2>1. k - 1 \in 0..Len(s) /\ k \in 0..Len(s) /\ k \in 1..k /\ s[k] \in S
    BY <1>1, SeqIs
  <2>2. PICK t \in Seq(S) : /\ t = SubSeq(s, 1, k - 1) /\ Len(t) = k - 1
                            /\ \A i \in 1..(k - 1) : t[i] = s[i]
    BY <1>2, <2>1
  <2>3. PICK u \in Seq(S) : u = SubSeq(s, 1, k) /\ Len(u) = k /\ \A i \in 1..k : u[i] = s[i]
    BY <1>2, <2>1
  <2>4. /\ Append(t, s[k]) \in Seq(S) /\ Len(Append(t, s[k])) = k
        /\ \A i \in 1..k : Append(t, s[k])[i] = s[i]
    <3>1. /\ Append(t, s[k]) \in Seq(S) /\ Len(Append(t, s[k])) = Len(t) + 1
          /\ \A i \in 1..Len(t) : Append(t, s[k])[i] = t[i]
          /\ Append(t, s[k])[Len(t) + 1] = s[k]
      BY <2>1, AppendProperties
    <3> QED BY <2>2, <3>1
  <2>5. u = Append(t, s[k])
    BY <2>3, <2>4, SeqSame
  <2>6. u # <<>> /\ Last(u) = s[k]
    BY <2>1, <2>3 DEF Last
  <2> QED BY <2>2, <2>3, <2>5, <2>6
<1> QED BY <1>3, <1>4, <1>5

(***************************************************************************)
(* Walking along a thread from its end one meets the nodes it is threaded  *)
(* through, in their order.                                                *)
(***************************************************************************)
LEMMA ChainIs ==
  ASSUME NEW s \in Seq(Node), NoDuplicate(s), NEW from, NEW link,
         from = IF Len(s) = 0 THEN Null ELSE s[1],
         \A i \in 1..Len(s) : link[s[i]] = IF i = Len(s) THEN Null ELSE s[i + 1]
  PROVE  Chain(from, link) = s
<1>1. PICK N \in Nat, n \in Nat : N = Cardinality(Node) /\ n = Len(s) /\ n <= N
  BY NotLonger, SeqIs
<1> DEFINE Onward(seen) == LET node == IF seen = <<>> THEN from ELSE link[Last(seen)]
                           IN  IF node = Null THEN seen ELSE Append(seen, node)
           IsWalk(w) == w = [k \in 0..N |-> IF k = 0 THEN <<>> ELSE Onward(w[k - 1])]
           upto(k) == IF k < n THEN k ELSE n
           g == [k \in 0..N |-> SubSeq(s, 1, upto(k))]
<1>2. Chain(from, link) = (CHOOSE w : IsWalk(w))[N]
  BY <1>1 DEF Chain
<1>3. /\ SubSeq(s, 1, 0) = <<>> /\ SubSeq(s, 1, n) = s
      /\ \A k \in 1..n : /\ SubSeq(s, 1, k) = Append(SubSeq(s, 1, k - 1), s[k])
                         /\ SubSeq(s, 1, k) # <<>> /\ Last(SubSeq(s, 1, k)) = s[k]
      /\ \A k \in 1..n : s[k] # Null
  <2>1. /\ SubSeq(s, 1, 0) = <<>> /\ SubSeq(s, 1, Len(s)) = s
        /\ \A k \in 1..Len(s) : /\ SubSeq(s, 1, k) = Append(SubSeq(s, 1, k - 1), s[k])
                                /\ SubSeq(s, 1, k) # <<>> /\ Last(SubSeq(s, 1, k)) = s[k]
    BY PrefixGrows
  <2>2. \A k \in 1..Len(s) : s[k] \in Node
    BY SeqIs
  <2> QED BY <1>1, <2>1, <2>2, LinkedListAssumption
<1>4. ASSUME NEW k \in 1..N PROVE SubSeq(s, 1, upto(k)) = Onward(SubSeq(s, 1, upto(k - 1)))
  <2>1. CASE k = 1 /\ n = 0
    BY <1>1, <1>3, <2>1
  <2>2. CASE k = 1 /\ n # 0
    <3>1. from = s[1] /\ s[1] # Null /\ SubSeq(s, 1, 1) = Append(SubSeq(s, 1, 0), s[1]) /\ 1 \in 1..n
      BY <1>1, <1>3, <2>2
    <3>2. upto(1) = 1 /\ upto(0) = 0
      BY <1>1, <2>2
    <3> QED BY <1>3, <2>2, <3>1, <3>2
  <2>3. CASE k > 1 /\ k <= n
    <3>1. k - 1 \in 1..n /\ k \in 1..n /\ k - 1 # n /\ (k - 1) + 1 = k /\ upto(k) = k /\ upto(k - 1) = k - 1
      BY <1>1, <2>3
    <3>2. link[s[k - 1]] = s[k]
      BY <1>1, <3>1
    <3>3. SubSeq(s, 1, k - 1) # <<>> /\ Last(SubSeq(s, 1, k - 1)) = s[k - 1] /\ s[k] # Null
      BY <1>3, <3>1
    <3>4. SubSeq(s, 1, k) = Append(SubSeq(s, 1, k - 1), s[k])
      BY <1>3, <3>1
    <3> QED BY <3>1, <3>2, <3>3, <3>4
  <2>4. CASE k > 1 /\ k > n
    <3>1. upto(k) = n /\ upto(k - 1) = n
      BY <1>1, <2>4
    <3>2. CASE n = 0
      BY <1>1, <1>3, <3>1, <3>2
    <3>3. CASE n # 0
      <4>1. n \in 1..n
        BY <1>1, <3>3
      <4>2. s # <<>> /\ Last(s) = s[n] /\ link[s[n]] = Null
        BY <1>1, <1>3, <4>1
      <4> QED BY <1>3, <3>1, <4>2
    <3> QED BY <3>2, <3>3
  <2>5. \/ k = 1 /\ n = 0
        \/ k = 1 /\ n # 0
        \/ k > 1 /\ k <= n
        \/ k > 1 /\ k > n
    BY <1>1
  <2> HIDE DEF Onward, upto
  <2> QED BY <2>1, <2>2, <2>3, <2>4, <2>5
<1>5. upto(0) = 0 /\ upto(N) = n
  BY <1>1
<1> HIDE DEF Onward, upto
<1>6. IsWalk(g)
  <2>1. \A k \in 0..N : k # 0 => k \in 1..N /\ k - 1 \in 0..N
    BY <1>1
  <2>2. \A k \in 1..N : g[k] = Onward(g[k - 1])
    BY <1>4, <2>1, SMTT(60)
  <2>3. g[0] = <<>>
    BY <1>1, <1>3, <1>5
  <2>4. g = [k \in 0..N |-> IF k = 0 THEN <<>> ELSE Onward(g[k - 1])]
    BY <2>1, <2>2, <2>3
  <2> QED BY <2>4
<1> HIDE DEF g
<1>7. PICK w : IsWalk(w) /\ w = CHOOSE v : IsWalk(v)
  BY <1>6
<1> HIDE DEF IsWalk
<1>8. ASSUME NEW v, IsWalk(v)
      PROVE  v = [k \in 0..N |-> v[k]] /\ v[0] = <<>> /\ \A k \in 1..N : v[k] = Onward(v[k - 1])
  <2>1. v = [k \in 0..N |-> IF k = 0 THEN <<>> ELSE Onward(v[k - 1])]
    BY <1>8 DEF IsWalk
  <2>2. PICK step : step = [k \in 0..N |-> IF k = 0 THEN <<>> ELSE Onward(v[k - 1])]
    OBVIOUS
  <2>3. /\ step = [k \in 0..N |-> step[k]]
        /\ \A k \in 0..N : step[k] = IF k = 0 THEN <<>> ELSE Onward(v[k - 1])
    BY <2>2
  <2>4. v = step
    BY <2>1, <2>2
  <2>5. 0 \in 0..N /\ \A k \in 1..N : k \in 0..N /\ k # 0
    BY <1>1
  <2>6. v = [k \in 0..N |-> v[k]]
    BY <2>3, <2>4
  <2>7. v[0] = <<>> /\ \A k \in 1..N : v[k] = Onward(v[k - 1])
    BY <2>3, <2>4, <2>5
  <2> QED BY <2>6, <2>7
<1>9. Alike(w, g, N)
  <2>1. g = [k \in 0..N |-> g[k]] /\ g[0] = <<>> /\ \A k \in 1..N : g[k] = Onward(g[k - 1])
    BY <1>6, <1>8
  <2>2. w = [k \in 0..N |-> w[k]] /\ w[0] = <<>> /\ \A k \in 1..N : w[k] = Onward(w[k - 1])
    BY <1>7, <1>8
  <2>3. ASSUME NEW k \in 1..N, w[k - 1] = g[k - 1] PROVE w[k] = g[k]
    BY <2>1, <2>2, <2>3
  <2> QED BY <2>1, <2>2, <2>3 DEF Alike
<1>10. w = g
  BY <1>9, RecursOnce
<1>11. g[N] = s
  BY <1>1, <1>3, <1>5 DEF g
<1> QED BY <1>2, <1>7, <1>10, <1>11

------------------------------------------------------------------------------
(***************************************************************************)
(* So the pointers stand for one family of sequences only.                 *)
(***************************************************************************)
LEMMA NodesAre ==
  ASSUME NEW C, Represents(C)
  PROVE  /\ \A l \in List : Nodes(l) = C[l]
         /\ C = [l \in List |-> Nodes(l)]
         /\ \A n \in Node : n \in Linked <=> In(C, n)
<1>1. ASSUME NEW l \in List PROVE Nodes(l) = C[l]
  <2>1. PICK s \in Seq(Node) : s = C[l] /\ NoDuplicate(s)
    BY DEF Represents
  <2>2. Threads(s, first[l], last[l], next, pre)
    BY <2>1 DEF Represents
  <2>3. Chain(first[l], next) = s
    BY <2>1, <2>2, ChainIs DEF Threads
  <2> QED BY <2>1, <2>3 DEF Nodes
<1>2. C = [l \in List |-> C[l]]
  BY DEF Represents
<1>3. C = [l \in List |-> Nodes(l)]
  BY <1>1, <1>2
<1>4. \A n : n \in Linked <=> \E l \in List : n \in ToSet(Nodes(l))
  BY DEF Linked
<1> QED BY <1>1, <1>3, <1>4 DEF In

(* Backwards they give the same nodes in reverse.                          *)
LEMMA BackwardIs ==
  ASSUME NEW s \in Seq(Node), NoDuplicate(s), NEW from, NEW to, NEW forth, NEW back,
         Threads(s, from, to, forth, back)
  PROVE  Chain(to, back) = Reverse(s)
<1>1. PICK n \in Nat : n = Len(s)
  BY SeqIs
<1>2. DOMAIN s = 1..n /\ \A i \in 1..n : s[i] \in Node
  BY <1>1, SeqIs
<1> DEFINE r == Reverse(s)
<1>3. r = [i \in 1..n |-> s[(n - i) + 1]]
  BY <1>1 DEF Reverse
<1>4. \A i \in 1..n : (n - i) + 1 \in 1..n
  BY <1>1
<1>5. r \in Seq(Node) /\ Len(r) = n /\ DOMAIN r = 1..n /\ \A i \in 1..n : r[i] = s[(n - i) + 1]
  <2>1. r \in [1..n -> Node]
    BY <1>2, <1>3, <1>4
  <2>2. \A f \in [1..n -> Node] : f \in Seq(Node) /\ Len(f) = n
    OBVIOUS
  <2> QED BY <1>3, <2>1, <2>2
<1> HIDE DEF r
<1>6. NoDuplicate(r)
  <2> SUFFICES ASSUME NEW i \in 1..n, NEW j \in 1..n, r[i] = r[j] PROVE i = j
    BY <1>5 DEF NoDuplicate
  <2>1. (n - i) + 1 = (n - j) + 1
    BY <1>2, <1>4, <1>5 DEF NoDuplicate
  <2> QED BY <2>1
<1>7. to = IF Len(r) = 0 THEN Null ELSE r[1]
  BY <1>1, <1>5 DEF Threads
<1>8. ASSUME NEW i \in 1..n PROVE back[r[i]] = IF i = n THEN Null ELSE r[i + 1]
  <2>1. PICK j \in 1..n : j = (n - i) + 1 /\ r[i] = s[j]
    BY <1>4, <1>5
  <2>2. back[s[j]] = IF j = 1 THEN Null ELSE s[j - 1]
    BY <1>1 DEF Threads
  <2>3. CASE i = n
    BY <2>1, <2>2, <2>3
  <2>4. CASE i # n
    <3>1. i + 1 \in 1..n /\ (n - (i + 1)) + 1 = j - 1 /\ j # 1
      BY <2>1, <2>4
    <3>2. r[i + 1] = s[j - 1]
      BY <1>5, <3>1
    <3> QED BY <2>1, <2>2, <2>4, <3>1, <3>2
  <2> QED BY <2>3, <2>4
<1>9. Chain(to, back) = r
  <2>1. \A i \in 1..Len(r) : back[r[i]] = IF i = Len(r) THEN Null ELSE r[i + 1]
    BY <1>5, <1>8
  <2> QED BY <1>5, <1>6, <1>7, <2>1, ChainIs, SMTT(60)
<1> QED BY <1>9 DEF r

(***************************************************************************)
(* A call that changes one list, and of the links only those of the nodes  *)
(* that are in it before or after.                                         *)
(***************************************************************************)
LEMMA OneList ==
  ASSUME NEW C, Represents(C), NEW l \in List, NEW s \in Seq(Node), NoDuplicate(s),
         count'[l] = Len(s), Threads(s, first'[l], last'[l], next', pre'),
         \A k \in List : k # l => count'[k] = count[k] /\ first'[k] = first[k] /\ last'[k] = last[k],
         \A n \in Node : n \notin ToSet(C[l]) \cup ToSet(s) => pre'[n] = pre[n] /\ next'[n] = next[n],
         \A n \in ToSet(s) : n \in ToSet(C[l]) \/ ~In(C, n),
         \A n \in ToSet(C[l]) \ ToSet(s) : pre'[n] = Null /\ next'[n] = Null
  PROVE  Represents([C EXCEPT ![l] = s])'
<1> DEFINE D == [C EXCEPT ![l] = s]
<1>1. D \in [List -> Seq(Node)] /\ D[l] = s /\ \A k \in List : k # l => D[k] = C[k]
  BY DEF Represents
<1> HIDE DEF D
<1>2. ASSUME NEW k \in List, k # l, NEW n \in ToSet(C[k])
      PROVE  n \in Node /\ n \notin ToSet(C[l]) /\ n \notin ToSet(s)
  <2>1. C[k] \in Seq(Node) /\ ToSet(C[k]) \cap ToSet(C[l]) = {}
    BY <1>2 DEF Represents
  <2>2. n \in Node
    BY <1>2, <2>1, SeqIs
  <2> QED BY <1>2, <2>1, <2>2 DEF In
<1>3. ASSUME NEW k \in List
      PROVE  NoDuplicate(D[k]) /\ count'[k] = Len(D[k]) /\ Threads(D[k], first'[k], last'[k], next', pre')
  <2>1. CASE k = l
    BY <1>1, <2>1
  <2>2. CASE k # l
    <3>1. /\ NoDuplicate(C[k]) /\ count[k] = Len(C[k]) /\ C[k] \in Seq(Node)
          /\ Threads(C[k], first[k], last[k], next, pre)
      BY DEF Represents
    <3>2. \A i \in 1..Len(C[k]) : next'[C[k][i]] = next[C[k][i]] /\ pre'[C[k][i]] = pre[C[k][i]]
      <4> SUFFICES ASSUME NEW i \in 1..Len(C[k]) PROVE next'[C[k][i]] = next[C[k][i]] /\ pre'[C[k][i]] = pre[C[k][i]]
        OBVIOUS
      <4>1. C[k][i] \in ToSet(C[k])
        BY <3>1, SeqIs
      <4> QED BY <1>2, <2>2, <4>1
    <3>3. Threads(C[k], first[k], last[k], next', pre')
      BY <3>1, <3>2 DEF Threads
    <3> QED BY <1>1, <2>2, <3>1, <3>3
  <2> QED BY <2>1, <2>2
<1>4. ASSUME NEW j \in List, NEW k \in List, j # k PROVE ToSet(D[j]) \cap ToSet(D[k]) = {}
  <2>1. CASE j # l /\ k # l
    BY <1>1, <1>4, <2>1 DEF Represents
  <2>2. CASE j = l \/ k = l
    BY <1>1, <1>2, <1>4, <2>2
  <2> QED BY <2>1, <2>2
<1>5. ASSUME NEW n \in Node, ~In(D, n) PROVE pre'[n] = Null /\ next'[n] = Null
  <2>1. n \notin ToSet(s) /\ \A k \in List : k # l => n \notin ToSet(C[k])
    BY <1>1, <1>5 DEF In
  <2>2. CASE n \in ToSet(C[l])
    BY <2>1, <2>2
  <2>3. CASE n \notin ToSet(C[l])
    <3>1. ~In(C, n)
      BY <2>1, <2>3 DEF In
    <3> QED BY <1>5, <2>1, <2>3, <3>1 DEF Represents
  <2> QED BY <2>2, <2>3
<1>6. Represents(D)'
  BY <1>1, <1>3, <1>4, <1>5 DEF Represents, In, Threads
<1> QED BY <1>6 DEF D

------------------------------------------------------------------------------
(***************************************************************************)
(* The calls, each against what it does to the sequence.                   *)
(***************************************************************************)
(* What is known of a list.                                                *)
LEMMA OfList ==
  ASSUME LinkTypeOK, NEW C, Represents(C), NEW l \in List
  PROVE  /\ C[l] \in Seq(Node) /\ NoDuplicate(C[l]) /\ count[l] = Len(C[l])
         /\ Threads(C[l], first[l], last[l], next, pre)
         /\ list_is_empty(l) <=> Len(C[l]) = 0
BY DEF Represents, list_is_empty

(* Its threads, when it has n nodes.                                       *)
LEMMA ThreadsAre ==
  ASSUME NEW n \in Nat, NEW s, n = Len(s), NEW from, NEW to, NEW forth, NEW back,
         Threads(s, from, to, forth, back)
  PROVE  /\ from = IF n = 0 THEN Null ELSE s[1]
         /\ to = IF n = 0 THEN Null ELSE s[n]
         /\ \A i \in 1..n : /\ forth[s[i]] = IF i = n THEN Null ELSE s[i + 1]
                            /\ back[s[i]] = IF i = 1 THEN Null ELSE s[i - 1]
<1>1. /\ from = IF Len(s) = 0 THEN Null ELSE s[1]
      /\ to = IF Len(s) = 0 THEN Null ELSE s[Len(s)]
  BY DEF Threads
<1>2. ASSUME NEW i \in 1..n
      PROVE  /\ forth[s[i]] = IF i = n THEN Null ELSE s[i + 1]
             /\ back[s[i]] = IF i = 1 THEN Null ELSE s[i - 1]
  <2>1. i \in 1..Len(s)
    OBVIOUS
  <2>2. /\ forth[s[i]] = IF i = Len(s) THEN Null ELSE s[i + 1]
        /\ back[s[i]] = IF i = 1 THEN Null ELSE s[i - 1]
    BY <2>1 DEF Threads
  <2> QED BY <2>2
<1> QED BY <1>1, <1>2

(* A node put in front of a sequence that it is not in, ...                *)
LEMMA Consed ==
  ASSUME NEW s \in Seq(Node), NoDuplicate(s), NEW x \in Node, x \notin ToSet(s)
  PROVE  LET t == << x >> \o s
         IN  /\ t \in Seq(Node) /\ Len(t) = Len(s) + 1 /\ t[1] = x
             /\ \A i \in 1..Len(s) : t[i + 1] = s[i]
             /\ NoDuplicate(t) /\ ToSet(t) = ToSet(s) \cup {x}
<1> DEFINE t == << x >> \o s
<1>1. /\ << x >> \in Seq(Node) /\ Len(<< x >>) = 1 /\ << x >>[1] = x
  OBVIOUS
<1>2. PICK n \in Nat : n = Len(s)
  BY SeqIs
<1>3. /\ t \in Seq(Node) /\ Len(t) = n + 1
      /\ \A i \in 1..(n + 1) : t[i] = IF i <= 1 THEN << x >>[i] ELSE s[i - 1]
  BY <1>1, <1>2, ConcatProperties
<1>4. t[1] = x /\ \A i \in 1..n : t[i + 1] = s[i]
  BY <1>1, <1>3
<1> HIDE DEF t
<1>5. \A y : y \in ToSet(t) <=> \E i \in 1..(n + 1) : t[i] = y
  BY <1>3, SeqIs
<1>6. \A y : y \in ToSet(s) <=> \E i \in 1..n : s[i] = y
  BY <1>2, SeqIs
<1>7. \A i \in 1..(n + 1) : i = 1 \/ (i - 1 \in 1..n /\ t[i] = s[i - 1])
  BY <1>3
<1>8. ToSet(t) = ToSet(s) \cup {x}
  <2>1. ASSUME NEW y \in ToSet(t) PROVE y \in ToSet(s) \cup {x}
    BY <1>4, <1>5, <1>6, <1>7
  <2>2. ASSUME NEW y \in ToSet(s) PROVE y \in ToSet(t)
    <3>1. PICK i \in 1..n : s[i] = y
      BY <1>6
    <3>2. i + 1 \in 1..(n + 1)
      OBVIOUS
    <3> QED BY <1>4, <1>5, <3>1, <3>2
  <2>3. x \in ToSet(t)
    <3>1. 1 \in 1..(n + 1)
      OBVIOUS
    <3> QED BY <1>4, <1>5, <3>1
  <2> QED BY <2>1, <2>2, <2>3
<1>9. NoDuplicate(t)
  <2> SUFFICES ASSUME NEW i \in 1..(n + 1), NEW j \in 1..(n + 1), t[i] = t[j] PROVE i = j
    <3>1. DOMAIN t = 1..(n + 1)
      BY <1>3, SeqIs
    <3> QED BY <3>1 DEF NoDuplicate
  <2>1. \A k \in 1..n : s[k] # x
    BY <1>6
  <2>2. i = 1 <=> j = 1
    BY <1>4, <1>7, <2>1
  <2>3. CASE i # 1
    <3>1. i - 1 \in 1..n /\ j - 1 \in 1..n /\ s[i - 1] = s[j - 1]
      BY <1>7, <2>2, <2>3
    <3>2. DOMAIN s = 1..n
      BY <1>2, SeqIs
    <3>3. i - 1 = j - 1
      BY <3>1, <3>2 DEF NoDuplicate
    <3> QED BY <3>3
  <2> QED BY <2>2, <2>3
<1> QED BY <1>2, <1>3, <1>4, <1>8, <1>9 DEF t

(* as list_insert_first puts it.                                           *)
LEMMA InsertedFirst ==
  ASSUME LinkTypeOK, NEW C, Represents(C), NEW l \in List, NEW x \in Node, ~In(C, x),
         list_insert_first(l, x)
  PROVE  LinkTypeOK' /\ Represents([C EXCEPT ![l] = << x >> \o C[l]])'
<1>1. PICK s \in Seq(Node), n \in Nat : s = C[l] /\ n = Len(s)
  BY OfList, SeqIs
<1>2. PICK t : t = << x >> \o s
  OBVIOUS
<1>3. /\ NoDuplicate(s) /\ count[l] = n /\ Threads(s, first[l], last[l], next, pre)
      /\ list_is_empty(l) <=> n = 0
  BY <1>1, OfList
<1>4. x \notin ToSet(s)
  BY <1>1 DEF In
<1>5. /\ t \in Seq(Node) /\ Len(t) = n + 1 /\ t[1] = x /\ \A i \in 1..n : t[i + 1] = s[i]
      /\ NoDuplicate(t) /\ ToSet(t) = ToSet(s) \cup {x}
  BY <1>1, <1>2, <1>3, <1>4, Consed
<1>6. /\ DOMAIN s = 1..n /\ \A i \in 1..n : s[i] \in Node /\ s[i] \in ToSet(s) /\ s[i] # x
  BY <1>1, <1>4, SeqIs
<1>7. /\ first[l] = IF n = 0 THEN Null ELSE s[1]
      /\ last[l] = IF n = 0 THEN Null ELSE s[n]
      /\ \A i \in 1..n : /\ next[s[i]] = IF i = n THEN Null ELSE s[i + 1]
                         /\ pre[s[i]] = IF i = 1 THEN Null ELSE s[i - 1]
  BY <1>1, <1>3, ThreadsAre, SMTT(60)
<1>8. LinkTypeOK'
  BY DEF LinkTypeOK, list_insert_first
<1>9. /\ first'[l] = x /\ count'[l] = n + 1 /\ last'[l] = IF n = 0 THEN x ELSE last[l]
      /\ \A k \in List : k # l => first'[k] = first[k] /\ last'[k] = last[k] /\ count'[k] = count[k]
  BY <1>3 DEF LinkTypeOK, list_insert_first
<1>10. \A y \in Node : /\ next'[y] = IF y = x THEN first[l] ELSE next[y]
                       /\ pre'[y] = IF y = x THEN Null ELSE IF n # 0 /\ y = first[l] THEN x ELSE pre[y]
  BY <1>3 DEF LinkTypeOK, list_insert_first, list_is_empty
<1>11. Threads(t, first'[l], last'[l], next', pre')
  <2>1. ASSUME NEW i \in 1..(n + 1)
        PROVE  /\ next'[t[i]] = IF i = n + 1 THEN Null ELSE t[i + 1]
               /\ pre'[t[i]] = IF i = 1 THEN Null ELSE t[i - 1]
    <3>1. CASE i = 1 /\ n = 0
      BY <1>5, <1>7, <1>10, <3>1
    <3>2. CASE i = 1 /\ n # 0
      <4>1. 1 \in 1..n
        BY <3>2
      <4>2. t[2] = s[1]
        BY <1>5, <4>1
      <4> QED BY <1>5, <1>7, <1>10, <3>2, <4>2
    <3>3. CASE i # 1
      <4>1. PICK j \in 1..n : i = j + 1
        <5>1. i - 1 \in 1..n /\ i = (i - 1) + 1
          BY <3>3
        <5> QED BY <5>1
      <4>2. t[i] = s[j] /\ s[j] # x /\ s[j] \in Node
        BY <1>5, <1>6, <4>1
      <4>3. next'[s[j]] = IF j = n THEN Null ELSE s[j + 1]
        BY <1>7, <1>10, <4>2
      <4>4. j # n => s[j + 1] = t[i + 1]
        <5>1. ASSUME j # n PROVE j + 1 \in 1..n /\ (j + 1) + 1 = i + 1
          BY <4>1, <5>1
        <5> QED BY <1>5, <5>1
      <4>5. pre'[s[j]] = t[i - 1]
        <5>1. CASE j = 1
          BY <1>5, <1>7, <1>10, <4>1, <4>2, <5>1
        <5>2. CASE j # 1
          <6>1. j - 1 \in 1..n /\ (j - 1) + 1 = i - 1 /\ 1 \in 1..n
            BY <4>1, <5>2
          <6>2. s[j] # s[1]
            BY <1>3, <1>6, <5>2, <6>1 DEF NoDuplicate
          <6>3. pre'[s[j]] = s[j - 1]
            BY <1>7, <1>10, <4>2, <5>2, <6>1, <6>2
          <6> QED BY <1>5, <6>1, <6>3
        <5> QED BY <5>1, <5>2
      <4> QED BY <3>3, <4>1, <4>2, <4>3, <4>4, <4>5
    <3> QED BY <3>1, <3>2, <3>3
  <2>2. last'[l] = t[n + 1]
    <3>1. CASE n = 0
      BY <1>5, <1>9, <3>1
    <3>2. CASE n # 0
      <4>1. n \in 1..n
        BY <3>2
      <4> QED BY <1>5, <1>7, <1>9, <3>2, <4>1
    <3> QED BY <3>1, <3>2
  <2> QED BY <1>5, <1>9, <2>1, <2>2 DEF Threads
<1>12. \A y \in Node : y \notin ToSet(s) \cup ToSet(t) => pre'[y] = pre[y] /\ next'[y] = next[y]
  <2> SUFFICES ASSUME NEW y \in Node, y \notin ToSet(s), y \notin ToSet(t)
               PROVE  pre'[y] = pre[y] /\ next'[y] = next[y]
    OBVIOUS
  <2>1. y # x
    BY <1>5
  <2>2. n # 0 => y # first[l]
    <3>1. n # 0 => 1 \in 1..n
      OBVIOUS
    <3> QED BY <1>6, <1>7, <3>1
  <2> QED BY <1>10, <2>1, <2>2
<1>13. \A y \in ToSet(t) : y \in ToSet(s) \/ ~In(C, y)
  BY <1>5
<1>14. \A y \in ToSet(s) \ ToSet(t) : FALSE
  BY <1>5
<1>15. Represents([C EXCEPT ![l] = t])'
  BY <1>1, <1>5, <1>9, <1>11, <1>12, <1>13, <1>14, OneList
<1> QED BY <1>1, <1>2, <1>8, <1>15

(* A node put behind a sequence that it is not in, ...                     *)
LEMMA Appended ==
  ASSUME NEW s \in Seq(Node), NoDuplicate(s), NEW x \in Node, x \notin ToSet(s)
  PROVE  LET t == Append(s, x)
         IN  /\ t \in Seq(Node) /\ Len(t) = Len(s) + 1 /\ t[Len(s) + 1] = x
             /\ \A i \in 1..Len(s) : t[i] = s[i]
             /\ NoDuplicate(t) /\ ToSet(t) = ToSet(s) \cup {x}
<1> DEFINE t == Append(s, x)
<1>1. PICK n \in Nat : n = Len(s)
  BY SeqIs
<1>2. /\ t \in Seq(Node) /\ Len(t) = n + 1 /\ t[n + 1] = x
      /\ \A i \in 1..n : t[i] = s[i]
  BY <1>1, AppendProperties
<1> HIDE DEF t
<1>3. \A y : y \in ToSet(t) <=> \E i \in 1..(n + 1) : t[i] = y
  BY <1>2, SeqIs
<1>4. \A y : y \in ToSet(s) <=> \E i \in 1..n : s[i] = y
  BY <1>1, SeqIs
<1>5. n + 1 \in 1..(n + 1) /\ \A i \in 1..(n + 1) : i = n + 1 \/ i \in 1..n
  OBVIOUS
<1>6. \A i \in 1..n : i \in 1..(n + 1)
  OBVIOUS
<1>7. ToSet(t) = ToSet(s) \cup {x}
  <2>1. ASSUME NEW y \in ToSet(t) PROVE y \in ToSet(s) \cup {x}
    BY <1>2, <1>3, <1>4, <1>5
  <2>2. ASSUME NEW y \in ToSet(s) PROVE y \in ToSet(t)
    BY <1>2, <1>3, <1>4, <1>6
  <2>3. x \in ToSet(t)
    BY <1>2, <1>3, <1>5
  <2> QED BY <2>1, <2>2, <2>3
<1>8. NoDuplicate(t)
  <2>1. DOMAIN t = 1..(n + 1) /\ DOMAIN s = 1..n
    BY <1>1, <1>2, SeqIs
  <2> SUFFICES ASSUME NEW i \in 1..(n + 1), NEW j \in 1..(n + 1), t[i] = t[j] PROVE i = j
    BY <2>1 DEF NoDuplicate
  <2>2. \A k \in 1..n : s[k] # x
    BY <1>4
  <2>3. i = n + 1 <=> j = n + 1
    BY <1>2, <1>5, <2>2
  <2>4. CASE i # n + 1
    <3>1. i \in 1..n /\ j \in 1..n /\ s[i] = s[j]
      BY <1>2, <1>5, <2>3, <2>4
    <3> QED BY <2>1, <3>1 DEF NoDuplicate
  <2> QED BY <2>3, <2>4
<1> QED BY <1>1, <1>2, <1>7, <1>8 DEF t

(* as list_insert_last puts it.                                            *)
LEMMA InsertedLast ==
  ASSUME LinkTypeOK, NEW C, Represents(C), NEW l \in List, NEW x \in Node, ~In(C, x),
         list_insert_last(l, x)
  PROVE  LinkTypeOK' /\ Represents([C EXCEPT ![l] = Append(C[l], x)])'
<1>1. PICK s \in Seq(Node), n \in Nat : s = C[l] /\ n = Len(s)
  BY OfList, SeqIs
<1>2. PICK t : t = Append(s, x)
  OBVIOUS
<1>3. /\ NoDuplicate(s) /\ count[l] = n /\ Threads(s, first[l], last[l], next, pre)
      /\ list_is_empty(l) <=> n = 0
  BY <1>1, OfList
<1>4. x \notin ToSet(s)
  BY <1>1 DEF In
<1>5. /\ t \in Seq(Node) /\ Len(t) = n + 1 /\ t[n + 1] = x /\ \A i \in 1..n : t[i] = s[i]
      /\ NoDuplicate(t) /\ ToSet(t) = ToSet(s) \cup {x}
  BY <1>1, <1>2, <1>3, <1>4, Appended
<1>6. /\ DOMAIN s = 1..n
      /\ \A i \in 1..n : s[i] \in Node /\ s[i] \in ToSet(s) /\ s[i] # x
  BY <1>1, <1>4, SeqIs
<1>7. /\ first[l] = IF n = 0 THEN Null ELSE s[1]
      /\ last[l] = IF n = 0 THEN Null ELSE s[n]
      /\ \A i \in 1..n : /\ next[s[i]] = IF i = n THEN Null ELSE s[i + 1]
                         /\ pre[s[i]] = IF i = 1 THEN Null ELSE s[i - 1]
  BY <1>1, <1>3, ThreadsAre, SMTT(60)
<1>8. LinkTypeOK'
  BY DEF LinkTypeOK, list_insert_last
<1>9. /\ last'[l] = x /\ count'[l] = n + 1 /\ first'[l] = IF n = 0 THEN x ELSE first[l]
      /\ \A k \in List : k # l => first'[k] = first[k] /\ last'[k] = last[k] /\ count'[k] = count[k]
  BY <1>3 DEF LinkTypeOK, list_insert_last
<1>10. \A y \in Node :
         /\ pre'[y] = IF y = x THEN last[l] ELSE pre[y]
         /\ next'[y] = IF y = x THEN Null ELSE IF n # 0 /\ y = last[l] THEN x ELSE next[y]
  BY <1>3 DEF LinkTypeOK, list_insert_last, list_is_empty
<1>11. Threads(t, first'[l], last'[l], next', pre')
  <2>1. ASSUME NEW i \in 1..(n + 1)
        PROVE  /\ next'[t[i]] = IF i = n + 1 THEN Null ELSE t[i + 1]
               /\ pre'[t[i]] = IF i = 1 THEN Null ELSE t[i - 1]
    <3>1. CASE i = n + 1 /\ n = 0
      BY <1>5, <1>7, <1>10, <3>1
    <3>2. CASE i = n + 1 /\ n # 0
      <4>1. n \in 1..n /\ (n + 1) - 1 = n
        BY <3>2
      <4>2. t[n] = s[n]
        BY <1>5, <4>1
      <4> QED BY <1>5, <1>7, <1>10, <3>2, <4>1, <4>2
    <3>3. CASE i # n + 1
      <4>1. i \in 1..n
        BY <3>3
      <4>2. t[i] = s[i] /\ s[i] # x /\ s[i] \in Node
        BY <1>5, <1>6, <4>1
      <4>3. pre'[s[i]] = IF i = 1 THEN Null ELSE s[i - 1]
        BY <1>7, <1>10, <4>1, <4>2
      <4>4. i # 1 => s[i - 1] = t[i - 1]
        <5>1. ASSUME i # 1 PROVE i - 1 \in 1..n
          BY <4>1, <5>1
        <5> QED BY <1>5, <5>1
      <4>5. next'[s[i]] = t[i + 1]
        <5>1. CASE i = n
          BY <1>5, <1>7, <1>10, <4>1, <4>2, <5>1
        <5>2. CASE i # n
          <6>1. i + 1 \in 1..n /\ n \in 1..n /\ n # 0
            BY <4>1, <5>2
          <6>2. s[i] # s[n]
            BY <1>3, <1>6, <4>1, <5>2, <6>1 DEF NoDuplicate
          <6>3. next'[s[i]] = s[i + 1]
            BY <1>7, <1>10, <4>1, <4>2, <5>2, <6>1, <6>2
          <6> QED BY <1>5, <6>1, <6>3
        <5> QED BY <5>1, <5>2
      <4> QED BY <3>3, <4>2, <4>3, <4>4, <4>5
    <3> QED BY <3>1, <3>2, <3>3
  <2>2. first'[l] = t[1]
    <3>1. CASE n = 0
      BY <1>5, <1>9, <3>1
    <3>2. CASE n # 0
      <4>1. 1 \in 1..n
        BY <3>2
      <4> QED BY <1>5, <1>7, <1>9, <3>2, <4>1
    <3> QED BY <3>1, <3>2
  <2> QED BY <1>5, <1>9, <2>1, <2>2 DEF Threads
<1>12. \A y \in Node : y \notin ToSet(s) \cup ToSet(t) => pre'[y] = pre[y] /\ next'[y] = next[y]
  <2> SUFFICES ASSUME NEW y \in Node, y \notin ToSet(s), y \notin ToSet(t)
               PROVE  pre'[y] = pre[y] /\ next'[y] = next[y]
    OBVIOUS
  <2>1. y # x
    BY <1>5
  <2>2. n # 0 => y # last[l]
    <3>1. n # 0 => n \in 1..n
      OBVIOUS
    <3> QED BY <1>6, <1>7, <3>1
  <2> QED BY <1>10, <2>1, <2>2
<1>13. \A y \in ToSet(t) : y \in ToSet(s) \/ ~In(C, y)
  BY <1>5
<1>14. \A y \in ToSet(s) \ ToSet(t) : FALSE
  BY <1>5
<1>15. Represents([C EXCEPT ![l] = t])'
  BY <1>1, <1>5, <1>9, <1>11, <1>12, <1>13, <1>14, OneList
<1> QED BY <1>1, <1>2, <1>8, <1>15

(* A node taken out of its place, ...                                      *)
LEMMA TakenOut ==
  ASSUME NEW s \in Seq(Node), NoDuplicate(s), NEW h \in 1..Len(s)
  PROVE  LET t == list_remove(s, s[h])
         IN  /\ t \in Seq(Node) /\ Len(t) = Len(s) - 1
             /\ \A i \in 1..(Len(s) - 1) : t[i] = IF i < h THEN s[i] ELSE s[i + 1]
             /\ NoDuplicate(t) /\ ToSet(t) = ToSet(s) \ {s[h]}
<1>1. PICK n \in Nat : n = Len(s) /\ h \in 1..n
  BY SeqIs
<1>2. DOMAIN s = 1..n
  BY <1>1, SeqIs
<1>3. (CHOOSE i \in DOMAIN s : s[i] = s[h]) = h
  BY <1>1, <1>2 DEF NoDuplicate
<1>4. PICK a, b : a = SubSeq(s, 1, h - 1) /\ b = SubSeq(s, h + 1, n)
  OBVIOUS
<1>5. PICK t : t = list_remove(s, s[h])
  OBVIOUS
<1>6. t = a \o b
  BY <1>1, <1>3, <1>4, <1>5 DEF list_remove, RemoveAt
<1>7. /\ a \in Seq(Node) /\ Len(a) = h - 1 /\ \A i \in 1..(h - 1) : a[i] = s[i]
      /\ b \in Seq(Node) /\ Len(b) = n - h /\ \A i \in 1..(n - h) : b[i] = s[h + i]
  <2>1. /\ SubSeq(s, 1, h - 1) \in Seq(Node) /\ Len(SubSeq(s, 1, h - 1)) = h - 1
        /\ \A i \in 1..(h - 1) : SubSeq(s, 1, h - 1)[i] = s[i]
    BY <1>1
  <2>2. /\ SubSeq(s, h + 1, n) \in Seq(Node) /\ Len(SubSeq(s, h + 1, n)) = n - h
        /\ \A i \in 1..(n - h) : SubSeq(s, h + 1, n)[i] = s[h + i]
    BY <1>1
  <2> QED BY <1>4, <2>1, <2>2
<1>8. /\ t \in Seq(Node) /\ Len(t) = n - 1
      /\ \A i \in 1..(n - 1) : t[i] = IF i <= h - 1 THEN a[i] ELSE b[i - (h - 1)]
  <2>1. /\ a \o b \in Seq(Node) /\ Len(a \o b) = Len(a) + Len(b)
        /\ \A i \in 1..(Len(a) + Len(b)) :
             (a \o b)[i] = IF i <= Len(a) THEN a[i] ELSE b[i - Len(a)]
    BY <1>7, ConcatProperties
  <2>2. Len(a) = h - 1 /\ Len(a) + Len(b) = n - 1
    BY <1>1, <1>7
  <2> QED BY <1>6, <2>1, <2>2
<1>9. \A i \in 1..(n - 1) : t[i] = IF i < h THEN s[i] ELSE s[i + 1]
  <2> SUFFICES ASSUME NEW i \in 1..(n - 1) PROVE t[i] = IF i < h THEN s[i] ELSE s[i + 1]
    OBVIOUS
  <2>1. CASE i < h
    <3>1. i \in 1..(h - 1) /\ i <= h - 1
      BY <1>1, <2>1
    <3>2. a[i] = s[i] /\ t[i] = a[i]
      BY <1>7, <1>8, <3>1
    <3> QED BY <2>1, <3>2
  <2>2. CASE i >= h
    <3>1. i - (h - 1) \in 1..(n - h) /\ h + (i - (h - 1)) = i + 1 /\ ~(i <= h - 1)
      BY <1>1, <2>2
    <3> QED BY <1>7, <1>8, <2>2, <3>1
  <2> QED BY <1>1, <2>1, <2>2
<1>10. \A y : y \in ToSet(t) <=> \E i \in 1..(n - 1) : t[i] = y
  BY <1>8, SeqIs
<1>11. \A y : y \in ToSet(s) <=> \E i \in 1..n : s[i] = y
  BY <1>1, SeqIs
<1>12. \A i \in 1..(n - 1) : \E j \in 1..n : /\ j # h /\ t[i] = s[j]
                                            /\ j = IF i < h THEN i ELSE i + 1
  <2> SUFFICES ASSUME NEW i \in 1..(n - 1)
               PROVE  \E j \in 1..n : j # h /\ t[i] = s[j] /\ j = IF i < h THEN i ELSE i + 1
    OBVIOUS
  <2>1. (IF i < h THEN i ELSE i + 1) \in 1..n /\ (IF i < h THEN i ELSE i + 1) # h
    BY <1>1
  <2> QED BY <1>9, <2>1
<1>13. ToSet(t) = ToSet(s) \ {s[h]}
  <2>1. ASSUME NEW y \in ToSet(t) PROVE y \in ToSet(s) /\ y # s[h]
    <3>1. PICK j \in 1..n : j # h /\ y = s[j]
      BY <1>10, <1>12
    <3> QED BY <1>1, <1>2, <1>11, <3>1 DEF NoDuplicate
  <2>2. ASSUME NEW y \in ToSet(s), y # s[h] PROVE y \in ToSet(t)
    <3>1. PICK j \in 1..n : y = s[j] /\ j # h
      BY <1>11, <2>2
    <3>2. CASE j < h
      <4>1. j \in 1..(n - 1)
        BY <1>1, <3>2
      <4> QED BY <1>9, <1>10, <3>1, <3>2, <4>1
    <3>3. CASE j > h
      <4>1. j - 1 \in 1..(n - 1) /\ ~(j - 1 < h) /\ (j - 1) + 1 = j
        BY <1>1, <3>3
      <4>2. t[j - 1] = s[j]
        BY <1>9, <4>1
      <4> QED BY <1>10, <3>1, <4>1, <4>2
    <3>4. j < h \/ j > h
      BY <1>1, <3>1
    <3> QED BY <3>2, <3>3, <3>4
  <2> QED BY <2>1, <2>2
<1>14. NoDuplicate(t)
  <2>1. DOMAIN t = 1..(n - 1)
    BY <1>8, SeqIs
  <2> SUFFICES ASSUME NEW i \in 1..(n - 1), NEW j \in 1..(n - 1), t[i] = t[j] PROVE i = j
    BY <2>1 DEF NoDuplicate
  <2>2. PICK p \in 1..n : t[i] = s[p] /\ p = IF i < h THEN i ELSE i + 1
    BY <1>12
  <2>3. PICK q \in 1..n : t[j] = s[q] /\ q = IF j < h THEN j ELSE j + 1
    BY <1>12
  <2>4. p = q
    BY <1>2, <2>2, <2>3 DEF NoDuplicate
  <2> QED BY <1>1, <2>2, <2>3, <2>4
<1> QED BY <1>1, <1>5, <1>8, <1>9, <1>13, <1>14

(* as list_remove_node takes it.                                           *)
LEMMA Removed ==
  ASSUME LinkTypeOK, NEW C, Represents(C), NEW l \in List, NEW x \in ToSet(C[l]),
         list_remove_node(l, x)
  PROVE  LinkTypeOK' /\ Represents([C EXCEPT ![l] = list_remove(C[l], x)])'
<1>1. PICK s \in Seq(Node), n \in Nat : s = C[l] /\ n = Len(s)
  BY OfList, SeqIs
<1>2. PICK h \in 1..n : x = s[h]
  BY <1>1, SeqIs
<1>3. PICK t : t = list_remove(s, x)
  OBVIOUS
<1>4. /\ NoDuplicate(s) /\ count[l] = n /\ Threads(s, first[l], last[l], next, pre)
  BY <1>1, OfList
<1>5. /\ t \in Seq(Node) /\ Len(t) = n - 1
      /\ \A i \in 1..(n - 1) : t[i] = IF i < h THEN s[i] ELSE s[i + 1]
      /\ NoDuplicate(t) /\ ToSet(t) = ToSet(s) \ {x}
  <2>1. h \in 1..Len(s) /\ t = list_remove(s, s[h])
    BY <1>1, <1>2, <1>3
  <2>2. /\ t \in Seq(Node) /\ Len(t) = Len(s) - 1
        /\ \A i \in 1..(Len(s) - 1) : t[i] = IF i < h THEN s[i] ELSE s[i + 1]
        /\ NoDuplicate(t) /\ ToSet(t) = ToSet(s) \ {s[h]}
    BY <1>4, <2>1, TakenOut
  <2> QED BY <1>1, <1>2, <2>2
<1>6. /\ DOMAIN s = 1..n /\ \A i \in 1..n : s[i] \in Node /\ s[i] \in ToSet(s)
  BY <1>1, SeqIs
<1>7. /\ first[l] = IF n = 0 THEN Null ELSE s[1]
      /\ last[l] = IF n = 0 THEN Null ELSE s[n]
      /\ \A i \in 1..n : /\ next[s[i]] = IF i = n THEN Null ELSE s[i + 1]
                         /\ pre[s[i]] = IF i = 1 THEN Null ELSE s[i - 1]
  BY <1>1, <1>4, ThreadsAre, SMTT(60)
<1>8. n # 0 /\ x \in Node /\ Null \notin Node /\ 1 \in 1..n /\ n \in 1..n
  BY <1>2, <1>6, LinkedListAssumption
<1>9. \A i, j \in 1..n : s[i] = s[j] <=> i = j
  BY <1>4, <1>6 DEF NoDuplicate
<1>10. /\ next[x] = IF h = n THEN Null ELSE s[h + 1]
       /\ pre[x] = IF h = 1 THEN Null ELSE s[h - 1]
  BY <1>2, <1>7
<1>11. \A i \in 1..n : /\ s[i] = pre[x] <=> i = h - 1
                       /\ s[i] = next[x] <=> i = h + 1
  <2> SUFFICES ASSUME NEW i \in 1..n
               PROVE  (s[i] = pre[x] <=> i = h - 1) /\ (s[i] = next[x] <=> i = h + 1)
    OBVIOUS
  <2>1. s[i] # Null
    BY <1>6, <1>8
  <2>2. s[i] = pre[x] <=> i = h - 1
    <3>1. CASE h = 1
      BY <1>10, <2>1, <3>1
    <3>2. CASE h # 1
      <4>1. h - 1 \in 1..n
        BY <1>2, <3>2
      <4> QED BY <1>9, <1>10, <3>2, <4>1
    <3> QED BY <3>1, <3>2
  <2>3. s[i] = next[x] <=> i = h + 1
    <3>1. CASE h = n
      BY <1>10, <2>1, <3>1
    <3>2. CASE h # n
      <4>1. h + 1 \in 1..n
        BY <1>2, <3>2
      <4> QED BY <1>9, <1>10, <3>2, <4>1
    <3> QED BY <3>1, <3>2
  <2> QED BY <2>2, <2>3
<1>12. LinkTypeOK'
  <2>1. next[x] \in Node \cup {Null} /\ pre[x] \in Node \cup {Null}
    BY <1>8 DEF LinkTypeOK
  <2>2. count'[l] \in Nat /\ count' = [count EXCEPT ![l] = count[l] - 1]
    BY <1>4, <1>8 DEF LinkTypeOK, list_remove_node
  <2> QED BY <2>1, <2>2 DEF LinkTypeOK, list_remove_node
<1>13. /\ first'[l] = IF x = first[l] THEN next[x] ELSE first[l]
       /\ last'[l] = IF x = last[l] THEN pre[x] ELSE last[l]
       /\ count'[l] = n - 1
       /\ \A k \in List : k # l => first'[k] = first[k] /\ last'[k] = last[k] /\ count'[k] = count[k]
  BY <1>4 DEF LinkTypeOK, list_remove_node
<1>14. \A y \in Node :
         /\ next'[y] = IF y = x THEN Null ELSE IF y = pre[x] THEN next[x] ELSE next[y]
         /\ pre'[y] = IF y = x THEN Null ELSE IF y = next[x] THEN pre[x] ELSE pre[y]
  BY DEF LinkTypeOK, list_remove_node
<1>15. \A i \in 1..n : i # h =>
         /\ next'[s[i]] = IF i = h - 1 THEN next[x] ELSE next[s[i]]
         /\ pre'[s[i]] = IF i = h + 1 THEN pre[x] ELSE pre[s[i]]
  BY <1>2, <1>6, <1>9, <1>11, <1>14
<1>16. /\ first'[l] = IF h = 1 THEN next[x] ELSE s[1]
       /\ last'[l] = IF h = n THEN pre[x] ELSE s[n]
  <2>1. (x = s[1] <=> h = 1) /\ (x = s[n] <=> h = n)
    BY <1>2, <1>8, <1>9
  <2> QED BY <1>7, <1>8, <1>13, <2>1
<1>17. /\ first'[l] = IF n - 1 = 0 THEN Null ELSE t[1]
       /\ last'[l] = IF n - 1 = 0 THEN Null ELSE t[n - 1]
  <2>1. CASE n = 1
    <3>1. h = 1
      BY <2>1
    <3> QED BY <1>10, <1>16, <2>1, <3>1
  <2>2. CASE n # 1
    <3>1. 1 \in 1..(n - 1) /\ n - 1 \in 1..(n - 1) /\ n - 1 # 0 /\ (n - 1) + 1 = n
      BY <1>8, <2>2
    <3>2. t[1] = IF 1 < h THEN s[1] ELSE s[1 + 1]
      BY <1>5, <3>1
    <3>3. t[n - 1] = IF n - 1 < h THEN s[n - 1] ELSE s[n]
      BY <1>5, <3>1
    <3>4. first'[l] = t[1]
      <4>1. CASE h = 1
        BY <1>10, <1>16, <2>2, <3>2, <4>1
      <4>2. CASE h # 1
        BY <1>2, <1>16, <3>2, <4>2
      <4> QED BY <4>1, <4>2
    <3>5. last'[l] = t[n - 1]
      <4>1. CASE h = n
        BY <1>10, <1>16, <2>2, <3>3, <4>1
      <4>2. CASE h # n
        BY <1>2, <1>16, <3>3, <4>2
      <4> QED BY <4>1, <4>2
    <3> QED BY <3>1, <3>4, <3>5
  <2> QED BY <2>1, <2>2
<1>18. ASSUME NEW i \in 1..(n - 1)
       PROVE  /\ next'[t[i]] = IF i = n - 1 THEN Null ELSE t[i + 1]
              /\ pre'[t[i]] = IF i = 1 THEN Null ELSE t[i - 1]
  <2>1. i # n - 1 => (i + 1 \in 1..(n - 1) /\ t[i + 1] = IF i + 1 < h THEN s[i + 1] ELSE s[(i + 1) + 1])
    <3>1. i # n - 1 => i + 1 \in 1..(n - 1)
      OBVIOUS
    <3> QED BY <1>5, <3>1
  <2>2. i # 1 => (i - 1 \in 1..(n - 1) /\ t[i - 1] = IF i - 1 < h THEN s[i - 1] ELSE s[(i - 1) + 1])
    <3>1. i # 1 => i - 1 \in 1..(n - 1)
      OBVIOUS
    <3> QED BY <1>5, <3>1
  <2>3. CASE i < h
    <3>1. i \in 1..n /\ i # h /\ i # h + 1 /\ t[i] = s[i]
      BY <1>2, <1>5, <2>3
    <3>2. next'[s[i]] = (IF i = h - 1 THEN next[x] ELSE s[i + 1])
      <4>1. i # n
        BY <1>2, <2>3
      <4> QED BY <1>7, <1>15, <3>1, <4>1
    <3>3. pre'[s[i]] = IF i = 1 THEN Null ELSE s[i - 1]
      BY <1>7, <1>15, <3>1
    <3>4. pre'[s[i]] = IF i = 1 THEN Null ELSE t[i - 1]
      <4>1. i # 1 => i - 1 < h
        BY <1>2, <2>3
      <4> QED BY <2>2, <3>3, <4>1
    <3>5. CASE i = h - 1
      <4>1. i + 1 = h /\ ~(i + 1 < h) /\ (i + 1) + 1 = h + 1 /\ (i = n - 1 <=> h = n)
        BY <1>2, <3>5
      <4>2. next'[s[i]] = IF h = n THEN Null ELSE s[h + 1]
        BY <1>10, <3>2, <3>5
      <4>3. h # n => t[i + 1] = s[h + 1]
        BY <2>1, <4>1
      <4>4. next'[s[i]] = IF i = n - 1 THEN Null ELSE t[i + 1]
        BY <4>1, <4>2, <4>3
      <4> QED BY <3>1, <3>4, <4>4
    <3>6. CASE i # h - 1
      <4>1. i + 1 < h /\ i # n - 1
        BY <1>2, <2>3, <3>6
      <4>2. next'[s[i]] = t[i + 1]
        BY <2>1, <3>2, <3>6, <4>1
      <4> QED BY <3>1, <3>4, <4>1, <4>2
    <3> QED BY <3>5, <3>6
  <2>4. CASE i >= h
    <3>1. PICK j \in 1..n : j = i + 1
      OBVIOUS
    <3>2. j # h /\ j # h - 1 /\ t[i] = s[j] /\ j # 1 /\ (j = n <=> i = n - 1)
      BY <1>2, <1>5, <2>4, <3>1
    <3>3. next'[s[j]] = IF i = n - 1 THEN Null ELSE s[j + 1]
      BY <1>7, <1>15, <3>2
    <3>4. next'[s[j]] = IF i = n - 1 THEN Null ELSE t[i + 1]
      <4>1. ~(i + 1 < h) /\ (i + 1) + 1 = j + 1
        BY <1>2, <2>4, <3>1
      <4> QED BY <2>1, <3>3, <4>1
    <3>5. pre'[s[j]] = IF j = h + 1 THEN pre[x] ELSE s[j - 1]
      BY <1>7, <1>15, <3>2
    <3>6. CASE i = h
      <4>1. j = h + 1
        BY <3>1, <3>6
      <4>2. pre'[s[j]] = IF h = 1 THEN Null ELSE s[h - 1]
        BY <1>10, <3>5, <4>1
      <4>3. i - 1 < h
        BY <1>2, <3>6
      <4>4. h # 1 => t[i - 1] = s[h - 1]
        BY <2>2, <3>6, <4>3
      <4>5. pre'[s[j]] = IF i = 1 THEN Null ELSE t[i - 1]
        BY <3>6, <4>2, <4>4
      <4> QED BY <3>2, <3>4, <4>5
    <3>7. CASE i # h
      <4>1. j # h + 1 /\ ~(i - 1 < h) /\ i # 1 /\ (i - 1) + 1 = j - 1
        BY <1>2, <2>4, <3>1, <3>7
      <4>2. t[i - 1] = s[j - 1]
        BY <2>2, <4>1
      <4> QED BY <3>2, <3>4, <3>5, <4>1, <4>2
    <3> QED BY <3>6, <3>7
  <2> QED BY <1>2, <2>3, <2>4
<1>19. Threads(t, first'[l], last'[l], next', pre')
  BY <1>5, <1>17, <1>18 DEF Threads
<1>20. \A y \in Node : y \notin ToSet(s) \cup ToSet(t) => pre'[y] = pre[y] /\ next'[y] = next[y]
  <2> SUFFICES ASSUME NEW y \in Node, y \notin ToSet(s) PROVE pre'[y] = pre[y] /\ next'[y] = next[y]
    OBVIOUS
  <2>1. y # x
    BY <1>2, <1>6
  <2>2. y # next[x]
    <3>1. h # n => h + 1 \in 1..n
      BY <1>2
    <3> QED BY <1>6, <1>8, <1>10, <3>1
  <2>3. y # pre[x]
    <3>1. h # 1 => h - 1 \in 1..n
      BY <1>2
    <3> QED BY <1>6, <1>8, <1>10, <3>1
  <2> QED BY <1>14, <2>1, <2>2, <2>3
<1>21. \A y \in ToSet(t) : y \in ToSet(s) \/ ~In(C, y)
  BY <1>5
<1>22. \A y \in ToSet(s) \ ToSet(t) : pre'[y] = Null /\ next'[y] = Null
  BY <1>5, <1>8, <1>14
<1>23. Represents([C EXCEPT ![l] = t])'
  BY <1>1, <1>5, <1>13, <1>19, <1>20, <1>21, <1>22, OneList
<1> QED BY <1>1, <1>3, <1>12, <1>23

(* Taking the first node is taking that node out of its place.             *)
LEMMA FirstIsRemoved ==
  ASSUME LinkTypeOK, NEW C, Represents(C), NEW l \in List, list_remove_first(l)
  PROVE  /\ C[l] # <<>> /\ first[l] \in ToSet(C[l])
         /\ list_remove_node(l, first[l])
         /\ list_remove(C[l], first[l]) = Tail(C[l])
<1>1. PICK s \in Seq(Node), n \in Nat : s = C[l] /\ n = Len(s)
  BY OfList, SeqIs
<1>2. /\ NoDuplicate(s) /\ count[l] = n /\ Threads(s, first[l], last[l], next, pre)
      /\ n # 0
  BY <1>1, OfList DEF list_remove_first
<1>3. /\ DOMAIN s = 1..n /\ \A i \in 1..n : s[i] \in Node /\ s[i] \in ToSet(s)
  BY <1>1, SeqIs
<1>4. /\ first[l] = s[1] /\ last[l] = s[n]
      /\ \A i \in 1..n : /\ next[s[i]] = IF i = n THEN Null ELSE s[i + 1]
                         /\ pre[s[i]] = IF i = 1 THEN Null ELSE s[i - 1]
  <2>1. /\ first[l] = IF n = 0 THEN Null ELSE s[1]
        /\ last[l] = IF n = 0 THEN Null ELSE s[n]
        /\ \A i \in 1..n : /\ next[s[i]] = IF i = n THEN Null ELSE s[i + 1]
                           /\ pre[s[i]] = IF i = 1 THEN Null ELSE s[i - 1]
    BY <1>1, <1>2, ThreadsAre, SMTT(60)
  <2> QED BY <1>2, <2>1
<1>5. 1 \in 1..n /\ n \in 1..n /\ Null \notin Node /\ (n # 1 => 2 \in 1..n)
  BY <1>2, LinkedListAssumption
<1>6. PICK x \in Node : x = first[l] /\ x = s[1] /\ x \in ToSet(s)
  BY <1>3, <1>4, <1>5
<1>7. pre[x] = Null /\ next[x] = IF n = 1 THEN Null ELSE s[2]
  BY <1>4, <1>5, <1>6
<1>8. (next[x] = Null <=> n = 1) /\ (x = last[l] <=> n = 1)
  <2>1. n # 1 => s[2] # Null
    BY <1>3, <1>5
  <2>2. s[1] = s[n] => n = 1
    BY <1>2, <1>3, <1>5 DEF NoDuplicate
  <2> QED BY <1>4, <1>6, <1>7, <2>1, <2>2
<1>9. list_remove_node(l, x)
  <2>1. /\ first' = [first EXCEPT ![l] = next[x]]
        /\ last' = (IF next[x] = Null THEN [last EXCEPT ![l] = Null] ELSE last)
        /\ pre' = [m \in Node |-> IF m \in {x, next[x]} THEN Null ELSE pre[m]]
        /\ next' = [next EXCEPT ![x] = Null]
        /\ count' = [count EXCEPT ![l] = count[l] - 1]
    BY <1>6 DEF list_remove_first
  <2>2. first' = IF x = first[l] THEN [first EXCEPT ![l] = next[x]] ELSE first
    BY <1>6, <2>1
  <2>3. last' = IF x = last[l] THEN [last EXCEPT ![l] = pre[x]] ELSE last
    BY <1>7, <1>8, <2>1
  <2>4. next' = [m \in Node |-> IF m = x THEN Null
                                ELSE IF m = pre[x] THEN next[x] ELSE next[m]]
    <3>1. \A m \in Node : m # pre[x]
      BY <1>5, <1>7
    <3> QED BY <2>1, <3>1 DEF LinkTypeOK
  <2>5. pre' = [m \in Node |-> IF m = x THEN Null
                               ELSE IF m = next[x] THEN pre[x] ELSE pre[m]]
    BY <1>7, <2>1
  <2> QED BY <2>1, <2>2, <2>3, <2>4, <2>5 DEF list_remove_node
<1>10. s # <<>> /\ list_remove(s, x) = Tail(s)
  <2>1. PICK t : t = list_remove(s, x)
    OBVIOUS
  <2>2. t \in Seq(Node) /\ Len(t) = n - 1 /\ \A i \in 1..(n - 1) : t[i] = IF i < 1 THEN s[i] ELSE s[i + 1]
    BY <1>1, <1>2, <1>5, <1>6, <2>1, TakenOut, SMTT(60)
  <2>3. s # <<>>
    BY <1>1, <1>2
  <2>4. Tail(s) \in Seq(Node) /\ Len(Tail(s)) = n - 1 /\ \A i \in 1..(n - 1) : Tail(s)[i] = s[i + 1]
    BY <1>1, <2>3, HeadTailProperties
  <2>5. \A i \in 1..(n - 1) : t[i] = Tail(s)[i]
    BY <2>2, <2>4
  <2>6. t = Tail(s)
    BY <2>2, <2>4, <2>5, SeqSame
  <2> QED BY <2>1, <2>3, <2>6
<1> QED BY <1>1, <1>6, <1>9, <1>10

------------------------------------------------------------------------------
(***************************************************************************)
(* From the empty lists, call by call.                                     *)
(***************************************************************************)
(* At first the pointers stand for empty sequences.                        *)
LEMMA InitRepresents == Init => LinkTypeOK /\ Represents([l \in List |-> <<>>])
<1> SUFFICES ASSUME Init PROVE LinkTypeOK /\ Represents([l \in List |-> <<>>])
  OBVIOUS
<1>1. LinkTypeOK
  BY DEF Init, LinkTypeOK
<1> DEFINE C == [l \in List |-> <<>>]
<1>2. C \in [List -> Seq(Node)] /\ \A l \in List : C[l] = <<>>
  OBVIOUS
<1> HIDE DEF C
<1>3. Len(<<>>) = 0 /\ NoDuplicate(<<>>) /\ ToSet(<<>>) = {}
  BY DEF NoDuplicate, ToSet
<1>4. \A l \in List : Threads(<<>>, first[l], last[l], next, pre) /\ count[l] = 0
  BY <1>3 DEF Init, Threads
<1>5. \A n \in Node : pre[n] = Null /\ next[n] = Null
  BY DEF Init
<1>6. Represents(C)
  BY <1>2, <1>3, <1>4, <1>5 DEF Represents
<1> QED BY <1>1, <1>6 DEF C

(* A call changes the sequence of its list as the abstract lists say.      *)
ListChanges(C, D) ==
  \E l \in List :
    \/ \E n \in Node : ~In(C, n) /\ D = [C EXCEPT ![l] = << n >> \o C[l]]
    \/ \E n \in Node : ~In(C, n) /\ D = [C EXCEPT ![l] = Append(C[l], n)]
    \/ C[l] # <<>> /\ D = [C EXCEPT ![l] = Tail(C[l])]
    \/ \E n \in ToSet(C[l]) : D = [C EXCEPT ![l] = list_remove(C[l], n)]

(* A call leaves pointers that stand for the sequences after it.           *)
LEMMA NextRepresents ==
  ASSUME LinkTypeOK, NEW C, Represents(C), Next
  PROVE  LinkTypeOK' /\ \E D : Represents(D)' /\ ListChanges(C, D)
<1>1. PICK l \in List :
        \/ \E n \in Node \ Linked : list_insert_first(l, n) \/ list_insert_last(l, n)
        \/ list_remove_first(l)
        \/ \E n \in ToSet(Nodes(l)) : list_remove_node(l, n)
  BY DEF Next
<1>2. Nodes(l) = C[l] /\ \A n \in Node : n \in Linked <=> In(C, n)
  BY NodesAre
<1>3. ASSUME NEW n \in Node \ Linked, list_insert_first(l, n)
      PROVE  LinkTypeOK' /\ \E D : Represents(D)' /\ ListChanges(C, D)
  <2>1. ~In(C, n)
    BY <1>2
  <2>2. LinkTypeOK' /\ Represents([C EXCEPT ![l] = << n >> \o C[l]])'
    BY <1>3, <2>1, InsertedFirst
  <2>3. ListChanges(C, [C EXCEPT ![l] = << n >> \o C[l]])
    BY <2>1 DEF ListChanges
  <2> QED BY <2>2, <2>3
<1>4. ASSUME NEW n \in Node \ Linked, list_insert_last(l, n)
      PROVE  LinkTypeOK' /\ \E D : Represents(D)' /\ ListChanges(C, D)
  <2>1. ~In(C, n)
    BY <1>2
  <2>2. LinkTypeOK' /\ Represents([C EXCEPT ![l] = Append(C[l], n)])'
    BY <1>4, <2>1, InsertedLast
  <2>3. ListChanges(C, [C EXCEPT ![l] = Append(C[l], n)])
    BY <2>1 DEF ListChanges
  <2> QED BY <2>2, <2>3
<1>5. CASE list_remove_first(l)
  <2>1. PICK x : x = first[l]
    OBVIOUS
  <2>2. /\ C[l] # <<>> /\ x \in ToSet(C[l]) /\ list_remove_node(l, x)
        /\ list_remove(C[l], x) = Tail(C[l])
    BY <1>5, <2>1, FirstIsRemoved
  <2>3. LinkTypeOK' /\ Represents([C EXCEPT ![l] = list_remove(C[l], x)])'
    BY <2>2, Removed
  <2>4. LinkTypeOK' /\ Represents([C EXCEPT ![l] = Tail(C[l])])'
    BY <2>2, <2>3
  <2>5. ListChanges(C, [C EXCEPT ![l] = Tail(C[l])])
    BY <2>2 DEF ListChanges
  <2> QED BY <2>4, <2>5
<1>6. ASSUME NEW n \in ToSet(Nodes(l)), list_remove_node(l, n)
      PROVE  LinkTypeOK' /\ \E D : Represents(D)' /\ ListChanges(C, D)
  <2>1. n \in ToSet(C[l])
    BY <1>2
  <2>2. LinkTypeOK' /\ Represents([C EXCEPT ![l] = list_remove(C[l], n)])'
    BY <1>6, <2>1, Removed
  <2>3. ListChanges(C, [C EXCEPT ![l] = list_remove(C[l], n)])
    BY <2>1 DEF ListChanges
  <2> QED BY <2>2, <2>3
<1> QED BY <1>1, <1>3, <1>4, <1>5, <1>6

(* A step that changes no pointer leaves the sequences as they are.        *)
LEMMA StutterRepresents ==
  ASSUME LinkTypeOK, NEW C, Represents(C), UNCHANGED vars
  PROVE  LinkTypeOK' /\ Represents(C)'
<1>1. LinkTypeOK'
  BY DEF LinkTypeOK, vars
<1>2. Represents(C)'
  BY DEF Represents, vars, Threads, In
<1> QED BY <1>1, <1>2

(***************************************************************************)
(* In every state the pointers stand for some family of sequences.         *)
(***************************************************************************)
LEMMA AlwaysLinked == Spec => []LinkInv
<1>1. Init => LinkInv
  BY InitRepresents DEF LinkInv
<1>2. LinkInv /\ [Next]_vars => LinkInv'
  BY NextRepresents, StutterRepresents DEF LinkInv
<1> QED BY <1>1, <1>2, PTL DEF Spec

(* That is what it means to be well linked.                                *)
LEMMA RepresentsWellLinked ==
  ASSUME NEW C, Represents(C)
  PROVE  WellLinked
<1>1. /\ \A l \in List : Nodes(l) = C[l]
      /\ \A n \in Node : n \in Linked <=> In(C, n)
  BY NodesAre
<1>2. ASSUME NEW l \in List
      PROVE  /\ Chain(last[l], pre) = Reverse(Nodes(l))
             /\ count[l] = Len(Nodes(l))
             /\ NoDuplicate(Nodes(l))
  <2>1. /\ C[l] \in Seq(Node) /\ NoDuplicate(C[l]) /\ count[l] = Len(C[l])
        /\ Threads(C[l], first[l], last[l], next, pre)
    BY DEF Represents
  <2>2. Chain(last[l], pre) = Reverse(C[l])
    BY <2>1, BackwardIs
  <2> QED BY <1>1, <2>1, <2>2
<1>3. \A k, l \in List : k # l => ToSet(Nodes(k)) \cap ToSet(Nodes(l)) = {}
  BY <1>1 DEF Represents
<1>4. \A n \in Node \ Linked : pre[n] = Null /\ next[n] = Null
  BY <1>1 DEF Represents
<1> QED BY <1>2, <1>3, <1>4 DEF WellLinked

(***************************************************************************)
(* The two threads of a list hold the same nodes, the counter counts them, *)
(* no node is in two lists or twice in one, and a node in no list points   *)
(* nowhere: after any calls of kernel/tools/list.c that keep its rule.     *)
(***************************************************************************)
THEOREM ListsWellLinked == Spec => []WellLinked
<1>1. LinkInv => WellLinked
  BY RepresentsWellLinked DEF LinkInv
<1> QED BY <1>1, AlwaysLinked, PTL

(* The sequences after a step.                                             *)
LEMMA NodesWillBe ==
  ASSUME NEW D, Represents(D)'
  PROVE  [l \in List |-> Nodes(l)]' = D
<1>1. ASSUME NEW l \in List PROVE Nodes(l)' = D[l]
  <2>1. D[l] \in Seq(Node) /\ NoDuplicate(D[l])
    BY DEF Represents
  <2>2. Threads(D[l], first'[l], last'[l], next', pre')
    BY DEF Represents, Threads
  <2>3. PICK from, link : from = first'[l] /\ link = next'
    OBVIOUS
  <2>4. /\ from = IF Len(D[l]) = 0 THEN Null ELSE D[l][1]
        /\ \A i \in 1..Len(D[l]) :
             link[D[l][i]] = IF i = Len(D[l]) THEN Null ELSE D[l][i + 1]
    BY <2>2, <2>3 DEF Threads
  <2>5. Chain(from, link) = D[l]
    BY <2>1, <2>4, ChainIs
  <2> QED BY <2>3, <2>5 DEF Nodes, Chain
<1>2. D = [l \in List |-> D[l]]
  BY DEF Represents
<1> QED BY <1>1, <1>2

(* The abstract lists make the same step.                                  *)
LEMMA AbstractStep ==
  ASSUME NEW C, Represents(C), NEW D, Represents(D)', ListChanges(C, D)
  PROVE  AsSequences!Next
<1>1. [l \in List |-> Nodes(l)] = C /\ [l \in List |-> Nodes(l)]' = D
  BY NodesAre, NodesWillBe
<1>2. \A l \in List : \A list : D = [C EXCEPT ![l] = list] => AsSequences!Changes(l, list)
  BY <1>1 DEF AsSequences!Changes
<1>3. \A n \in Node : ~In(C, n) => n \in AsSequences!Unlinked
  <2>1. \A l \in List : Nodes(l) = C[l]
    BY NodesAre
  <2>2. \A list : AsSequences!ToSet(list) = ToSet(list)
    BY DEF AsSequences!ToSet, ToSet
  <2> QED BY <2>1, <2>2 DEF AsSequences!Unlinked, In
<1>4. PICK l \in List :
        \/ \E n \in Node : ~In(C, n) /\ D = [C EXCEPT ![l] = << n >> \o C[l]]
        \/ \E n \in Node : ~In(C, n) /\ D = [C EXCEPT ![l] = Append(C[l], n)]
        \/ C[l] # <<>> /\ D = [C EXCEPT ![l] = Tail(C[l])]
        \/ \E n \in ToSet(C[l]) : D = [C EXCEPT ![l] = list_remove(C[l], n)]
  BY DEF ListChanges
<1>5. ASSUME NEW n \in Node, ~In(C, n), D = [C EXCEPT ![l] = << n >> \o C[l]]
      PROVE  AsSequences!InsertFirst(l)
  BY <1>1, <1>2, <1>3, <1>5 DEF AsSequences!InsertFirst
<1>6. ASSUME NEW n \in Node, ~In(C, n), D = [C EXCEPT ![l] = Append(C[l], n)]
      PROVE  AsSequences!InsertLast(l)
  BY <1>1, <1>2, <1>3, <1>6 DEF AsSequences!InsertLast
<1>7. ASSUME C[l] # <<>>, D = [C EXCEPT ![l] = Tail(C[l])]
      PROVE  AsSequences!TakeFirst(l)
  BY <1>1, <1>2, <1>7 DEF AsSequences!TakeFirst
<1>8. ASSUME NEW n \in ToSet(C[l]), D = [C EXCEPT ![l] = list_remove(C[l], n)]
      PROVE  AsSequences!TakeNode(l)
  <2>1. Nodes(l) = C[l]
    BY NodesAre
  <2>2. AsSequences!Changes(l, list_remove(C[l], n))
    BY <1>2, <1>8
  <2>3. n \in AsSequences!ToSet(Nodes(l))
    BY <2>1 DEF AsSequences!ToSet, ToSet
  <2>4. AsSequences!list_remove(Nodes(l), n) = list_remove(C[l], n)
    BY <2>1 DEF AsSequences!list_remove, list_remove, AsSequences!RemoveAt, RemoveAt
  <2> QED BY <2>2, <2>3, <2>4 DEF AsSequences!TakeNode
<1> QED BY <1>4, <1>5, <1>6, <1>7, <1>8 DEF AsSequences!Next

(***************************************************************************)
(* The calls implement the sequences by which the scheduler and the wait   *)
(* lists are modelled: each changes the one sequence it is given as the    *)
(* abstract lists say.                                                     *)
(***************************************************************************)
THEOREM PointersImplementLists == Spec => ImplementsLists
<1>1. Init => AsSequences!Init
  <2> SUFFICES ASSUME Init PROVE AsSequences!Init
    OBVIOUS
  <2>1. Represents([l \in List |-> <<>>])
    BY InitRepresents
  <2>2. [l \in List |-> Nodes(l)] = [l \in List |-> <<>>]
    BY <2>1, NodesAre
  <2> QED BY <2>2 DEF AsSequences!Init
<1>2. LinkInv /\ [Next]_vars => [AsSequences!Next]_([l \in List |-> Nodes(l)])
  <2> SUFFICES ASSUME LinkInv, [Next]_vars
               PROVE  AsSequences!Next \/ UNCHANGED [l \in List |-> Nodes(l)]
    OBVIOUS
  <2>1. PICK C : LinkTypeOK /\ Represents(C)
    BY DEF LinkInv
  <2>2. CASE Next
    <3>1. PICK D : Represents(D)' /\ ListChanges(C, D)
      BY <2>1, <2>2, NextRepresents
    <3> QED BY <2>1, <3>1, AbstractStep
  <2>3. CASE UNCHANGED vars
    <3>1. Represents(C)'
      BY <2>1, <2>3, StutterRepresents
    <3>2. [l \in List |-> Nodes(l)] = C /\ [l \in List |-> Nodes(l)]' = C
      BY <2>1, <3>1, NodesAre, NodesWillBe
    <3> QED BY <3>2
  <2> QED BY <2>2, <2>3
<1> QED BY <1>1, <1>2, AlwaysLinked, PTL DEF Spec, ImplementsLists, AsSequences!Spec

=============================================================================
