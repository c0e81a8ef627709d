------------------------------ MODULE LinkedList ------------------------------
(***************************************************************************)
(* The doubly linked, intrusive lists of kernel/tools/list.c, pointer by   *)
(* pointer.  A node holds its own links, so it can be in one list at a     *)
(* time; the functions do not check that, and neither do they check that   *)
(* the node to remove is in the list: the guards below are what their      *)
(* callers owe them (and what OnePlace shows of the scheduler).            *)
(***************************************************************************)
EXTENDS KList, FiniteSets

CONSTANTS List, Node, Null

(* Null is no node, and nodes are in the memory of one machine.            *)
ASSUME LinkedListAssumption == IsFiniteSet(Node) /\ Null \notin Node

VARIABLES
  first, last, count,  \* list_t
  pre, next            \* list_node_t

vars == << first, last, count, pre, next >>

(* list_init and list_node_init *)
Init ==
  /\ first = [l \in List |-> Null]
  /\ last  = [l \in List |-> Null]
  /\ count = [l \in List |-> 0]
  /\ pre   = [n \in Node |-> Null]
  /\ next  = [n \in Node |-> Null]

list_is_empty(l) == count[l] = 0

(* The nodes one meets from a node along a link, at most as many as there are. *)
Chain(from, link) ==
  LET walk[k \in 0..Cardinality(Node)] ==
        IF k = 0 THEN <<>>
        ELSE LET seen == walk[k - 1]
                 node == IF seen = <<>> THEN from ELSE link[Last(seen)]
             IN  IF node = Null THEN seen ELSE Append(seen, node)
  IN  walk[Cardinality(Node)]

Nodes(l) == Chain(first[l], next)
Linked   == UNION { ToSet(Nodes(l)) : l \in List }

Slip_NoNext(l, node) ==
  /\ pre'  = [n \in Node |-> IF n = node THEN Null
                             ELSE IF ~ list_is_empty(l) /\ n = first[l] THEN node ELSE pre[n]]
  /\ first' = [first EXCEPT ![l] = node]
  /\ last'  = IF list_is_empty(l) THEN [last EXCEPT ![l] = node] ELSE last
  /\ count' = [count EXCEPT ![l] = @ + 1]
  /\ UNCHANGED next

list_insert_first(l, node) ==
  /\ next' = [next EXCEPT ![node] = first[l]]
  /\ pre'  = [n \in Node |-> IF n = node THEN Null
                             ELSE IF ~ list_is_empty(l) /\ n = first[l] THEN node ELSE pre[n]]
  /\ first' = [first EXCEPT ![l] = node]
  /\ last'  = IF list_is_empty(l) THEN [last EXCEPT ![l] = node] ELSE last
  /\ count' = [count EXCEPT ![l] = @ + 1]

list_insert_last(l, node) ==
  /\ pre'  = [pre EXCEPT ![node] = last[l]]
  /\ next' = [n \in Node |-> IF n = node THEN Null
                             ELSE IF ~ list_is_empty(l) /\ n = last[l] THEN node ELSE next[n]]
  /\ first' = IF list_is_empty(l) THEN [first EXCEPT ![l] = node] ELSE first
  /\ last'  = [last EXCEPT ![l] = node]
  /\ count' = [count EXCEPT ![l] = @ + 1]

list_remove_first(l) ==
  LET node == first[l]
  IN  /\ ~ list_is_empty(l)
      /\ first' = [first EXCEPT ![l] = next[node]]
      /\ last'  = IF next[node] = Null THEN [last EXCEPT ![l] = Null] ELSE last
      /\ pre'   = [n \in Node |-> IF n \in {node, next[node]} THEN Null ELSE pre[n]]
      /\ next'  = [next EXCEPT ![node] = Null]
      /\ count' = [count EXCEPT ![l] = @ - 1]

Slip_BackLinkKept(l, node) ==
  /\ first' = IF node = first[l] THEN [first EXCEPT ![l] = next[node]] ELSE first
  /\ last'  = IF node = last[l]  THEN [last EXCEPT ![l] = pre[node]]   ELSE last
  /\ next'  = [n \in Node |-> IF n = node THEN Null
                              ELSE IF n = pre[node] THEN next[node] ELSE next[n]]
  /\ pre'   = [pre EXCEPT ![node] = Null]
  /\ count' = [count EXCEPT ![l] = @ - 1]

list_remove_node(l, node) ==
  /\ first' = IF node = first[l] THEN [first EXCEPT ![l] = next[node]] ELSE first
  /\ last'  = IF node = last[l]  THEN [last EXCEPT ![l] = pre[node]]   ELSE last
  /\ next'  = [n \in Node |-> IF n = node THEN Null
                              ELSE IF n = pre[node] THEN next[node] ELSE next[n]]
  /\ pre'   = [n \in Node |-> IF n = node THEN Null
                              ELSE IF n = next[node] THEN pre[node] ELSE pre[n]]
  /\ count' = [count EXCEPT ![l] = @ - 1]

Next ==
  \E l \in List :
    \/ \E n \in Node \ Linked : list_insert_first(l, n) \/ list_insert_last(l, n)
    \/ list_remove_first(l)
    \/ \E n \in ToSet(Nodes(l)) : list_remove_node(l, n)

Spec == Init /\ [][Next]_vars
------------------------------------------------------------------------------
(***************************************************************************)
(* The shape of the lists: read backwards a list gives the same nodes in   *)
(* reverse; the counter, which the functions take for emptiness, counts    *)
(* them; nobody is in two lists; and a node in no list points nowhere.     *)
(***************************************************************************)
WellLinked ==
  /\ \A l \in List :
       /\ Chain(last[l], pre) = Reverse(Nodes(l))
       /\ count[l] = Len(Nodes(l))
       /\ NoDuplicate(Nodes(l))
  /\ \A k, l \in List : k # l => ToSet(Nodes(k)) \cap ToSet(Nodes(l)) = {}
  /\ \A n \in Node \ Linked : pre[n] = Null /\ next[n] = Null

(* The pointers implement the sequences that the other modules use. *)
AsSequences == INSTANCE Lists WITH contents <- [l \in List |-> Nodes(l)]
ImplementsLists == AsSequences!Spec
==============================================================================
