---------------------------- MODULE MCLinkedList ----------------------------
(* Two lists and four nodes: a node can have two neighbours on one side,    *)
(* and move between lists.                                                  *)
EXTENDS LinkedList

(***************************************************************************)
(* The clock interrupt scans the sleep list from its head and splits it;   *)
(* InOrder is that scan: a single sequence, the one a filter leaves.       *)
(***************************************************************************)
DistinctLists == { list \in UNION { [1..n -> Node] : n \in 0..Cardinality(Node) } :
                     NoDuplicate(list) }

ASSUME ScanKeepsOrder ==
  \A list \in DistinctLists : \A S \in SUBSET ToSet(list) :
    InOrder(list, S) = { SelectSeq(list, LAMBDA n : n \in S) }
==============================================================================
