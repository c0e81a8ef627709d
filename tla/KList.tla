-------------------------------- MODULE KList --------------------------------
(***************************************************************************)
(* The kernel's intrusive list (kernel/tools/list.c), as the sequence of   *)
(* the nodes from `first' to `last'.  list_insert_last is Append and       *)
(* list_remove_first is Head and Tail; the two operators below are the     *)
(* ones that have no name in the Sequences module.                         *)
(***************************************************************************)
EXTENDS Integers, Sequences, SequencesExt

(***************************************************************************)
(* list_remove: unlinks a node wherever it is.  The code does not check    *)
(* that the node is in the list, and neither does this operator: TLC stops *)
(* with an error when it is not, so every use is checked to be legal.      *)
(***************************************************************************)
list_remove(list, node) ==
  RemoveAt(list, CHOOSE i \in DOMAIN list : list[i] = node)

(***************************************************************************)
(* The sublists that a scan of a list from its head leaves: the sequences  *)
(* that hold exactly the elements of S, once each, in the order of list.   *)
(* There is exactly one when list has no duplicate and S is a set of its   *)
(* elements: what SelectSeq leaves (MCLinkedList compares them).           *)
(***************************************************************************)
Before(list, a, b) ==
  \E i, j \in DOMAIN list : i < j /\ list[i] = a /\ list[j] = b

NoDuplicate(list) ==
  \A i, j \in DOMAIN list : list[i] = list[j] => i = j

InOrder(list, S) ==
  { w \in UNION { [1..n -> S] : n \in 0..Len(list) } :
      /\ ToSet(w) = S
      /\ NoDuplicate(w)
      /\ \A i, j \in DOMAIN w : i < j => Before(list, w[i], w[j]) }

==============================================================================
