-------------------------------- MODULE Lists --------------------------------
(***************************************************************************)
(* What the callers of kernel/tools/list.c count on: every list is a       *)
(* sequence of nodes, and a call changes the one list it is given.  The    *)
(* scheduler and the wait lists are modelled with these sequences.         *)
(***************************************************************************)
EXTENDS KList

CONSTANTS List, Node

VARIABLE contents

Unlinked == { n \in Node : \A l \in List : n \notin ToSet(contents[l]) }

Init == contents = [l \in List |-> <<>>]

Changes(l, list) == contents' = [contents EXCEPT ![l] = list]

InsertFirst(l) == \E n \in Unlinked : Changes(l, << n >> \o contents[l])
InsertLast(l)  == \E n \in Unlinked : Changes(l, Append(contents[l], n))
TakeFirst(l)   == contents[l] # <<>> /\ Changes(l, Tail(contents[l]))
TakeNode(l)    == \E n \in ToSet(contents[l]) : Changes(l, list_remove(contents[l], n))

Next == \E l \in List : InsertFirst(l) \/ InsertLast(l) \/ TakeFirst(l) \/ TakeNode(l)

Spec == Init /\ [][Next]_contents
==============================================================================
