------------------------------ MODULE MCProcess ------------------------------
(* The first task and a small process table.  Slots are numbers, so the     *)
(* first task, the idle task and the null pointer are numbers as well.      *)
EXTENDS Process

FirstAndSlots == 0..TaskNr
NullTask == -1
NoPermits == [s \in Sem |-> 0]
==============================================================================
