-------------------------------- MODULE MCIpc --------------------------------
(* Three tasks, one mutex that its owner may lock twice, and one semaphore *)
(* that starts with its one permit.                                        *)
EXTENDS Ipc

OnePermit == [s \in Sem |-> 1]
==============================================================================
