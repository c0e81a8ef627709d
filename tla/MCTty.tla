-------------------------------- MODULE MCTty --------------------------------
(* A shell that reads and echoes, and processes that write.                 *)
EXTENDS Tty, MCEnds

WithLineBreak == { <<"x">>, <<"lf">> }
==============================================================================
