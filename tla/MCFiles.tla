------------------------------ MODULE MCFiles ------------------------------
EXTENDS Files

(* Two segments with a header between them that is not loaded.             *)
TwoSegments == << 2, 0, 1 >>
=============================================================================
