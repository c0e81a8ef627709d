------------------------------- MODULE MCSched -------------------------------
(* Three tasks, a two-tick slice and an 8-bit-like word of 16: msleep takes *)
(* every int of that width, so that the rounding and the sign conversion    *)
(* meet their boundaries.                                                   *)
EXTENDS Sched

AllMs == -8..7
==============================================================================
