------------------------------ MODULE MCMemory ------------------------------
EXTENDS Memory, Bitmap

(* The bitmaps of up to six bits.                                          *)
Bitmaps == UNION { [0..(n - 1) -> {0, 1}] : n \in 0..6 }

(* What addr_alloc_page of Memory takes for granted: one page asked for is *)
(* the first that is free, it and no other bit is set, and -1 means none.  *)
ASSUME FirstFree ==
  \A bits \in Bitmaps :
    LET free  == { i \in DOMAIN bits : bits[i] = 0 }
        after == bitmap_alloc_nbits(bits, 0, 1)
    IN  IF free = {} THEN after = [index |-> -1, bits |-> bits]
        ELSE after = [index |-> Min(free), bits |-> [bits EXCEPT ![Min(free)] = 1]]

(* addr_free_page undoes it.                                               *)
ASSUME FreeUndoes ==
  \A bits \in Bitmaps :
    LET after == bitmap_alloc_nbits(bits, 0, 1)
    IN  after.index # -1 => bitmap_set_bit(after.bits, after.index, 1, 0) = bits

(* For two or more bits the result is the first run of one bit less than   *)
(* was asked for: the last bit may be somebody else's, or behind the end.  *)
ASSUME OneBitShort ==
  \A bits \in Bitmaps, count \in 2..4 :
    LET runs == { s \in DOMAIN bits :
                    \A i \in s..(s + count - 2) : i \in DOMAIN bits /\ bits[i] = 0 }
    IN  bitmap_alloc_nbits(bits, 0, count).index = IF runs = {} THEN -1 ELSE Min(runs)
=============================================================================
