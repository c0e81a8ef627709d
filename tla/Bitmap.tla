------------------------------- MODULE Bitmap -------------------------------
(***************************************************************************)
(* The bitmap of tools/bitmap.c: a function from bit numbers, 0 on, to     *)
(* their values.                                                           *)
(***************************************************************************)
EXTENDS Integers, FiniteSetsExt

bit_count(bits) == Cardinality(DOMAIN bits)

bitmap_init(count, init_bit) == [i \in 0..(count - 1) |-> IF init_bit = 0 THEN 0 ELSE 1]

bitmap_get_bit(bits, index) == bits[index]

(* It stops at the end of the bitmap.  Any bit but 0 sets.                 *)
bitmap_set_bit(bits, index, count, bit) ==
  [i \in DOMAIN bits |->
     IF i \in index..(index + count - 1) THEN (IF bit = 0 THEN 0 ELSE 1) ELSE bits[i]]

(***************************************************************************)
(* The first of count bits in a row.  The inner loop starts at the bit     *)
(* that has been found, and so looks at count - 1 bits only; after a wrong *)
(* one, or the end of the bitmap, the search goes on behind it.  The bits  *)
(* are then set to ~bit, which is never 0.                                 *)
(***************************************************************************)
bitmap_alloc_nbits(bits, bit, count) ==
  LET n == bit_count(bits)
      WrongFrom(s) == { i \in s..(s + count - 2) : i >= n \/ bitmap_get_bit(bits, i) # bit }
      search[s \in 0..n] ==
        IF s = n THEN -1
        ELSE IF bits[s] # bit THEN search[s + 1]
        ELSE IF WrongFrom(s) = {} THEN s
        ELSE search[Min({n, Min(WrongFrom(s)) + 1})]
      ok_idx == search[0]
  IN  [ index |-> ok_idx,
        bits  |-> IF ok_idx = -1 THEN bits ELSE bitmap_set_bit(bits, ok_idx, count, -bit - 1) ]
=============================================================================
