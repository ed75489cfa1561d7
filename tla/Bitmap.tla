------------------------------- MODULE Bitmap -------------------------------
(***************************************************************************)
(* The bit array of ds/bitmap.c, shared by the physical allocator and by   *)
(* the per-process virtual allocator.  A bitmap_t is a record: size counts *)
(* bytes, bits is the set of indices whose bit is 1.  An index beyond the  *)
(* last byte reads as 0 and writing it does nothing; the guard of the code *)
(* lets the index size * 8, one past the last bit, through.                *)
(***************************************************************************)
EXTENDS Integers

InRange(bm, idx) == idx <= bm.size * 8

bitmap_get(bm, idx) == IF InRange(bm, idx) /\ idx \in bm.bits THEN 1 ELSE 0

bitmap_set(bm, idx, value) ==
  IF ~InRange(bm, idx) THEN bm
  ELSE [bm EXCEPT !.bits = IF value = 0 THEN @ \ {idx} ELSE @ \cup {idx}]

\* for (i = 0; i < n; i++) bitmap_set(bm, first + i, value), as the callers do
bitmap_set_range(bm, first, n, value) ==
  LET hit == {idx \in first .. (first + n - 1) : InRange(bm, idx)} IN
  [bm EXCEPT !.bits = IF value = 0 THEN @ \ hit ELSE @ \cup hit]
=============================================================================
