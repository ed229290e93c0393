------------------------------- MODULE Bitmap -------------------------------
(***************************************************************************)
(* utils::Bitmap (src/utils/bitmap.cpp): an array of bytes owned by the    *)
(* caller, seen as bits.  A bitmap is a record: "size" is the field _size, *)
(* the number of BYTES, and "bits" the set of indices whose bit is 1.      *)
(* The operations are pure: those that write return the new bitmap.        *)
(***************************************************************************)
EXTENDS Naturals

\* Bits of a byte.
BYTE == 8

\* The set of bit indices that _size bytes hold.
Bits(bm) == 0 .. (BYTE * bm.size - 1)

\* The constructor keeps the caller's bytes and rounds n bits up to bytes.
NewBitmap(bits, n) == [size |-> (n + 7) \div BYTE, bits |-> bits]

\* The test "bitmap_index >= _size", negated, that guards every access.
InRange(bm, i) == i \div BYTE < bm.size

get_bit(bm, i) == InRange(bm, i) /\ i \in bm.bits

\* Mutant: "=" for "|=", the other bits are lost.
set_bit_Assigns(bm, i) == IF InRange(bm, i) THEN [bm EXCEPT !.bits = {i}] ELSE bm

set_bit(bm, i) ==
    IF InRange(bm, i) THEN [bm EXCEPT !.bits = @ \cup {i}] ELSE bm

clear_bit(bm, i) ==
    IF InRange(bm, i) THEN [bm EXCEPT !.bits = @ \ {i}] ELSE bm

\* set_first_free() finds bit i: the loop runs over i < _size, so it looks at
\* as many bits as the bitmap has BYTES, and no further.
IsFirstFree(bm, i) ==
    /\ i \in 0 .. (bm.size - 1)
    /\ ~get_bit(bm, i)
    /\ \A j \in 0 .. (i - 1) : get_bit(bm, j)

\* set_first_free() returns -1.
NoneFree(bm) == \A i \in 0 .. (bm.size - 1) : get_bit(bm, i)

\* is_empty() compares all _size bytes with 0.
is_empty(bm) == bm.bits \cap Bits(bm) = {}
=============================================================================
