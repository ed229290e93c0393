----------------------------- MODULE MCKmalloc ------------------------------
(***************************************************************************)
(* Small heaps for Kmalloc.  The address space is 4 times 64 frames.  The  *)
(* frame numbers of a pool differ modulo 3: the first slot is aligned to   *)
(* 12 bytes, so that its offset depends on the frame number modulo 3.      *)
(***************************************************************************)
EXTENDS Kmalloc, TLC

MC_QUARTER == 64 * FRAME_SIZE

MC_Pool2 == {2, 3}

\* Powers 32, 256 (2 slots) and 2048 (1 slot) for malloc and realloc; 128 (a
\* Process: 72 bytes) and 64 for calloc.
MC_Sizes == {20, 200, 2000}
MC_Arrays == {<<1, 72>>, <<1, 50>>}

HandleSymmetry == Permutations(Handles)
=============================================================================
