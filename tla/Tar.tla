--------------------------------- MODULE Tar --------------------------------
(***************************************************************************)
(* The initrd as parse_tar (src/utils/tar.cpp) walks through it: blocks of *)
(* 512 bytes, for each file a header and the blocks of its data, then      *)
(* blocks of zeros.  A file is a record with the length of its name, its   *)
(* size, the block its header is in and the program in it.                 *)
(***************************************************************************)
EXTENDS Naturals, Sequences

BLOCK == 512
DIGITS == 11

\* What the digits count for: the variable count, in the last turn first.
Count == <<1073741824, 134217728, 16777216, 2097152, 262144, 32768, 4096, 512, 64, 8, 1>>

\* The size field of a header (external): octal digits, the first one first.
SizeField(size) == [j \in 1 .. DIGITS |-> (size \div Count[j]) % 8]

getsize(in) ==
    in[11] * Count[11] + in[10] * Count[10] + in[9] * Count[9] + in[8] * Count[8]
    + in[7] * Count[7] + in[6] * Count[6] + in[5] * Count[5] + in[4] * Count[4]
    + in[3] * Count[3] + in[2] * Count[2] + in[1] * Count[1]

\* The layout of an archive (external): the block behind a file, the block of
\* zeros behind the last one, and each header behind the file before.  Sizes
\* are below the gigabyte that P2V reaches.
Behind(file) == file.block + 1 + (file.size + BLOCK - 1) \div BLOCK

End(archive) == IF archive = <<>> THEN 0 ELSE Behind(archive[Len(archive)])

SizeLimit == 1073741824

WellFormed(archive) ==
    \A k \in 1 .. Len(archive) :
        /\ archive[k].name \in Nat /\ archive[k].size \in Nat /\ archive[k].size < SizeLimit
        /\ archive[k].block \in Nat
        /\ archive[k].block = IF k = 1 THEN 0 ELSE Behind(archive[k - 1])

\* Mutant: a last block that is not full is forgotten.
next_address_FullBlocks(block, size) == block + (size \div BLOCK) + 1

\* Where parse_tar goes from the header in this block.
next_address(block, size) ==
    block + (size \div BLOCK) + 1 + (IF size % BLOCK # 0 THEN 1 ELSE 0)

\* The last block that the copy of a file's data reads.
LastRead(block, size) == block + (size + BLOCK - 1) \div BLOCK
=============================================================================
