------------------------------- MODULE MCPmm --------------------------------
(***************************************************************************)
(* Small machines for Pmm.  QUARTER is 64 frames.  The kernel image is     *)
(* linked at frame 2 of the higher half and ends inside frame 4.           *)
(***************************************************************************)
EXTENDS Pmm

KB == 1024

MC_QUARTER == 64 * FRAME_SIZE
MC_kernel_start == KERNEL_OFFSET + 2 * FRAME_SIZE + 96
MC_kernel_end   == KERNEL_OFFSET + 4 * FRAME_SIZE + 40

Entry(addr, len, available) ==
    [addr |-> addr, len |-> len, available |-> available]

Machine(flags6, mmap) == [flags6 |-> flags6, mmap |-> mmap]

\* The PC layout in miniature: low memory that ends inside a frame, firmware
\* above it, a hole, and memory above the hole.  8 frames and a fraction.
PC == << Entry(0, 7 * KB, TRUE),
         Entry(7 * KB, 1 * KB, FALSE),
         Entry(12 * KB, 3 * KB, FALSE),
         Entry(16 * KB, 22 * KB, TRUE) >>

\* A region above the kernel's own addresses (memory beyond 3 GiB).
High == << Entry(0, 24 * KB, TRUE),
           Entry(KERNEL_OFFSET + 40 * KB, 8 * KB, TRUE) >>

\* One frame only: frame 0, which is never given out.
Tiny == << Entry(0, 5 * KB, TRUE) >>

MC_Mbds == {Machine(TRUE, PC), Machine(TRUE, High), Machine(TRUE, Tiny),
            Machine(FALSE, PC)}

\* The machine of the run about what init leaves free: every region starts and
\* ends at a frame, frame 3 is firmware.
Aligned == << Entry(0, 8 * KB, TRUE),
              Entry(12 * KB, 4 * KB, FALSE),
              Entry(16 * KB, 20 * KB, TRUE) >>

MC_Aligned == {Machine(TRUE, Aligned)}
=============================================================================
