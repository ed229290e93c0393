------------------------------ MODULE Address -------------------------------
(***************************************************************************)
(* Addresses of the 32-bit machine.  The kernel lives in the top quarter   *)
(* of the address space: P2V and V2P (src/includes/utils.hpp) set and      *)
(* clear the two top bits.  QUARTER is 2^30 in the kernel; the models use  *)
(* a smaller multiple of the frame size, which keeps the same arithmetic.  *)
(***************************************************************************)
EXTENDS Naturals

CONSTANT QUARTER

FRAME_SIZE == 4096

ASSUME QuarterAssumption ==
    /\ QUARTER \in Nat \ {0}
    /\ QUARTER % FRAME_SIZE = 0

KERNEL_OFFSET == 3 * QUARTER

\* Addresses are uint32_t: sums are taken modulo this.
ADDR_SPACE == 4 * QUARTER

nullptr == 0

\* Mutant: the address is taken as it is.
V2P_Identity(a) == a

\* ((uintptr_t)(a) & ~KERNEL_OFFSET): drop the two top bits.
V2P(a) == a % QUARTER

\* ((uintptr_t)(a) | KERNEL_OFFSET): set the two top bits.
P2V(a) == KERNEL_OFFSET + (a % QUARTER)

\* (n + FRAME_SIZE - 1) / FRAME_SIZE, the rounding used for pages.
PagesOf(n) == (n + FRAME_SIZE - 1) \div FRAME_SIZE
=============================================================================
