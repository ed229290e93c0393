-------------------------------- MODULE Pmm ---------------------------------
(***************************************************************************)
(* pmm::PMM (src/pmm/pmm.cpp): the physical frame allocator, a bitmap with *)
(* one bit per 4 KiB frame (1 = used) built from the multiboot memory map. *)
(*                                                                         *)
(* The kernel calls init once, then allocate_frame and free_frame from one *)
(* thread of control (no interrupt handler allocates).  Callers follow the *)
(* only protocol the interface allows: a frame is freed by who holds it,   *)
(* through its physical or its higher-half address.                        *)
(***************************************************************************)
EXTENDS Address, Bitmap, Functions

CONSTANTS
    kernel_start, kernel_end,  \* linker symbols (lkd.ld): HIGHER-HALF addresses
    Mbds                       \* the multiboot information the loader may pass

VARIABLES
    mbd,       \* the multiboot_info_t the kernel was started with
    phase,     \* "reset" until PMM::init has run
    _nbFrames,
    _bm,
    ret,       \* the last pointer allocate_frame returned
    handouts,  \* history: how many holders each frame has
    pool       \* history: the frames init left free (frame 0 is never searched)

vars == <<mbd, phase, _nbFrames, _bm, ret, handouts, pool>>

\* A multiboot information: flags6, is bit 6 of flags set (a memory map is
\* present), and mmap, the entries of that map.
total_mem(mmap) == SumFunction([i \in DOMAIN mmap |-> mmap[i].len])

\* Mutant: bytes are taken for frames.
NbFrames_Bytes(mmap) == total_mem(mmap)

\* The frames init counts: all regions, available or not, holes left out.
NbFrames(mmap) == total_mem(mmap) \div FRAME_SIZE

\* Frames that V2P can tell apart; more memory than QUARTER is out of reach of
\* the higher half (P2V of two frames coincides) and excluded here.
Frames == 0 .. (QUARTER \div FRAME_SIZE - 1)

ASSUME PmmAssumption ==
    /\ kernel_start \in Nat
    /\ kernel_end \in Nat
    /\ \A m \in Mbds :
        /\ m.flags6 \in BOOLEAN
        /\ total_mem(m.mmap) \in 0 .. QUARTER
-----------------------------------------------------------------------------
(* PMM::init: the bitmap it builds. *)

\* The frames set_used and set_unused loop over.  Indices past the end of the
\* bitmap are ignored by set_bit and clear_bit.
RegionFrames(addr, size) ==
    (addr \div FRAME_SIZE) .. (addr \div FRAME_SIZE + PagesOf(size) - 1)

set_used(bm, addr, size) ==
    [bm EXCEPT !.bits = @ \cup (RegionFrames(addr, size) \cap Bits(bm))]

kernel_end_page == PagesOf(kernel_end) * FRAME_SIZE

bitmap_pages(n) == PagesOf((n + 7) \div 8)

bitmap_end_addr(n) == kernel_end_page + bitmap_pages(n) * FRAME_SIZE

\* memset(bitmap_ptr, 0xFF, bitmap_size_bytes): every frame used.
AllUsed(n) == NewBitmap(0 .. (8 * ((n + 7) \div 8) - 1), n)

\* The frames the second loop over the memory map marks unused for one entry.
\* start is compared with, and the length is computed from, kernel_start as
\* the linker gives it; end is truncated to 32 bits.
Released(e, n) ==
    LET start == e.addr
        end   == (e.addr + e.len) % ADDR_SPACE
    IN  (IF start < kernel_start
         THEN RegionFrames(start, kernel_start - start) ELSE {})
        \cup
        (IF end > bitmap_end_addr(n)
         THEN RegionFrames(bitmap_end_addr(n), end - bitmap_end_addr(n)) ELSE {})

\* The bitmap at the end of init: all used, available regions released, then
\* the kernel image and the bitmap itself marked used again.
InitialBitmap(mmap, n) ==
    LET available == {i \in DOMAIN mmap : mmap[i].available}
        released  == UNION {Released(mmap[i], n) : i \in available}
        freed     == [AllUsed(n) EXCEPT !.bits = @ \ released]
        kernel    == set_used(freed, kernel_start, kernel_end - kernel_start)
    IN  set_used(kernel, kernel_end_page, bitmap_pages(n) * FRAME_SIZE)

Init ==
    /\ mbd \in Mbds
    /\ phase = "reset"
    /\ _nbFrames = 0
    /\ _bm = [size |-> 0, bits |-> {}]
    /\ ret = nullptr
    /\ handouts = [f \in Frames |-> 0]
    /\ pool = {}

\* PMM::init.  Without a memory map it returns at once and no frame exists.
PmmInit ==
    /\ phase = "reset"
    /\ phase' = "ready"
    /\ IF mbd.flags6
       THEN LET n == NbFrames(mbd.mmap) IN
            /\ _nbFrames' = n
            /\ _bm' = InitialBitmap(mbd.mmap, n)
            /\ pool' = {f \in 1 .. (n - 1) : ~get_bit(_bm', f)}
       ELSE UNCHANGED <<_nbFrames, _bm, pool>>
    /\ UNCHANGED <<mbd, ret, handouts>>
-----------------------------------------------------------------------------
(* allocate_frame and free_frame. *)

\* The loop of allocate_frame stops at frame i: the first clear bit from 1 on.
FirstFreeFrame(i) ==
    /\ i \in 1 .. (_nbFrames - 1)
    /\ ~get_bit(_bm, i)
    /\ \A j \in 1 .. (i - 1) : get_bit(_bm, j)

\* Mutant: the number of the frame is returned, not its address.
AllocateFrame_Number ==
    /\ phase = "ready"
    /\ \E i \in Frames :
        /\ FirstFreeFrame(i)
        /\ _bm' = set_bit(_bm, i)
        /\ ret' = i
        /\ handouts' = [handouts EXCEPT ![i] = @ + 1]
    /\ UNCHANGED <<mbd, phase, _nbFrames, pool>>

AllocateFrame ==
    /\ phase = "ready"
    /\ \E i \in Frames :
        /\ FirstFreeFrame(i)
        /\ _bm' = set_bit(_bm, i)
        /\ ret' = i * FRAME_SIZE
        /\ handouts' = [handouts EXCEPT ![i] = @ + 1]
    /\ UNCHANGED <<mbd, phase, _nbFrames, pool>>

AllocateFrameFails ==
    /\ phase = "ready"
    /\ \A i \in 1 .. (_nbFrames - 1) : get_bit(_bm, i)
    /\ ret' = nullptr
    /\ UNCHANGED <<mbd, phase, _nbFrames, _bm, handouts, pool>>

\* What free_frame(addr) makes of the bitmap.
free_frame(addr) ==
    LET frame == V2P(addr) \div FRAME_SIZE
    IN  IF addr = nullptr \/ frame >= _nbFrames THEN _bm
        ELSE clear_bit(_bm, frame)

\* The holder of frame f frees it, by its physical or higher-half address.
FreeFrame(f, addr) ==
    /\ phase = "ready"
    /\ handouts[f] > 0
    /\ addr \in {f * FRAME_SIZE, P2V(f * FRAME_SIZE)}
    /\ _bm' = free_frame(addr)
    /\ handouts' = [handouts EXCEPT ![f] = @ - 1]
    /\ UNCHANGED <<mbd, phase, _nbFrames, ret, pool>>

\* free_frame of nothing: a null pointer, or memory outside the bitmap.
FreeIgnored(addr) ==
    /\ phase = "ready"
    /\ addr \in {nullptr, _nbFrames * FRAME_SIZE}
    /\ _nbFrames \in Frames
    /\ _bm' = free_frame(addr)
    /\ UNCHANGED <<mbd, phase, _nbFrames, ret, handouts, pool>>

Next ==
    \/ PmmInit
    \/ AllocateFrame
    \/ AllocateFrameFails
    \/ \E f \in Frames : \E addr \in {f * FRAME_SIZE, P2V(f * FRAME_SIZE)} :
          FreeFrame(f, addr)
    \/ \E addr \in {nullptr, _nbFrames * FRAME_SIZE} : FreeIgnored(addr)

Spec == Init /\ [][Next]_vars
-----------------------------------------------------------------------------
(* Properties. *)

TypeOK ==
    /\ mbd \in Mbds
    /\ phase \in {"reset", "ready"}
    /\ _nbFrames \in 0 .. (QUARTER \div FRAME_SIZE)
    /\ _bm \in [size : Nat, bits : SUBSET Nat]
    /\ ret \in Nat
    /\ handouts \in [Frames -> Nat]
    /\ pool \in SUBSET (1 .. (_nbFrames - 1))

\* No frame ever has two holders: allocate_frame does not give out a frame
\* that was given out before and not freed since.
NoDoubleHandout == \A f \in Frames : handouts[f] <= 1

\* The bitmap tells the truth in both directions: the frames allocate_frame
\* may still give out are exactly those init left free that nobody holds.
\* A frame freed through either of its addresses is available again; none is
\* lost, and none that init marked used is ever released.
PoolConserved ==
    {f \in 1 .. (_nbFrames - 1) : ~get_bit(_bm, f)}
        = {f \in pool : handouts[f] = 0}

\* allocate_frame and free_frame keep the promise of FrameAllocator.
Abstract == INSTANCE FrameAllocator WITH
    held <- {f \in Frames : handouts[f] > 0},
    answer <- ret \div FRAME_SIZE

ImplementsFrameAllocator == Abstract!Spec

\* Frame f shares a byte with the region [addr, addr + len).
Overlaps(f, region) ==
    /\ f * FRAME_SIZE < region.addr + region.len
    /\ region.addr < (f + 1) * FRAME_SIZE

\* init logs every entry of the map that is not available as "Unusable
\* Memory" (pmm.cpp:42): no frame of such memory should be given out.
UnusableNeverHandedOut ==
    \A f \in Frames : handouts[f] > 0 =>
        \A i \in DOMAIN mbd.mmap :
            ~mbd.mmap[i].available => ~Overlaps(f, mbd.mmap[i])
=============================================================================
