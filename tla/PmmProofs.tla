----------------------------- MODULE PmmProofs ------------------------------
(***************************************************************************)
(* Proofs about Pmm, for every memory map, kernel layout and address-space *)
(* size that satisfies the assumptions of Address and Pmm.                 *)
(***************************************************************************)
EXTENDS Pmm, TLAPS

\* V2P undoes P2V for every address the higher half can hold: the two address
\* forms free_frame accepts name the same frame.
LEMMA V2PofP2V ==
    ASSUME NEW a \in 0 .. (QUARTER - 1)
    PROVE  V2P(P2V(a)) = a /\ V2P(a) = a
BY QuarterAssumption DEF V2P, P2V, KERNEL_OFFSET

\* The first byte of frame f divided by the frame size is f.
LEMMA FrameOfAddress ==
    ASSUME NEW f \in Nat
    PROVE  (f * FRAME_SIZE) \div FRAME_SIZE = f
BY DEF FRAME_SIZE

\* A frame that V2P can name lies below QUARTER.
LEMMA FrameBelowQuarter ==
    ASSUME NEW f \in Frames
    PROVE  f \in Nat /\ f * FRAME_SIZE \in 0 .. (QUARTER - 1)
BY QuarterAssumption DEF Frames, FRAME_SIZE

\* There is at least one frame, and frame numbers are naturals.
LEMMA FrameCount == QUARTER \div FRAME_SIZE \in Nat \ {0} /\ Frames \subseteq Nat
BY QuarterAssumption DEF FRAME_SIZE, Frames

\* The pool holds frame numbers that V2P can tell apart.
LEMMA PoolInFrames ==
    TypeOK => \A f \in 1 .. (_nbFrames - 1) : f \in Frames /\ f \in Nat
BY FrameCount DEF TypeOK, Frames

\* Every frame below n has its bit in a bitmap built for n frames.
LEMMA BitmapCovers ==
    ASSUME NEW n \in Nat, NEW f \in 0 .. (n - 1)
    PROVE  f \div BYTE < (n + 7) \div BYTE
BY DEF BYTE
-----------------------------------------------------------------------------
(* The inductive invariant.  NoDoubleHandout alone is not inductive: that    *)
(* the next frame found has no holder follows from PoolConserved, and that a *)
(* free clears the bit of the frame it was meant for needs the bitmap to     *)
(* cover every frame of the pool.                                            *)

BitmapSized == _bm.size = (_nbFrames + 7) \div BYTE

HeldFromPool == \A f \in Frames : handouts[f] > 0 => f \in pool

NothingBeforeInit == phase = "reset" => _nbFrames = 0 /\ pool = {}

IInv ==
    /\ TypeOK
    /\ BitmapSized
    /\ HeldFromPool
    /\ NothingBeforeInit
    /\ NoDoubleHandout
    /\ PoolConserved

\* The part of InitialBitmap the proofs need: it is a bitmap of the right size.
LEMMA InitialBitmapType ==
    ASSUME NEW mmap, NEW n \in Nat
    PROVE  /\ InitialBitmap(mmap, n) \in [size : Nat, bits : SUBSET Nat]
           /\ InitialBitmap(mmap, n).size = (n + 7) \div BYTE
<1> DEFINE available == {i \in DOMAIN mmap : mmap[i].available}
           released  == UNION {Released(mmap[i], n) : i \in available}
           freed     == [AllUsed(n) EXCEPT !.bits = @ \ released]
           kernel    == set_used(freed, kernel_start, kernel_end - kernel_start)
<1>1. /\ AllUsed(n) \in [size : Nat, bits : SUBSET Nat]
      /\ AllUsed(n).size = (n + 7) \div BYTE
  BY DEF AllUsed, NewBitmap, BYTE
<1>2. /\ freed \in [size : Nat, bits : SUBSET Nat]
      /\ freed.size = (n + 7) \div BYTE
  BY <1>1
<1>3. ASSUME NEW bm \in [size : Nat, bits : SUBSET Nat], NEW a, NEW s
      PROVE  /\ set_used(bm, a, s) \in [size : Nat, bits : SUBSET Nat]
             /\ set_used(bm, a, s).size = bm.size
  BY DEF set_used, Bits, BYTE
<1> HIDE DEF freed
<1>4. /\ kernel \in [size : Nat, bits : SUBSET Nat]
      /\ kernel.size = (n + 7) \div BYTE
  BY <1>2, <1>3
<1>5. InitialBitmap(mmap, n)
        = set_used(kernel, kernel_end_page, bitmap_pages(n) * FRAME_SIZE)
  BY DEF InitialBitmap, freed
<1> HIDE DEF kernel
<1> QED BY <1>3, <1>4, <1>5

LEMMA InitIInv == Init => IInv
<1> SUFFICES ASSUME Init PROVE IInv
  OBVIOUS
<1>1. TypeOK
  BY QuarterAssumption DEF Init, TypeOK, Frames, FRAME_SIZE, nullptr
<1>2. BitmapSized /\ HeldFromPool /\ NothingBeforeInit /\ NoDoubleHandout
  BY DEF Init, BitmapSized, HeldFromPool, NothingBeforeInit, NoDoubleHandout, BYTE
<1>3. PoolConserved
  BY DEF Init, PoolConserved, get_bit
<1> QED BY <1>1, <1>2, <1>3 DEF IInv

LEMMA PmmInitIInv == IInv /\ PmmInit => IInv'
<1> SUFFICES ASSUME IInv, PmmInit PROVE IInv'
  OBVIOUS
<1> DEFINE n == NbFrames(mbd.mmap)
<1>1. mbd \in Mbds /\ phase = "reset" /\ _nbFrames = 0 /\ pool = {}
  BY DEF IInv, TypeOK, NothingBeforeInit, PmmInit
<1>2. \A f \in Frames : handouts[f] = 0
  BY <1>1 DEF IInv, TypeOK, HeldFromPool
<1>3. CASE ~mbd.flags6
  BY <1>3 DEF IInv, TypeOK, BitmapSized, HeldFromPool, NothingBeforeInit,
              NoDoubleHandout, PoolConserved, get_bit, InRange, PmmInit
<1>4. CASE mbd.flags6
  <2>1. n \in 0 .. (QUARTER \div FRAME_SIZE)
    BY <1>1, PmmAssumption, QuarterAssumption DEF FRAME_SIZE, NbFrames
  <2>2. /\ phase' = "ready" /\ mbd' = mbd /\ ret' = ret /\ handouts' = handouts
        /\ _nbFrames' = n
        /\ _bm' = InitialBitmap(mbd.mmap, n)
        /\ pool' = {f \in 1 .. (n - 1) : ~get_bit(_bm', f)}
    BY <1>4 DEF PmmInit
  <2> HIDE DEF n
  <2>3. _bm' \in [size : Nat, bits : SUBSET Nat] /\ _bm'.size = (n + 7) \div BYTE
    BY <2>1, <2>2, InitialBitmapType
  <2>4. TypeOK'
    BY <2>1, <2>2, <2>3 DEF IInv, TypeOK
  <2>5. BitmapSized' /\ NothingBeforeInit'
    BY <2>2, <2>3 DEF BitmapSized, NothingBeforeInit
  <2>6. HeldFromPool' /\ NoDoubleHandout'
    BY <1>2, <2>2 DEF HeldFromPool, NoDoubleHandout
  <2>7. \A f \in 1 .. (n - 1) : f \in Frames
    BY <2>2, <2>4, FrameCount DEF TypeOK, Frames
  <2>8. PoolConserved'
    BY <1>2, <2>2, <2>7 DEF PoolConserved
  <2> QED BY <2>4, <2>5, <2>6, <2>8 DEF IInv
<1> QED BY <1>3, <1>4

\* Setting or clearing the bit of a managed frame changes that bit only.
LEMMA BitWritten ==
    ASSUME NEW bm \in [size : Nat, bits : SUBSET Nat], NEW f \in Nat, InRange(bm, f)
    PROVE  /\ set_bit(bm, f) \in [size : Nat, bits : SUBSET Nat]
           /\ clear_bit(bm, f) \in [size : Nat, bits : SUBSET Nat]
           /\ set_bit(bm, f).size = bm.size /\ clear_bit(bm, f).size = bm.size
           /\ get_bit(set_bit(bm, f), f)
           /\ ~get_bit(clear_bit(bm, f), f)
           /\ \A g \in Nat \ {f} :
                /\ get_bit(set_bit(bm, f), g) <=> get_bit(bm, g)
                /\ get_bit(clear_bit(bm, f), g) <=> get_bit(bm, g)
BY DEF set_bit, clear_bit, get_bit, InRange

LEMMA AllocateFrameIInv == IInv /\ AllocateFrame => IInv'
<1> SUFFICES ASSUME IInv, AllocateFrame PROVE IInv'
  OBVIOUS
<1> USE DEF IInv
<1>1. PICK i \in Frames :
        /\ FirstFreeFrame(i)
        /\ _bm' = set_bit(_bm, i)
        /\ ret' = i * FRAME_SIZE
        /\ handouts' = [handouts EXCEPT ![i] = @ + 1]
  BY DEF AllocateFrame
<1>2. UNCHANGED <<mbd, phase, _nbFrames, pool>> /\ phase = "ready"
  BY DEF AllocateFrame
<1>3. i \in 1 .. (_nbFrames - 1) /\ ~get_bit(_bm, i) /\ i \in Nat
  BY <1>1 DEF FirstFreeFrame, TypeOK, Frames
<1>4. InRange(_bm, i)
  BY <1>3, BitmapCovers DEF TypeOK, BitmapSized, InRange
<1>5. i \in pool /\ handouts[i] = 0
  BY <1>3 DEF PoolConserved
<1>6. _bm' \in [size : Nat, bits : SUBSET Nat] /\ _bm'.size = _bm.size
  BY <1>1, <1>3, <1>4, BitWritten DEF TypeOK
<1>7. TypeOK'
  BY <1>1, <1>2, <1>3, <1>6 DEF TypeOK, FRAME_SIZE
<1>8. BitmapSized' /\ NothingBeforeInit'
  BY <1>2, <1>6 DEF BitmapSized, NothingBeforeInit
<1>9. HeldFromPool' /\ NoDoubleHandout'
  BY <1>1, <1>2, <1>5 DEF HeldFromPool, NoDoubleHandout, TypeOK
<1>10. ASSUME NEW f \in 1 .. (_nbFrames - 1)
       PROVE  get_bit(_bm', f) <=> f = i \/ get_bit(_bm, f)
  BY <1>1, <1>3, <1>4, BitWritten DEF TypeOK
<1>11. PoolConserved'
  <2>1. \A f \in pool : f \in Frames /\ f \in 1 .. (_nbFrames - 1)
    BY PoolInFrames DEF TypeOK
  <2> QED BY <1>1, <1>2, <1>5, <1>10, <2>1 DEF PoolConserved, TypeOK
<1> QED BY <1>7, <1>8, <1>9, <1>11

LEMMA FreeFrameIInv ==
    ASSUME NEW f \in Frames, NEW addr, IInv, FreeFrame(f, addr)
    PROVE  IInv'
<1> USE DEF IInv
<1>1. f \in pool /\ handouts[f] = 1 /\ f \in 1 .. (_nbFrames - 1)
  <2>1. handouts[f] \in Nat /\ handouts[f] > 0 /\ handouts[f] <= 1
    BY DEF FreeFrame, TypeOK, NoDoubleHandout
  <2>2. f \in pool
    BY <2>1 DEF HeldFromPool
  <2>3. pool \subseteq 1 .. (_nbFrames - 1)
    BY DEF TypeOK
  <2>4. handouts[f] = 1
    BY <2>1
  <2> QED BY <2>2, <2>3, <2>4
<1>2. V2P(addr) \div FRAME_SIZE = f /\ addr # nullptr
  <2>1. f \in Nat /\ f * FRAME_SIZE \in 0 .. (QUARTER - 1)
    BY FrameBelowQuarter
  <2>2. V2P(addr) = f * FRAME_SIZE
    BY <2>1, V2PofP2V DEF FreeFrame
  <2>3. addr # nullptr
    BY <1>1, <2>1, QuarterAssumption
       DEF FreeFrame, nullptr, P2V, KERNEL_OFFSET, FRAME_SIZE
  <2> QED BY <2>1, <2>2, <2>3, FrameOfAddress
<1>3. InRange(_bm, f) /\ f \in Nat
  BY <1>1, BitmapCovers DEF TypeOK, BitmapSized, InRange
<1>4. /\ _bm' = clear_bit(_bm, f)
      /\ handouts' = [handouts EXCEPT ![f] = @ - 1]
      /\ UNCHANGED <<mbd, phase, _nbFrames, ret, pool>> /\ phase = "ready"
  BY <1>1, <1>2 DEF FreeFrame, free_frame, TypeOK
<1>5. _bm' \in [size : Nat, bits : SUBSET Nat] /\ _bm'.size = _bm.size
  BY <1>3, <1>4, BitWritten DEF TypeOK
<1>6. TypeOK'
  BY <1>1, <1>4, <1>5 DEF TypeOK
<1>7. BitmapSized' /\ NothingBeforeInit' /\ HeldFromPool' /\ NoDoubleHandout'
  BY <1>1, <1>4, <1>5 DEF BitmapSized, NothingBeforeInit, HeldFromPool,
                          NoDoubleHandout, TypeOK
<1>8. ASSUME NEW g \in 1 .. (_nbFrames - 1)
      PROVE  get_bit(_bm', g) <=> g # f /\ get_bit(_bm, g)
  BY <1>3, <1>4, BitWritten DEF TypeOK
<1>9. PoolConserved'
  <2>1. \A g \in pool : g \in Frames /\ g \in 1 .. (_nbFrames - 1)
    BY PoolInFrames DEF TypeOK
  <2> QED BY <1>1, <1>4, <1>8, <2>1 DEF PoolConserved, TypeOK
<1> QED BY <1>6, <1>7, <1>9

LEMMA NextIInv == IInv /\ [Next]_vars => IInv'
<1> SUFFICES ASSUME IInv, [Next]_vars PROVE IInv'
  OBVIOUS
<1> USE DEF IInv
<1>1. CASE PmmInit
  BY <1>1, PmmInitIInv
<1>2. CASE AllocateFrame
  BY <1>2, AllocateFrameIInv
<1>3. CASE AllocateFrameFails
  BY <1>3 DEF AllocateFrameFails, TypeOK, BitmapSized, HeldFromPool,
              NothingBeforeInit, NoDoubleHandout, PoolConserved, nullptr, get_bit, InRange
<1>4. ASSUME NEW f \in Frames, NEW addr, FreeFrame(f, addr) PROVE IInv'
  BY <1>4, FreeFrameIInv
<1>5. ASSUME NEW addr, FreeIgnored(addr) PROVE IInv'
  <2>1. _bm' = _bm
    <3>1. CASE addr = nullptr
      BY <1>5, <3>1 DEF FreeIgnored, free_frame
    <3>2. CASE addr = _nbFrames * FRAME_SIZE
      <4>1. V2P(addr) \div FRAME_SIZE = _nbFrames
        BY <1>5, <3>2, FrameBelowQuarter, V2PofP2V, FrameOfAddress DEF FreeIgnored
      <4> QED BY <1>5, <4>1 DEF FreeIgnored, free_frame, TypeOK
    <3> QED BY <1>5, <3>1, <3>2 DEF FreeIgnored
  <2> QED BY <1>5, <2>1 DEF FreeIgnored, TypeOK, BitmapSized, HeldFromPool,
              NothingBeforeInit, NoDoubleHandout, PoolConserved, get_bit, InRange
<1>6. CASE UNCHANGED vars
  BY <1>6 DEF vars, TypeOK, BitmapSized, HeldFromPool,
              NothingBeforeInit, NoDoubleHandout, PoolConserved, get_bit, InRange
<1> QED BY <1>1, <1>2, <1>3, <1>4, <1>5, <1>6 DEF Next
-----------------------------------------------------------------------------
(* The theorems. *)

\* IInv holds in every reachable state of the frame allocator.
LEMMA InvariantHolds == Spec => []IInv
BY InitIInv, NextIInv, PTL DEF Spec

\* PMM keeps its types: in particular the pool is a set of frames the bitmap
\* covers and frame 0 is never in it.
THEOREM TypeCorrect == Spec => []TypeOK
<1>1. IInv => TypeOK
  BY DEF IInv
<1> QED BY <1>1, InvariantHolds, PTL

\* Whatever the memory map, allocate_frame never gives a frame to two holders.
THEOREM NoDoubleHandoutHolds == Spec => []NoDoubleHandout
<1>1. IInv => NoDoubleHandout
  BY DEF IInv
<1> QED BY <1>1, InvariantHolds, PTL

\* Whatever the memory map, the frames that may still be given out are the
\* frames init left free minus the held ones: free_frame loses none.
THEOREM PoolConservedHolds == Spec => []PoolConserved
<1>1. IInv => PoolConserved
  BY DEF IInv
<1> QED BY <1>1, InvariantHolds, PTL

\* A request is granted with a frame nobody holds.
LEMMA AllocateFrameGrants == IInv /\ AllocateFrame => Abstract!Grant
<1> SUFFICES ASSUME IInv, AllocateFrame PROVE Abstract!Grant
  OBVIOUS
<1>1. PICK i \in Frames :
        /\ FirstFreeFrame(i)
        /\ ret' = i * FRAME_SIZE
        /\ handouts' = [handouts EXCEPT ![i] = @ + 1]
  BY DEF AllocateFrame
<1>2. i \in pool /\ handouts[i] = 0
  BY <1>1 DEF IInv, FirstFreeFrame, PoolConserved
<1>3. {f \in Frames : handouts'[f] > 0} = {f \in Frames : handouts[f] > 0} \cup {i}
  BY <1>1, <1>2 DEF IInv, TypeOK
<1>4. ret' \div FRAME_SIZE = i
  BY <1>1, FrameOfAddress, FrameBelowQuarter
<1>5. i \in pool \ {f \in Frames : handouts[f] > 0} /\ pool' = pool
  BY <1>2 DEF AllocateFrame
<1> QED BY <1>3, <1>4, <1>5 DEF Abstract!Grant

\* A request is refused only when the whole pool is held.
LEMMA AllocateFrameFailsRefuses == IInv /\ AllocateFrameFails => Abstract!Refuse
<1> SUFFICES ASSUME IInv, AllocateFrameFails PROVE Abstract!Refuse
  OBVIOUS
<1>1. \A f \in pool : handouts[f] # 0
  BY DEF IInv, PoolConserved, AllocateFrameFails
<1>2. \A f \in pool : f \in Frames
  BY PoolInFrames DEF IInv, TypeOK
<1>3. pool \subseteq {f \in Frames : handouts[f] > 0}
  BY <1>1, <1>2 DEF IInv, TypeOK
<1>4. ret' \div FRAME_SIZE = 0
  BY DEF AllocateFrameFails, nullptr, FRAME_SIZE
<1>5. UNCHANGED <<pool, handouts>>
  BY DEF AllocateFrameFails
<1> QED BY <1>3, <1>4, <1>5 DEF Abstract!Refuse, Abstract!NoFrame

\* A frame freed by its holder, through either address, is given back.
LEMMA FreeFrameGivesBack ==
    ASSUME NEW f \in Frames, NEW addr, IInv, FreeFrame(f, addr)
    PROVE  Abstract!GiveBack
<1>1. handouts[f] = 1
  BY DEF IInv, FreeFrame, TypeOK, NoDoubleHandout
<1>2. /\ handouts' = [handouts EXCEPT ![f] = @ - 1]
      /\ UNCHANGED <<ret, pool>>
  BY DEF FreeFrame
<1>3. {g \in Frames : handouts'[g] > 0} = {g \in Frames : handouts[g] > 0} \ {f}
  BY <1>1, <1>2 DEF IInv, TypeOK
<1>4. f \in {g \in Frames : handouts[g] > 0}
  BY <1>1
<1> QED BY <1>2, <1>3, <1>4 DEF Abstract!GiveBack

\* init fixes the pool before any request.
LEMMA PmmInitBoots == IInv /\ PmmInit => [Abstract!Next]_(Abstract!vars)
<1> SUFFICES ASSUME IInv, PmmInit PROVE [Abstract!Next]_(Abstract!vars)
  OBVIOUS
<1>1. CASE ~mbd.flags6
  BY <1>1 DEF PmmInit, Abstract!vars
<1>2. CASE mbd.flags6
  <2>1. pool = {}
    BY DEF IInv, NothingBeforeInit, PmmInit
  <2>2. {f \in Frames : handouts[f] > 0} = {}
    BY <2>1 DEF IInv, HeldFromPool
  <2>3. pool' \in SUBSET (Nat \ {0})
    <3>1. TypeOK'
      BY PmmInitIInv DEF IInv
    <3>2. pool' \in SUBSET (1 .. (_nbFrames' - 1))
      BY <3>1 DEF TypeOK
    <3>3. _nbFrames' \in Nat
      BY <3>1, FrameCount DEF TypeOK
    <3>4. \A f \in 1 .. (_nbFrames' - 1) : f \in Nat \ {0}
      BY <3>3
    <3> QED BY <3>2, <3>4
  <2>4. UNCHANGED <<ret, handouts>>
    BY DEF PmmInit
  <2>5. Abstract!Boot
    BY <2>1, <2>2, <2>3, <2>4 DEF Abstract!Boot, Abstract!NoFrame
  <2> QED BY <2>5 DEF Abstract!Next
<1> QED BY <1>1, <1>2

\* Every step of PMM is a step of the abstract allocator or changes nothing
\* its callers can see.
LEMMA StepRefines == IInv /\ [Next]_vars => [Abstract!Next]_(Abstract!vars)
<1> SUFFICES ASSUME IInv, [Next]_vars PROVE [Abstract!Next]_(Abstract!vars)
  OBVIOUS
<1>1. CASE PmmInit
  BY <1>1, PmmInitBoots
<1>2. CASE AllocateFrame
  BY <1>2, AllocateFrameGrants DEF Abstract!Next
<1>3. CASE AllocateFrameFails
  BY <1>3, AllocateFrameFailsRefuses DEF Abstract!Next
<1>4. ASSUME NEW f \in Frames, NEW addr, FreeFrame(f, addr)
      PROVE  [Abstract!Next]_(Abstract!vars)
  BY <1>4, FreeFrameGivesBack DEF Abstract!Next
<1>5. ASSUME NEW addr, FreeIgnored(addr) PROVE [Abstract!Next]_(Abstract!vars)
  BY <1>5 DEF FreeIgnored, Abstract!vars
<1>6. CASE UNCHANGED vars
  BY <1>6 DEF vars, Abstract!vars
<1> QED BY <1>1, <1>2, <1>3, <1>4, <1>5, <1>6 DEF Next

\* The bitmap allocator implements the abstract one: for every memory map a
\* frame has one holder at a time, freed frames come back, and allocate_frame
\* returns null only when the whole pool is held.
THEOREM PmmImplementsFrameAllocator == Spec => ImplementsFrameAllocator
<1>1. Init => Abstract!Init
  BY DEF Init, Abstract!Init, Abstract!NoFrame, nullptr, FRAME_SIZE
<1> QED BY <1>1, InvariantHolds, StepRefines, PTL
        DEF Spec, ImplementsFrameAllocator, Abstract!Spec
=============================================================================
