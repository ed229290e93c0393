------------------------------ MODULE Kmalloc -------------------------------
(***************************************************************************)
(* The kernel heap: kmalloc (src/vmm/kmalloc.cpp) over a linked list of    *)
(* buckets (src/vmm/bucket.cpp).  A bucket is one frame of the frame       *)
(* allocator: a header, a bitmap, and slots of one power of two.           *)
(*                                                                         *)
(* heap is the static state of the allocator.  The operations are pure     *)
(* operators on it, so that realloc can be the malloc, copy and free it    *)
(* is.  Frames come from the allocator FrameAllocator specifies: any frame *)
(* of the pool that is not held, or null (frame 0) when all are.           *)
(***************************************************************************)
EXTENDS Address, Bitmap, Sequences, SequencesExt

CONSTANTS
    Pool,      \* the frames allocate_frame may give out
    Handles,   \* the variables of the kernel that can hold a block
    Sizes,     \* the sizes that are asked for
    Arrays     \* the <<nmemb, size>> that calloc is asked for

\* The values of out in compute_power that the model covers.
Powers == {16, 32, 64, 128, 256, 512, 1024, 2048, 4096, 8192}

MaxPower == 8192

ASSUME KmallocAssumption ==
    /\ Pool \subseteq 1 .. (QUARTER \div FRAME_SIZE - 1)
    /\ Sizes \subseteq 1 .. MaxPower
    /\ \A a \in Arrays : /\ a[1] \in Nat /\ a[2] \in Nat
                         /\ (a[1] * a[2]) % ADDR_SPACE \in 1 .. MaxPower

VARIABLES
    heap,    \* [list, bucket, held, looped], see Init
    block    \* what each handle holds: a block, or NoBlock

vars == <<heap, block>>

\* A bucket can lie in a frame of the pool, or in frame 0: P2V(nullptr).
Places == Pool \cup {0}

NoBucket == [power |-> 0, bm |-> [size |-> 0, bits |-> {}]]

\* A block: its address and the size asked for; frame and slot are history,
\* the bucket and bit malloc took it from.
NoBlock == [ptr |-> nullptr, size |-> 0, frame |-> 0, slot |-> 0]
-----------------------------------------------------------------------------
(* kmalloc_utils.cpp and the layout of a bucket. *)

SIZEOF_BUCKET == 20        \* next, size, power_size, bitmap {ptr, size}
SIZEOF_LONG_DOUBLE == 12   \* on i386

\* p is compute_power(bytes): the first power, from 16 on, not below bytes.
compute_power(bytes, p) ==
    p \in Powers /\ bytes <= p /\ (p = 16 \/ p \div 2 < bytes)

align(size, a) ==
    IF size % a = 0 THEN size ELSE size + (a - (size % a))

page_begin(ptr) == ptr - (ptr % FRAME_SIZE)

\* The number of slots; bitmap_size never answers less than 1.
bitmap_size(size, p) ==
    IF (size - SIZEOF_BUCKET) \div p = 0 THEN 1 ELSE (size - SIZEOF_BUCKET) \div p

\* The bucket in frame f, the frame of a bucket, and the bucket's bitmap bytes.
BucketAt(f) == P2V(f * FRAME_SIZE)
FrameOf(ptr) == V2P(page_begin(ptr)) \div FRAME_SIZE
bm_ptr(f) == BucketAt(f) + SIZEOF_BUCKET

\* Mutant: the slots start after the bitmap's size counted from the bucket.
bitmap_offset_NoHeader(f, b, i) ==
    align(BucketAt(f) + (b.bm.size + 7) \div 8, SIZEOF_LONG_DOUBLE) + i * b.power

\* Address of slot i: the first aligned byte after (bm.size + 7) / 8 bytes,
\* though bm.size already counts bytes, plus i slots.
bitmap_offset(f, b, i) ==
    align(bm_ptr(f) + (b.bm.size + 7) \div 8, SIZEOF_LONG_DOUBLE) + i * b.power

\* The bits of f's bitmap that live in the n bytes from ptr on.
BitsUnder(f, b, ptr, n) ==
    {i \in Bits(b.bm) : bm_ptr(f) + i \div BYTE \in ptr .. (ptr + n - 1)}
-----------------------------------------------------------------------------
(* bucket.cpp. *)

\* A new bucket: the bitmap covers the slots of new_size bytes, all clear.
allocate_bucket(p) ==
    [power |-> p,
     bm |-> NewBitmap({}, bitmap_size(align(p + SIZEOF_BUCKET, FRAME_SIZE), p))]

\* What allocate_frame may answer.  P2V of null is not null, so the test that
\* follows it in allocate_bucket never holds and frame 0 becomes a bucket.
FrameAnswers(h) == IF Pool \subseteq h.held THEN {0} ELSE Pool \ h.held

\* Mutant: null is entered among the frames held.
push_bucket_HoldsNull(h, f, p) ==
    [list   |-> <<f>> \o h.list,
     bucket |-> [h.bucket EXCEPT ![f] = allocate_bucket(p)],
     held   |-> h.held \cup {f},
     looped |-> h.looped \/ f \in Range(h.list)]

\* push_bucket.  A second bucket in frame 0 points back at the first one.
push_bucket(h, f, p) ==
    [list   |-> <<f>> \o h.list,
     bucket |-> [h.bucket EXCEPT ![f] = allocate_bucket(p)],
     held   |-> h.held \cup ({f} \cap Pool),
     looped |-> h.looped \/ f \in Range(h.list)]

\* Mutant: free_bucket is forgotten.
remove_bucket_Leaks(h, f) ==
    [h EXCEPT !.list = RemoveFirst(@, f), !.bucket[f] = NoBucket]

\* remove_bucket and its free_frame.
remove_bucket(h, f) ==
    [h EXCEPT !.list = RemoveFirst(@, f),
              !.bucket[f] = NoBucket,
              !.held = @ \ {f}]
-----------------------------------------------------------------------------
(* kmalloc.cpp, as operators on the heap. *)

\* The walk of malloc stops at position k of the list.
Fits(h, k, p) ==
    LET b == h.bucket[h.list[k]] IN b.power = p /\ ~NoneFree(b.bm)

FirstFit(h, k, p) ==
    k \in DOMAIN h.list /\ Fits(h, k, p) /\ \A j \in 1 .. (k - 1) : ~Fits(h, j, p)

NoFit(h, p) == \A k \in DOMAIN h.list : ~Fits(h, k, p)

\* f is the bucket that serves a request for power p.
Serves(h, p, f) ==
    \/ \E k \in DOMAIN h.list : FirstFit(h, k, p) /\ f = h.list[k]
    \/ NoFit(h, p) /\ f \in FrameAnswers(h)

\* The heap once that bucket is on the list.
WithBucket(h, p, f) == IF NoFit(h, p) THEN push_bucket(h, f, p) ELSE h

\* malloc(size) uses power p, bucket f and slot i.
Malloc(h, size, p, f, i) ==
    /\ compute_power(size, p)
    /\ Serves(h, p, f)
    /\ IsFirstFree(WithBucket(h, p, f).bucket[f].bm, i)

\* The heap after that malloc, and the block it returns to serve n bytes.
Malloced(h, p, f, i) ==
    LET w == WithBucket(h, p, f)
    IN  [w EXCEPT !.bucket[f].bm = set_bit(@, i)]

NewBlock(h, n, p, f, i) ==
    [ptr   |-> bitmap_offset(f, WithBucket(h, p, f).bucket[f], i),
     size  |-> n, frame |-> f, slot |-> i]

\* n bytes from ptr on are overwritten, with ones or with zeroes; the bitmap
\* of the bucket sees it where the bytes are its own.
Written(h, f, ptr, n, ones) ==
    LET under == BitsUnder(f, h.bucket[f], ptr, n)
    IN  [h EXCEPT !.bucket[f].bm.bits = (@ \ under) \cup (IF ones THEN under ELSE {})]

\* Mutant: the division rounds up.
bit_offset_RoundsUp(b, f, ptr) == (ptr - bm_ptr(f) + b.power - 1) \div b.power

\* The bit free clears.
bit_offset(b, f, ptr) == (ptr - bm_ptr(f) + b.bm.size) \div b.power

\* Mutant: an empty bucket is not removed.
Freed_KeepsBucket(h, ptr) ==
    LET f == FrameOf(ptr)
        b == h.bucket[f]
    IN  [h EXCEPT !.bucket[f].bm = clear_bit(b.bm, bit_offset(b, f, ptr))]

Freed(h, ptr) ==
    LET f == FrameOf(ptr)
        b == h.bucket[f]
        bm == clear_bit(b.bm, bit_offset(b, f, ptr))
    IN  IF h.list = <<>> THEN h
        ELSE IF is_empty(bm) THEN remove_bucket(h, f)
        ELSE [h EXCEPT !.bucket[f].bm = bm]
-----------------------------------------------------------------------------
(* The calls the kernel makes.  Once the list is a loop a walk that finds no *)
(* fit never ends; the model stops there.                                    *)

Init ==
    /\ heap = [list |-> <<>>, bucket |-> [f \in Places |-> NoBucket],
               held |-> {}, looped |-> FALSE]
    /\ block = [x \in Handles |-> NoBlock]

Slots(p) == 0 .. (allocate_bucket(p).bm.size - 1)

\* malloc(size), and realloc(nullptr, size), which is the same call.
MallocCall(x, size) ==
    /\ ~heap.looped
    /\ block[x] = NoBlock
    /\ \E p \in Powers, f \in Places : \E i \in Slots(p) :
        /\ Malloc(heap, size, p, f, i)
        /\ heap' = Malloced(heap, p, f, i)
        /\ block' = [block EXCEPT ![x] = NewBlock(heap, size, p, f, i)]

\* calloc: the 64-bit product never overflows, malloc and memset take its low
\* 32 bits.
CallocCall(x, nmemb, size) ==
    LET result == (nmemb * size) % ADDR_SPACE IN
    /\ ~heap.looped
    /\ block[x] = NoBlock
    /\ \E p \in Powers, f \in Places : \E i \in Slots(p) :
        LET b == NewBlock(heap, nmemb * size, p, f, i) IN
        /\ Malloc(heap, result, p, f, i)
        /\ heap' = Written(Malloced(heap, p, f, i), f, b.ptr, result, FALSE)
        /\ block' = [block EXCEPT ![x] = b]

\* free(ptr), and realloc(ptr, 0), which is the same call.
FreeCall(x) ==
    /\ ~heap.looped
    /\ block[x] # NoBlock
    /\ heap' = Freed(heap, block[x].ptr)
    /\ block' = [block EXCEPT ![x] = NoBlock]

\* realloc(ptr, size) within the slot: the same pointer is returned.
ReallocInPlace(x, size) ==
    /\ ~heap.looped
    /\ block[x] # NoBlock
    /\ size <= heap.bucket[FrameOf(block[x].ptr)].power
    /\ block' = [block EXCEPT ![x].size = size]
    /\ UNCHANGED heap

\* realloc(ptr, size) past the slot: malloc, copy of the old slot, free.
ReallocMove(x, size, ones) ==
    LET old == block[x]
        oldPower == heap.bucket[FrameOf(old.ptr)].power
    IN
    /\ ~heap.looped
    /\ old # NoBlock
    /\ size > oldPower
    /\ \E p \in Powers, f \in Places : \E i \in Slots(p) :
        LET b == NewBlock(heap, size, p, f, i)
            copied == Written(Malloced(heap, p, f, i), f, b.ptr, oldPower, ones)
        IN
        /\ Malloc(heap, size, p, f, i)
        /\ heap' = Freed(copied, old.ptr)
        /\ block' = [block EXCEPT ![x] = b]

\* The holder of a block writes it.
UserWrites(x, ones) ==
    /\ ~heap.looped
    /\ block[x] # NoBlock
    /\ heap' = Written(heap, FrameOf(block[x].ptr), block[x].ptr, block[x].size, ones)
    /\ UNCHANGED block

Next ==
    \E x \in Handles :
        \/ \E size \in Sizes : MallocCall(x, size)
        \/ \E a \in Arrays : CallocCall(x, a[1], a[2])
        \/ FreeCall(x)
        \/ \E size \in Sizes : ReallocInPlace(x, size)
        \/ \E size \in Sizes, ones \in BOOLEAN : ReallocMove(x, size, ones)
        \/ \E ones \in BOOLEAN : UserWrites(x, ones)

Spec == Init /\ [][Next]_vars
-----------------------------------------------------------------------------
(* Properties. *)

BucketType == [power : Powers \cup {0}, bm : [size : Nat, bits : SUBSET Nat]]

BlockType == [ptr : Nat, size : Nat, frame : Places, slot : Nat]

TypeOK ==
    /\ heap \in [list : Seq(Places), bucket : [Places -> BucketType],
                 held : SUBSET Pool, looped : BOOLEAN]
    /\ block \in [Handles -> BlockType]

Live == {x \in Handles : block[x] # NoBlock}

\* The bytes of a block that its holder may use: realloc lets it grow to the
\* power of its bucket without moving.
LastByte(b) == b.ptr + heap.bucket[b.frame].power - 1

\* No two live blocks share a byte, whatever was freed, moved or grown before.
BlocksDisjoint ==
    ~heap.looped =>
        \A x, y \in Live : x # y =>
            \/ LastByte(block[x]) < block[y].ptr
            \/ LastByte(block[y]) < block[x].ptr

\* A live block has at least the size asked for, lies in the frame of a bucket
\* that is on the list, behind the header and the bits malloc searches.
BlocksBacked ==
    ~heap.looped =>
        \A x \in Live :
            LET b == block[x] IN
            /\ b.frame \in Range(heap.list)
            /\ b.size <= heap.bucket[b.frame].power
            /\ b.ptr >= bm_ptr(b.frame) + (heap.bucket[b.frame].bm.size + 7) \div 8
            /\ LastByte(b) < BucketAt(b.frame) + FRAME_SIZE

\* Every frame taken from the frame allocator is a bucket on the list, once,
\* and a bucket taken off the list gives its frame back.
FramesConserved ==
    ~heap.looped =>
        /\ heap.held = Range(heap.list) \ {0}
        /\ \A j, k \in DOMAIN heap.list : heap.list[j] = heap.list[k] => j = k

\* free gives a bucket of slots of 128 bytes and more back as soon as its last
\* block is freed: each on the list has a live block.  (In a bucket of smaller
\* slots, data on the tail of the bitmap can keep it on the list.)
NoIdleBucket ==
    ~heap.looped =>
        \A f \in Range(heap.list) :
            heap.bucket[f].power >= 128 => \E x \in Live : block[x].frame = f
=============================================================================
